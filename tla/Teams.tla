------------------------------- MODULE Teams -------------------------------
(***************************************************************************)
(* Teams in one process: TeamManager, AgentNameRegistry, the idle loop of  *)
(* TaskManager and the tools TeamCreate, TeamDelete, Agent (team_name) and *)
(* SendMessage.                                                            *)
(*                                                                         *)
(* A team is a directory and an object in _teams; the object is found      *)
(* under the spelling it was asked for, the directory under the sanitized  *)
(* name, so two spellings of one name are two objects over one directory.  *)
(* A teammate works, writes "idle" to the lead, looks into its inbox once  *)
(* a second for a minute and ends.                                         *)
(***************************************************************************)
EXTENDS Naturals, FiniteSets

CONSTANTS
    Slugs,          \* sanitized team names
    First,          \* the slug a second spelling is sanitized to
    Alias,          \* that other spelling
    Agents, Names,
    NoOne,          \* no agent
    NoTeam,
    Lead,           \* the inbox of lead_agent_id
    MAX_POLLS       \* 60 in the code

VARIABLES
    dirs,       \* teams with a directory and a config.json
    boxes,      \* teams with a mailbox directory
    saved,      \* saved[s]: members and active members in config.json
    known,      \* spellings in _teams
    team,       \* team[k]: members and active members of that object
    registry,   \* registry[n]: the agent AgentNameRegistry resolves n to
    teamOf,     \* teamOf[a]: the spelling a was spawned with, NoTeam before
    name,       \* name[a]
    task,       \* task[a]: "none", "work", "idle", "ended", "told" or "lost"
    polls,      \* polls[a]: looks into the inbox so far
    inbox,      \* inbox[s][a]: kinds of unread messages
    mode,       \* coordinator_mode of the main agent
    tools,      \* its registry: "full" or "narrow"
    full,       \* its _full_registry: "none", "full" or "narrow"
    coord,      \* enable_coordinator_mode
    surface,    \* "tui", which alone reports ended teammates, "other" or "over"
    hasty,      \* history: agents that ended during or right after a run
    spelled     \* history: slugs that were known under two spellings

vars == <<dirs, boxes, saved, known, team, registry, teamOf, name, task, polls, inbox, mode,
          tools, full, coord, surface, hasty, spelled>>

Keys == Slugs \cup {Alias}
Slug(k) == IF k = Alias THEN First ELSE k
Roster == [members : SUBSET Agents, active : SUBSET Agents]
Nobody == [members |-> {}, active |-> {}]
Boxes == Agents \cup {Lead}
NoMail == [b \in Boxes |-> {}]

TypeOK ==
    /\ dirs \subseteq Slugs /\ boxes \subseteq Slugs /\ known \subseteq Keys
    /\ saved \in [Slugs -> Roster] /\ team \in [Keys -> Roster]
    /\ registry \in [Names -> Agents \cup {NoOne}]
    /\ teamOf \in [Agents -> Keys \cup {NoTeam}] /\ name \in [Agents -> Names]
    /\ task \in [Agents -> {"none", "work", "idle", "ended", "told", "lost"}]
    /\ polls \in [Agents -> 0..MAX_POLLS]
    /\ inbox \in [Slugs -> [Boxes -> SUBSET {"ontime", "late"}]]
    /\ mode \in BOOLEAN /\ coord \in BOOLEAN /\ surface \in {"tui", "other", "over"}
    /\ tools \in {"full", "narrow"} /\ full \in {"none", "full", "narrow"}
    /\ hasty \subseteq Agents /\ spelled \subseteq Slugs

(* A process that died may have left a team on disk, its members active.   *)
Init ==
    /\ \E left \in SUBSET Agents :
          /\ Cardinality(left) <= 1
          /\ dirs = IF left = {} THEN {} ELSE {First}
          /\ saved = [s \in Slugs |-> IF s \in dirs THEN [members |-> left, active |-> left]
                                                    ELSE Nobody]
          /\ task = [a \in Agents |-> IF a \in left THEN "lost" ELSE "none"]
    /\ boxes = dirs /\ known = {} /\ team = [k \in Keys |-> Nobody]
    /\ registry = [n \in Names |-> NoOne] /\ teamOf = [a \in Agents |-> NoTeam]
    /\ name = [a \in Agents |-> CHOOSE n \in Names : TRUE]
    /\ polls = [a \in Agents |-> 0] /\ inbox = [s \in Slugs |-> NoMail]
    /\ mode = FALSE /\ tools = "full" /\ full = "none" /\ coord \in BOOLEAN /\ surface \in {"tui", "other"}
    /\ hasty = {} /\ spelled = {}

Live(a) == task[a] \in {"work", "idle"}
Home(a) == Slug(teamOf[a])

-----------------------------------------------------------------------------
(* get_team: the object under this spelling, or one loaded from disk.      *)

Found(k) == k \in known \/ Slug(k) \in dirs
Loaded(k) == IF k \in known THEN team[k] ELSE saved[Slug(k)]
Spelling(ks) == spelled' = spelled \cup {s \in Slugs : \E i, j \in ks : i # j /\ Slug(i) = s /\ Slug(j) = s}

(* save() writes the object over config.json and makes its directory.      *)
Saves(k, roster) ==
    /\ known' = known \cup {k} /\ Spelling(known')
    /\ team' = [team EXCEPT ![k] = roster]
    /\ saved' = [saved EXCEPT ![Slug(k)] = roster] /\ dirs' = dirs \cup {Slug(k)}

Wrote(s, b, kind) == inbox' = [inbox EXCEPT ![s][b] = @ \cup {kind}]

-----------------------------------------------------------------------------
(* TeamCreate.                                                             *)

Free(s) == s \notin dirs

(* unique_team_name: the name itself or the next one that is free.         *)
Unique(k, s) == Free(s) /\ (s = Slug(k) \/ ~Free(Slug(k)))

(* Faulty variant: every creation keeps the registry it finds.             *)
NarrowAgain == full' = tools /\ tools' = "narrow" /\ mode' = TRUE

Narrow ==
    IF mode THEN UNCHANGED <<mode, tools, full>>
            ELSE full' = tools /\ tools' = "narrow" /\ mode' = TRUE

CreateTeam(k) ==
    /\ \E s \in Slugs :
          /\ Unique(k, s) /\ Saves(s, Nobody)
          /\ boxes' = boxes \cup {s} /\ inbox' = [inbox EXCEPT ![s] = NoMail]
    /\ IF coord THEN Narrow ELSE UNCHANGED <<mode, tools, full>>
    /\ UNCHANGED <<registry, teamOf, name, task, polls, coord, surface, hasty>>

-----------------------------------------------------------------------------
(* Agent with team_name: the name is taken if free in this team, else one  *)
(* with a number; then the worktree, the registry and the task.            *)

FreeName(k) == {n \in Names : \A a \in Loaded(k).members : name[a] # n}

Spawn(k, a) ==
    /\ task[a] = "none" /\ Found(k)
    /\ \E n \in FreeName(k) :
          /\ name' = [name EXCEPT ![a] = n] /\ registry' = [registry EXCEPT ![n] = a]
    /\ Saves(k, [members |-> Loaded(k).members \cup {a}, active |-> Loaded(k).active \cup {a}])
    /\ teamOf' = [teamOf EXCEPT ![a] = k] /\ task' = [task EXCEPT ![a] = "work"]
    /\ UNCHANGED <<boxes, polls, inbox, mode, tools, full, coord, surface, hasty>>

(* _run_teammate_idle_loop.  A mailbox that is gone ends the task.  The    *)
(* notice "idle" goes to an inbox called lead, which nobody reads.         *)
Ended(a) == task' = [task EXCEPT ![a] = "ended"]

TurnEnds(a) ==
    /\ task[a] = "work"
    /\ IF Home(a) \in boxes /\ polls[a] < MAX_POLLS
         THEN task' = [task EXCEPT ![a] = "idle"] /\ UNCHANGED hasty
         ELSE Ended(a) /\ hasty' = hasty \cup {a}
    /\ UNCHANGED <<dirs, boxes, saved, known, team, registry, teamOf, name, polls, inbox, mode,
                   tools, full, coord, surface, spelled>>

(* Faulty variant: the last look is skipped.                               *)
LooksLess(a) == polls[a] + 1 < MAX_POLLS

Looks(a) == TRUE

PollMail(a) ==
    /\ task[a] = "idle" /\ Home(a) \in boxes /\ Looks(a) /\ inbox[Home(a)][a] # {}
    /\ inbox' = [inbox EXCEPT ![Home(a)][a] = {}] /\ polls' = [polls EXCEPT ![a] = @ + 1]
    /\ task' = [task EXCEPT ![a] = "work"]
    /\ UNCHANGED <<dirs, boxes, saved, known, team, registry, teamOf, name, mode, tools, full,
                   coord, surface, hasty, spelled>>

PollEmpty(a) ==
    /\ task[a] = "idle" /\ Home(a) \in boxes /\ (Looks(a) => inbox[Home(a)][a] = {})
    /\ polls' = [polls EXCEPT ![a] = @ + 1]
    /\ IF polls'[a] < MAX_POLLS THEN UNCHANGED task ELSE Ended(a)
    /\ UNCHANGED <<dirs, boxes, saved, known, team, registry, teamOf, name, inbox, mode, tools,
                   full, coord, surface, hasty, spelled>>

(* The run fails or is cancelled, or the mailbox has gone.                 *)
Fails(a) ==
    /\ Live(a) /\ Ended(a) /\ hasty' = hasty \cup {a}
    /\ UNCHANGED <<dirs, boxes, saved, known, team, registry, teamOf, name, polls, inbox, mode,
                   tools, full, coord, surface, spelled>>

-----------------------------------------------------------------------------
(* SendMessage: the name is resolved in the whole process, the message     *)
(* goes into the mailbox of the sender's own team.                         *)

Kind(s, b) ==
    IF b = Lead \/ (Live(b) /\ Home(b) = s) THEN "ontime" ELSE "late"

SendMessage(a, n) ==
    /\ task[a] = "work" /\ Found(teamOf[a]) /\ Home(a) \in boxes /\ registry[n] # NoOne
    /\ Wrote(Home(a), registry[n], Kind(Home(a), registry[n]))
    /\ UNCHANGED <<dirs, boxes, saved, known, team, registry, teamOf, name, task, polls, mode,
                   tools, full, coord, surface, hasty, spelled>>

Broadcast(a) ==
    /\ task[a] = "work" /\ Found(teamOf[a]) /\ Home(a) \in boxes
    /\ inbox' = [inbox EXCEPT ![Home(a)] =
                    [b \in Boxes |-> IF b \in (Loaded(teamOf[a]).members \ {a}) \cup {Lead}
                                       THEN @[b] \cup {Kind(Home(a), b)} ELSE @[b]]]
    /\ UNCHANGED <<dirs, boxes, saved, known, team, registry, teamOf, name, task, polls, mode,
                   tools, full, coord, surface, hasty, spelled>>

-----------------------------------------------------------------------------
(* The lead hears of it: poll_completed, on_teammate_completed in the      *)
(* terminal interface, and drain_lead_mailbox.                             *)

Reported(a) ==
    /\ task[a] = "ended" /\ task' = [task EXCEPT ![a] = "told"]
    /\ IF surface = "tui" /\ Found(teamOf[a]) /\ a \in Loaded(teamOf[a]).members
         THEN /\ Saves(teamOf[a], [Loaded(teamOf[a]) EXCEPT !.active = @ \ {a}])
              /\ IF Home(a) \in boxes THEN Wrote(Home(a), Lead, "ontime") ELSE UNCHANGED inbox
         ELSE UNCHANGED <<dirs, saved, known, team, inbox, spelled>>
    /\ UNCHANGED <<boxes, registry, teamOf, name, polls, mode, tools, full, coord, surface, hasty>>

DrainLead ==
    /\ inbox' = [s \in Slugs |->
                    IF \E k \in known : Slug(k) = s THEN [inbox[s] EXCEPT ![Lead] = {}]
                                                    ELSE inbox[s]]
    /\ UNCHANGED <<dirs, boxes, saved, known, team, registry, teamOf, name, task, polls, mode,
                   tools, full, coord, surface, hasty, spelled>>

-----------------------------------------------------------------------------
(* TeamDelete, and the exit of the terminal interface.                     *)

(* Faulty variant: active members do not matter.                           *)
AnyMembers(k) == TRUE

AllIdle(k) == Loaded(k).active = {}

Unregistered(ks) ==
    [n \in Names |-> IF \E k \in ks : \E a \in Loaded(k).members : name[a] = n THEN NoOne
                                                                           ELSE registry[n]]

(* The full tools come back with the end of the last team.                 *)
Restore ==
    IF mode /\ known' = {} THEN mode' = FALSE /\ tools' = full /\ full' = "none"
                           ELSE UNCHANGED <<mode, tools, full>>

Removes(ks) ==
    /\ registry' = Unregistered(ks) /\ known' = known \ ks
    /\ team' = [k \in Keys |-> IF k \in ks THEN Nobody ELSE team[k]]
    /\ dirs' = dirs \ {Slug(k) : k \in ks} /\ boxes' = boxes \ {Slug(k) : k \in ks}
    /\ saved' = [s \in Slugs |-> IF s \in dirs' THEN saved[s] ELSE Nobody]
    /\ inbox' = [s \in Slugs |-> IF s \in boxes' THEN inbox[s] ELSE NoMail]
    /\ Spelling(known \cup ks)

DeleteTeam(k) ==
    /\ Found(k) /\ AllIdle(k) /\ Removes({k}) /\ Restore
    /\ UNCHANGED <<teamOf, name, task, polls, coord, surface, hasty>>

(* The cleanup marks every member idle first, and the process ends.        *)
ExitCleanup ==
    /\ surface = "tui" /\ known # {} /\ Removes(known)
    /\ task' = [a \in Agents |-> IF task[a] = "none" THEN "none" ELSE "lost"]
    /\ UNCHANGED <<teamOf, name, polls, mode, tools, full, coord, hasty>> /\ surface' = "over"

Next ==
    /\ surface # "over"
    /\ \/ \E k \in Keys : CreateTeam(k) \/ DeleteTeam(k) \/ \E a \in Agents : Spawn(k, a)
       \/ \E a \in Agents :
           \/ TurnEnds(a) \/ PollMail(a) \/ PollEmpty(a) \/ Fails(a) \/ Reported(a) \/ Broadcast(a)
           \/ \E n \in Names : SendMessage(a, n)
       \/ DrainLead \/ ExitCleanup

Spec == Init /\ [][Next]_vars

-----------------------------------------------------------------------------
(* Properties.                                                             *)

(* task_manager.py: a teammate does not leave a message unread that was    *)
(* sent to it while it lived, unless it failed, was cancelled or ran in    *)
(* the last second of its minute.                                          *)
ReadBeforeLeaving ==
    \A a \in Agents : task[a] \in {"ended", "told"} /\ "ontime" \in inbox[Home(a)][a]
                          => a \in hasty

(* registry.py: a living teammate is found under its name, unless a        *)
(* namesake joined another team, or the team was asked for under two       *)
(* spellings: created anew, it does not know the members it had, and gives *)
(* their names away.                                                       *)
Reachable ==
    \A a \in Agents :
        Live(a) => \/ registry[name[a]] = a \/ Home(a) \in spelled
                   \/ \E b \in Agents \ {a} : /\ task[b] # "none" /\ name[b] = name[a]
                                              /\ teamOf[b] # teamOf[a]

(* manager.py: a team is not deleted under a member that lives, unless it  *)
(* was asked for under two spellings, whose objects know nothing of each   *)
(* other's members.                                                        *)
OutlivesMembers == \A a \in Agents : Live(a) => Home(a) \in dirs \cup spelled

(* team_create.py, team_delete.py: coordinator mode narrows the tools of   *)
(* the main agent exactly while teams exist, and the registry that comes   *)
(* back is the full one, whatever was created and deleted in between.      *)
FullToolsReturn ==
    surface # "over" =>
    IF mode THEN tools = "narrow" /\ full = "full" /\ known # {} ELSE tools = "full"
=============================================================================
