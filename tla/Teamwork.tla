------------------------------ MODULE Teamwork ------------------------------
(***************************************************************************)
(* Delegation, for TLC: the mailbox and the shared tasks between           *)
(* processes, the teams of one process, and the sub-agents of one process. *)
(* The four meet only at calls that each module models from its own side,  *)
(* so the instance explores their sum: focus is chosen at the start and    *)
(* the others stay in their initial states.                                *)
(***************************************************************************)
EXTENDS Naturals, FiniteSets, Sequences

CONSTANTS Procs, Messages, MAX_ATTEMPTS, MaxMade, NoFile, Torn, NoOne,
          Slugs, First, Alias, Agents, Names, NoTeam, Lead, MAX_POLLS,
          Main, MaxKids, UserModes, MaxWasted

VARIABLES
    focus,
    letters, lock, exists, posAt, op, tries, buf, written, taken, forced,
    file, mem, opened, at, target, seen, made, users, lost,
    dirs, boxes, saved, known, team, registry, teamOf, name, task, polls, inbox, coordinator,
    registryTools, full, coord, surface, hasty, spelled,
    decision, calls, mode, kind, caller, state, back, tools, kmode, node, stray, leftover,
    fresh, lowered

post == <<letters, lock, exists, posAt, op, tries, buf, written, taken, forced>>
board == <<file, mem, opened, at, target, seen, made, users, lost>>
teams == <<dirs, boxes, saved, known, team, registry, teamOf, name, task, polls, inbox,
           coordinator, registryTools, full, coord, surface, hasty, spelled>>
kids == <<decision, calls, mode, kind, caller, state, back, tools, kmode, node, stray, leftover,
          fresh, lowered>>

P == INSTANCE Mailbox WITH inbox <- letters, at <- posAt
B == INSTANCE TaskBoard WITH Spellings <- {First, Alias}, Slug <- First
T == INSTANCE Teams WITH mode <- coordinator, tools <- registryTools
D == INSTANCE Delegation

(* What stands for no lock, no file, a torn file, no agent and no team is  *)
(* none of these, no message is the word for consuming, and the second     *)
(* spelling is no slug.                                                    *)
ASSUME TeamworkAssumption ==
    /\ NoOne \notin [holder : Procs, old : BOOLEAN] /\ Torn \notin Seq(P!Entry)
    /\ "consume" \notin Messages
    /\ MaxMade \in Nat /\ NoFile # Torn /\ {NoFile, Torn} \cap B!Store = {}
    /\ First \in Slugs /\ Alias \notin Slugs /\ NoTeam \notin Slugs \cup {Alias}
    /\ NoOne \notin Agents /\ Lead \notin Agents /\ Names # {}
    /\ UserModes \subseteq D!Modes

(* What is not looked at starts in one state.                              *)
Quiet == /\ focus # "teams" => dirs = {} /\ ~coord /\ surface = "other"
         /\ focus # "kids" => mode = "plan"

Init ==
    /\ focus \in {"post", "board", "teams", "kids"}
    /\ P!Init /\ B!Init /\ T!Init /\ D!Init /\ Quiet

Next ==
    /\ UNCHANGED focus
    /\ \/ focus = "post" /\ P!Next /\ UNCHANGED <<board, teams, kids>>
       \/ focus = "board" /\ B!Next /\ UNCHANGED <<post, teams, kids>>
       \/ focus = "teams" /\ T!Next /\ UNCHANGED <<post, board, kids>>
       \/ focus = "kids" /\ D!Next /\ UNCHANGED <<post, board, teams>>

Spec == Init /\ [][Next]_<<focus, post, board, teams, kids>>

-----------------------------------------------------------------------------
(* Bounds: a mailbox whose lock was forced promises nothing and is         *)
(* followed only while it is empty; one teammate is enough with            *)
(* coordinator mode, and one team with two spellings; of the mishaps few   *)
(* come together.                                                          *)
Charged == \E b \in D!AllAgents : calls[b] > Cardinality({k \in fresh : caller[k] = b})
Kids(status) == {k \in D!Kids : state[k] = status}
Resumed == {k \in D!Kids : leftover[k] # "no"}

FewMishaps ==
    /\ forced => taken = <<>> /\ written = {}
    /\ coord => Cardinality({a \in Agents : teamOf[a] # NoTeam}) <= 1
    /\ Cardinality(users) <= 2
    /\ Cardinality(known) <= 2 /\ Cardinality(hasty) <= 1
    /\ spelled # {} => Cardinality(dirs) <= 1 /\ hasty = {}
    /\ stray # {} => Resumed # {} /\ lowered = {}
    /\ Resumed # {} => Kids("cut") \cup Kids("gone") = {} /\ Cardinality(Resumed) = 1
    /\ Cardinality(lowered) <= 1 /\ Cardinality(Kids("cut")) <= 1
    /\ lowered # {} => Kids("done") \cup Kids("cut") = {}
    /\ Kids("gone") # {} => lowered = {} /\ Kids("new") \cup Kids("run") \cup Kids("cut") = {}
    /\ Charged => lowered = {} /\ kind[MaxKids] = "none" /\ Kids("gone") \cup Kids("cut") = {}

(* mailbox.py: a message is consumed once and in order (P!KeepsPromise;    *)
(* where the mailbox is not looked at nothing of it changes).              *)
KeepsPromise == P!Promise!Init /\ [][focus = "post" => P!Promise!Next]_(P!Promise!vars)

(* shared_task.py: what one store wrote is lost only to a creation by      *)
(* another that had not read it, be it of the same process under another   *)
(* spelling, or, between processes, to operations that overlap.            *)
LostOnlyToStale == B!LostOnlyToStale

(* manager.py, registry.py, task_manager.py: a living teammate has a team  *)
(* and a name it is found under, and reads what it was sent before it      *)
(* leaves.                                                                 *)
TeammatesReached == T!ReadBeforeLeaving /\ T!Reachable /\ T!OutlivesMembers

(* team_create.py, team_delete.py: coordinator mode ends with the last     *)
(* team and gives the full tools back.                                     *)
FullToolsReturn == T!FullToolsReturn

(* orchestration.py, agent_tool.py: no agent starts more children than it  *)
(* decided, and chains end.                                                *)
DelegationBounded == D!DelegationBounded

(* tool_filter.py, modes.py, trace.py: what a child may use, and what the  *)
(* trace file says of it.                                                  *)
ChildContained == D!ChildContained
=============================================================================
