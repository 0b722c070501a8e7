----------------------------- MODULE Delegation -----------------------------
(***************************************************************************)
(* Sub-agents: who may start how many of them, with which tools and which  *)
(* permission mode, and what the trace file says of them.                  *)
(* OrchestrationController, AgentTool, tool_filter, restrict_child_mode    *)
(* and TraceManager.                                                       *)
(*                                                                         *)
(* Main decides on every new task, queued message and notice how many      *)
(* agents the task is worth; each call of Agent is charged to that         *)
(* decision, whether it succeeds or not.  A fork holds Main's tools, the   *)
(* tool Agent among them, and decides for itself; the children it starts   *)
(* are built as Main's.                                                    *)
(***************************************************************************)
EXTENDS Naturals, FiniteSets

CONSTANTS
    Main,
    MaxKids,    \* bound: sub-agents, numbered as they start
    UserModes,  \* bound: modes the user switches between
    MaxWasted   \* bound: calls that were charged and failed

VARIABLES
    decision,   \* decision[a]: the topology chosen last
    calls,      \* calls[a]: agents charged to it
    mode,       \* permission mode of Main
    kind,       \* kind[k]: "none", "sub", "fork", "team" or "tree"
    caller,     \* caller[k]: whose tool started k
    state,      \* state[k]: "none", "new", "run", "idle", "done", "cut" or "gone"
    back,       \* back[k]: k runs under the TaskManager
    tools,      \* tools[k]
    kmode,      \* kmode[k]: its permission mode
    node,       \* node[k]: status of its trace node
    stray,      \* statuses of nodes that no agent has
    leftover,   \* leftover[k]: the loop of the teammate that k was before it was resumed:
                \* "no", "runs", or "ended" and has completed the node of the new agent
    fresh,      \* history: kids started since their caller decided
    lowered     \* history: kids older than the last time Main's mode was lowered

vars == <<decision, calls, mode, kind, caller, state, back, tools, kmode, node, stray, leftover,
          fresh, lowered>>

Kids == 1..MaxKids
AllAgents == Kids \cup {Main}
Modes == {"plan", "default", "acceptEdits", "bypass"}
Rank == [m \in Modes |-> CASE m = "plan" -> 0 [] m = "default" -> 1
                           [] m = "acceptEdits" -> 2 [] OTHER -> 3]

-----------------------------------------------------------------------------
(* Tools, one for each class the filters tell apart; Ledger is Main's      *)
(* UpdateContextLedger, OwnLedger a child's.                               *)

MainTools == {"Agent", "TeamCreate", "AskUser", "Ledger", "Bash", "mcp"}
AgentDisallowed == {"Agent", "AskUser", "Ledger"}
AsyncAllowed == {"Bash"}
Coordination == {"SendMessage"}

(* The agent types: the general one, the built-in background one, and a    *)
(* project's own that asks for more and runs in a worktree.                *)
Types ==
    [worker  |-> [bans |-> {}, only |-> {}, background |-> FALSE, tree |-> FALSE,
                  mode |-> "default"],
     checker |-> [bans |-> {"Agent"}, only |-> {}, background |-> TRUE, tree |-> FALSE,
                  mode |-> "default"],
     own     |-> [bans |-> {}, only |-> {"Agent", "Bash"}, background |-> FALSE, tree |-> TRUE,
                  mode |-> "bypass"]]

Limited(set, def, extra) ==
    {t \in set \ def.bans : def.only = {} \/ t \in def.only \cup extra}

(* Faulty variant: no layer removes the tools no child may have.           *)
ResolveUnfiltered(def, background) == Limited(MainTools, def, {"mcp"})

ResolveAgentTools(def, background) ==
    LET built == MainTools \ (AgentDisallowed \cup {"mcp"})
    IN  Limited(IF background THEN built \cap AsyncAllowed ELSE built, def, {}) \cup {"mcp"}

TeammateTools(def) ==
    Limited(MainTools \cap (AsyncAllowed \cup Coordination), def, Coordination) \cup Coordination

ForkTools == MainTools \ {"Ledger"}

WithOwnLedger(set) == IF "Ledger" \in set THEN set ELSE set \cup {"OwnLedger"}

Restrict(requested) == IF Rank[requested] <= Rank[mode] THEN requested ELSE mode

-----------------------------------------------------------------------------
(* OrchestrationController.decide, on what it looks for in the text.       *)

Query == [forbid : BOOLEAN, team : BOOLEAN, delegate : BOOLEAN, broad : 0..3, long : BOOLEAN,
          tight : BOOLEAN]

(* Texts that name one thing, nothing, or everything.                      *)
Queries ==
    {q \in Query : /\ Cardinality({x \in {"forbid", "team", "delegate", "long", "tight"} : q[x]}) <= 1
                   /\ q.broad > 0 => ~q.forbid /\ ~q.tight}

Score(q) == (IF q.team THEN 3 ELSE 0) + (IF q.delegate THEN 2 ELSE 0) + q.broad
            + (IF q.long THEN 1 ELSE 0)

Chosen(m, max) == [mode |-> m, max |-> max]
Solo == Chosen("solo", 0)

Decide(q, hasAgent, hasTeam, plan) ==
    IF q.forbid \/ ~hasAgent \/ q.tight \/ (Score(q) = 0 /\ ~plan) THEN Solo
    ELSE IF q.team /\ hasTeam THEN Chosen("coordinate", 3)
    ELSE IF q.delegate \/ q.broad > 0
      THEN IF Score(q) >= 3 THEN Chosen("parallel_explore", 2) ELSE Chosen("delegate", 1)
    ELSE IF plan THEN Chosen("delegate", 1) ELSE Solo

Decisions ==
    [has \in BOOLEAN \X BOOLEAN \X BOOLEAN |-> {Decide(q, has[1], has[2], has[3]) : q \in Queries}]

Held(a) == IF a = Main THEN MainTools ELSE tools[a]
PlanMode(a) == (IF a = Main THEN mode ELSE kmode[a]) = "plan"

-----------------------------------------------------------------------------

TypeOK ==
    /\ decision \in [AllAgents -> [mode : {"solo", "delegate", "parallel_explore", "coordinate"},
                                max : 0..3]]
    /\ calls \in [AllAgents -> 0..3] /\ mode \in Modes
    /\ kind \in [Kids -> {"none", "sub", "fork", "team", "tree"}]
    /\ caller \in [Kids -> AllAgents]
    /\ state \in [Kids -> {"none", "new", "run", "idle", "done", "cut", "gone"}]
    /\ leftover \in [Kids -> {"no", "runs", "ended"}]
    /\ back \in [Kids -> BOOLEAN] /\ kmode \in [Kids -> Modes]
    /\ tools \in [Kids -> SUBSET (MainTools \cup Coordination \cup {"OwnLedger"})]
    /\ node \in [Kids -> {"none", "running", "ended", "detached"}]
    /\ stray \subseteq {"running", "detached"} /\ fresh \subseteq Kids /\ lowered \subseteq Kids

Init ==
    /\ decision = [a \in AllAgents |-> Solo] /\ calls = [a \in AllAgents |-> 0]
    /\ mode \in UserModes
    /\ kind = [k \in Kids |-> "none"] /\ caller = [k \in Kids |-> Main]
    /\ state = [k \in Kids |-> "none"] /\ back = [k \in Kids |-> FALSE]
    /\ tools = [k \in Kids |-> {}] /\ kmode = [k \in Kids |-> "default"]
    /\ node = [k \in Kids |-> "none"] /\ stray = {} /\ leftover = [k \in Kids |-> "no"]
    /\ fresh = {} /\ lowered = {}

Live(k) == state[k] \in {"new", "run", "idle"}
Works(a) == a \in {Main} \cup {k \in Kids : state[k] = "run"}

(* A run begins or a queued message is injected.  A notice in the terminal *)
(* interface counts as a message of the user.                              *)
Decided(a) ==
    /\ \E d \in Decisions[<<"Agent" \in Held(a), "TeamCreate" \in Held(a), PlanMode(a)>>] :
          decision' = [decision EXCEPT ![a] = d]
    /\ calls' = [calls EXCEPT ![a] = 0] /\ fresh' = {k \in fresh : caller[k] # a}

NewTask ==
    /\ Decided(Main)
    /\ UNCHANGED <<mode, kind, caller, state, back, tools, kmode, node, stray, leftover, lowered>>

(* The user switches modes, /plan and ExitPlanMode included.               *)
SetMode(m) ==
    /\ m # mode /\ mode' = m
    /\ lowered' = IF Rank[m] < Rank[mode] THEN lowered \cup {k \in Kids : Live(k)} ELSE lowered
    /\ UNCHANGED <<decision, calls, kind, caller, state, back, tools, kmode, node, stray, leftover,
                   fresh>>

-----------------------------------------------------------------------------
(* A call of Agent.  authorize charges it before anything else can fail.   *)

(* Faulty variant: one call more than the decision allows.                 *)
MayDelegateOnce(a, team) == calls[a] <= decision[a].max

MayDelegate(a, team) ==
    /\ decision[a].max > 0 /\ calls[a] < decision[a].max
    /\ team => decision[a].mode = "coordinate"

Charged(a, team) ==
    /\ Works(a) /\ "Agent" \in Held(a) /\ MayDelegate(a, team)
    /\ calls' = [calls EXCEPT ![a] = @ + 1] /\ UNCHANGED decision

(* Policy, permission, an unknown type, no such team, no worktree, or a    *)
(* fork that wants to fork.                                                *)
Wasted(a) ==
    /\ Cardinality({b \in AllAgents : calls[b] > Cardinality({k \in fresh : caller[k] = b})}) < MaxWasted
    /\ \E team \in BOOLEAN : Charged(a, team)
    /\ UNCHANGED <<mode, kind, caller, state, back, tools, kmode, node, stray, leftover, fresh,
                   lowered>>

Started(a, k, what, background, set, m) ==
    /\ \A j \in 1..k - 1 : kind[j] # "none"
    /\ kind' = [kind EXCEPT ![k] = what] /\ caller' = [caller EXCEPT ![k] = a]
    /\ back' = [back EXCEPT ![k] = background]
    /\ state' = [state EXCEPT ![k] = IF background THEN "new" ELSE "run"]
    /\ tools' = [tools EXCEPT ![k] = WithOwnLedger(set)]
    /\ kmode' = [kmode EXCEPT ![k] = Restrict(m)] /\ node' = [node EXCEPT ![k] = "running"]
    /\ fresh' = fresh \cup {k} /\ lowered' = lowered \ {k}
    /\ UNCHANGED <<mode, stray, leftover>>

(* What a type and the wish for the background come to.                    *)
Ways ==
    {LET def == Types[t]
         background == ~def.tree /\ (asked \/ def.background)
     IN  [what |-> IF def.tree THEN "tree" ELSE "sub", background |-> background,
          tools |-> ResolveAgentTools(def, background), mode |-> def.mode]
        : t \in DOMAIN Types, asked \in BOOLEAN}

Spawn(a, k) ==
    /\ kind[k] = "none" /\ Charged(a, FALSE)
    /\ \E w \in Ways : Started(a, k, w.what, w.background, w.tools, w.mode)

Fork(a, k) ==
    /\ kind[k] = "none" /\ a = Main /\ Charged(a, FALSE)
    /\ Started(a, k, "fork", TRUE, ForkTools, "bypass")

TeammateSets == {TeammateTools(Types[t]) : t \in DOMAIN Types}

Teammate(a, k) ==
    /\ kind[k] = "none" /\ Charged(a, TRUE)
    /\ \E set \in TeammateSets : Started(a, k, "team", TRUE, set, "bypass")

(* A task is resumed with a new agent and a new node; the budget is not    *)
(* asked.  A task that runs refuses, and the new node has no agent.  An    *)
(* idle teammate counts as completed: the new agent takes its place, its   *)
(* own node stays as it is, and its loop goes on.  For a type that lives   *)
(* in a worktree resume starts a new agent instead.                        *)
Resumable == {w \in Ways : w.background}

Refused(k) ==
    /\ state[k] \in {"new", "run"} /\ stray' = stray \cup {"running"}
    /\ UNCHANGED <<state, tools, kmode, node, leftover, lowered, kind>>

Replaced(a, k) ==
    /\ state[k] \notin {"new", "run"}
    /\ state' = [state EXCEPT ![k] = "new"] /\ node' = [node EXCEPT ![k] = "running"]
    /\ \/ /\ kind' = [kind EXCEPT ![k] = "sub"]
          /\ \E w \in Resumable :
                /\ tools' = [tools EXCEPT ![k] = WithOwnLedger(w.tools)]
                /\ kmode' = [kmode EXCEPT ![k] = Restrict(w.mode)]
       \/ /\ kind[k] = "fork" /\ a = Main /\ UNCHANGED kind
          /\ tools' = [tools EXCEPT ![k] = WithOwnLedger(ForkTools)]
          /\ kmode' = [kmode EXCEPT ![k] = Restrict("bypass")]
    /\ lowered' = lowered \ {k}
    /\ stray' = IF state[k] = "idle" THEN stray \cup {"running"} ELSE stray
    /\ leftover' = [leftover EXCEPT ![k] = IF state[k] = "idle" THEN "runs"
                                          ELSE IF @ = "ended" THEN "no" ELSE @]

Resume(a, k) ==
    /\ Works(a) /\ "Agent" \in Held(a) /\ back[k] /\ kind[k] # "none"
    /\ Refused(k) \/ Replaced(a, k)
    /\ UNCHANGED <<decision, calls, mode, caller, back, fresh>>

-----------------------------------------------------------------------------
(* The life of a child.                                                    *)

Begins(k) ==
    /\ state[k] = "new" /\ state' = [state EXCEPT ![k] = "run"] /\ Decided(k)
    /\ UNCHANGED <<mode, kind, caller, back, tools, kmode, node, stray, leftover, lowered>>

(* Faulty variant: the node of a failed child is forgotten.                *)
NodeStays(k) == node' = node

NodeEnds(k) == node' = [node EXCEPT ![k] = "ended"]

(* A teammate that answered waits for messages and answers those.          *)
Idles(k) ==
    /\ kind[k] = "team" /\ state[k] = "run" /\ state' = [state EXCEPT ![k] = "idle"]
    /\ UNCHANGED <<decision, calls, mode, kind, caller, back, tools, kmode, node, stray, leftover,
                   fresh, lowered>>

(* It answers, fails or, under the TaskManager, is cancelled; a teammate   *)
(* may also have waited long enough.                                       *)
Ends(k) ==
    /\ state[k] \in {"run", "idle"} /\ state' = [state EXCEPT ![k] = "done"] /\ NodeEnds(k)
    /\ UNCHANGED <<decision, calls, mode, kind, caller, back, tools, kmode, stray, leftover, fresh,
                   lowered>>

(* The loop of the teammate that was here ends, and completes the node the *)
(* task has now.                                                           *)
LeftoverEnds(k) ==
    /\ leftover[k] = "runs" /\ leftover' = [leftover EXCEPT ![k] = "ended"]
    /\ node' = [node EXCEPT ![k] = "ended"]
    /\ UNCHANGED <<decision, calls, mode, kind, caller, state, back, tools, kmode, stray, fresh,
                   lowered>>

(* Cancelled with the run that waits for it, or before its first step.     *)
Cut(k) ==
    /\ IF back[k] THEN state[k] = "new" ELSE state[k] = "run"
    /\ state' = [state EXCEPT ![k] = "cut"]
    /\ UNCHANGED <<decision, calls, mode, kind, caller, back, tools, kmode, node, stray, leftover,
                   fresh, lowered>>

(* delete_team removes the nodes of its members.                           *)
TeamDeleted(k) ==
    /\ kind[k] = "team" /\ ~Live(k) /\ node[k] # "none" /\ node' = [node EXCEPT ![k] = "none"]
    /\ UNCHANGED <<decision, calls, mode, kind, caller, state, back, tools, kmode, stray, leftover,
                   fresh, lowered>>

(* The process ends, or dies; the next one loads tasks and traces.         *)
Restart ==
    /\ state' = [k \in Kids |-> IF Live(k) \/ state[k] = "cut" THEN "gone" ELSE state[k]]
    /\ node' = [k \in Kids |-> IF node[k] = "running" THEN "detached" ELSE node[k]]
    /\ stray' = IF stray = {} THEN {} ELSE {"detached"}
    /\ leftover' = [k \in Kids |-> "no"]
    /\ decision' = [a \in AllAgents |-> Solo] /\ calls' = [a \in AllAgents |-> 0] /\ fresh' = {}
    /\ mode' \in UserModes /\ UNCHANGED <<kind, caller, back, tools, kmode, lowered>>

Next ==
    \/ NewTask \/ Restart
    \/ \E m \in UserModes : SetMode(m)
    \/ \E a \in AllAgents :
        \/ Wasted(a)
        \/ \E k \in Kids : Spawn(a, k) \/ Fork(a, k) \/ Teammate(a, k) \/ Resume(a, k)
    \/ \E k \in Kids :
        Begins(k) \/ Idles(k) \/ Ends(k) \/ LeftoverEnds(k) \/ Cut(k) \/ TeamDeleted(k)

Spec == Init /\ [][Next]_vars

-----------------------------------------------------------------------------
(* Properties.                                                             *)

(* orchestration.py, agent_tool.py: between two decisions an agent starts  *)
(* no more children than it decided, and nobody but Main and its forks     *)
(* starts any: no chain is longer than Main, a fork, and one child.        *)
DelegationBounded ==
    /\ \A a \in AllAgents :
          Cardinality({k \in fresh : caller[k] = a}) <= decision[a].max
    /\ \A k \in Kids : kind[k] \in {"sub", "team", "tree"} => "Agent" \notin tools[k]

(* tool_filter.py, modes.py, trace.py: a child writes to a ledger of its   *)
(* own, never to Main's; its mode is above Main's only if Main's was       *)
(* lowered while it ran; and of its nodes the one it has says "running"    *)
(* while it runs and, otherwise, only if its run was cut off with the run  *)
(* that waited for it.  Two kinds of nodes are excepted: those no agent    *)
(* has any more (stray: of a refused resume, and of a teammate resumed     *)
(* while idle), which say "running" till the process ends, and the node of *)
(* an agent put in the place of such a teammate, which the teammate's loop *)
(* completes when it ends.                                                 *)
ChildContained ==
    \A k \in Kids :
        /\ kind[k] # "none" => "Ledger" \notin tools[k] /\ "OwnLedger" \in tools[k]
        /\ Live(k) => Rank[kmode[k]] <= Rank[mode] \/ k \in lowered
        /\ node[k] = "running" => Live(k) \/ state[k] = "cut"
        /\ Live(k) => node[k] = "running" \/ leftover[k] = "ended"
=============================================================================
