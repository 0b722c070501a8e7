------------------------------- MODULE Hooks -------------------------------
(***************************************************************************)
(* The hooks of the configuration (src/myclaude/hooks/): one engine shared *)
(* by all agents of the process.  An event takes the hooks that match it   *)
(* and runs them one after the other, awaiting each but the asynchronous   *)
(* ones, so that other events come in between.  Hooks before a tool may    *)
(* refuse the call.  "after" stands for every event but the one before a   *)
(* tool.  What hooks leave for the next request, and the asynchronous ones *)
(* once begun, are left out.                                               *)
(***************************************************************************)
EXTENDS Naturals, Sequences

CONSTANTS
    Callers,        \* agents, and the calls one agent makes in parallel
    MaxHooks        \* bound: hooks of the configuration

VARIABLES
    kind,       \* what the configuration says of each hook
    executed,   \* the hooks with Hook.executed
    again,      \* the hooks for once that were begun twice
    doubled,    \* hooks an event took that another had taken and not begun
    at,         \* at[c]: "idle", "before" a tool, in the "tool", or "after"
    todo,       \* todo[c]: the hooks c's event took and has not begun
    firing,     \* firing[c]: the hook c awaits, or None
    owed,       \* owed[c]: the hooks taken for c's call
    heard       \* heard[c]: how those that ended came out

vars == <<kind, executed, again, doubled, at, todo, firing, owed, heard>>

None == 0
Ordinal == 1..MaxHooks
Outcomes == {"fine", "deny", "raised"}

\* load_hooks: what it accepts.
Accepted == {k \in [event : {"before", "after"}, once : BOOLEAN, async : BOOLEAN, reject : BOOLEAN] :
                /\ k.async => k.event # "before"
                /\ k.reject => k.event = "before"}

TypeOK ==
    /\ kind \in [Ordinal -> Accepted] /\ executed \subseteq Ordinal
    /\ again \subseteq Ordinal /\ doubled \subseteq Ordinal
    /\ at \in [Callers -> {"idle", "before", "tool", "after"}]
    /\ \A c \in Callers : todo[c] \in Seq(Ordinal)
    /\ firing \in [Callers -> Ordinal \cup {None}]
    /\ owed \in [Callers -> SUBSET Ordinal]
    /\ heard \in [Callers -> SUBSET (Ordinal \X Outcomes)]

Init ==
    /\ kind \in [Ordinal -> Accepted] /\ executed = {} /\ again = {} /\ doubled = {}
    /\ at = [c \in Callers |-> "idle"] /\ todo = [c \in Callers |-> <<>>]
    /\ firing = [c \in Callers |-> None]
    /\ owed = [c \in Callers |-> {}] /\ heard = [c \in Callers |-> {}]

\* should_run, forgetting that a hook was run.
RunsAgain(h) == TRUE

\* should_run
ShouldRun(h) == ~(kind[h].once /\ h \in executed)

\* find_matching_hooks, all at once, as a set; a condition may hold or not.
Matching(event) == SUBSET {h \in Ordinal : kind[h].event = event /\ ShouldRun(h)}

\* The hooks taken, in the order of the configuration.
Ordered(taken, order) ==
    /\ \A i, j \in DOMAIN order : i < j => order[i] < order[j]
    /\ taken = {order[i] : i \in DOMAIN order}

InOrder(taken) ==
    CHOOSE order \in UNION {[1..n -> taken] : n \in 0..MaxHooks} : Ordered(taken, order)

\* The hooks some event has taken and not begun.
Waiting == UNION {{todo[c][i] : i \in DOMAIN todo[c]} : c \in Callers}

\* run_pre_tool_hooks takes the hooks for a call.
AskToCall(c) ==
    /\ at[c] = "idle"
    /\ \E taken \in Matching("before") :
        /\ todo' = [todo EXCEPT ![c] = InOrder(taken)] /\ owed' = [owed EXCEPT ![c] = taken]
        /\ doubled' = doubled \cup (taken \cap Waiting)
    /\ at' = [at EXCEPT ![c] = "before"]
    /\ UNCHANGED <<kind, executed, again, firing, heard>>

\* run_hooks: around turns and requests, at the ends of a session, after a tool.
Happens(c) ==
    /\ at[c] \in {"idle", "tool"}
    /\ \E taken \in Matching("after") :
        /\ todo' = [todo EXCEPT ![c] = InOrder(taken)]
        /\ doubled' = doubled \cup (taken \cap Waiting)
    /\ at' = [at EXCEPT ![c] = "after"]
    /\ owed' = [owed EXCEPT ![c] = {}] /\ heard' = [heard EXCEPT ![c] = {}]
    /\ UNCHANGED <<kind, executed, again, firing>>

\* mark_executed, and the action begins.
Begin(c) ==
    LET h == Head(todo[c]) IN
    /\ todo[c] # <<>> /\ firing[c] = None
    /\ todo' = [todo EXCEPT ![c] = Tail(@)]
    /\ executed' = executed \cup {h}
    /\ again' = IF kind[h].once /\ h \in executed THEN again \cup {h} ELSE again
    /\ firing' = IF kind[h].async THEN firing ELSE [firing EXCEPT ![c] = h]
    /\ UNCHANGED <<kind, doubled, at, owed, heard>>

\* c has nothing more to do with hooks.
Over(c) ==
    /\ at' = [at EXCEPT ![c] = "idle"]
    /\ firing' = [firing EXCEPT ![c] = None] /\ todo' = [todo EXCEPT ![c] = <<>>]
    /\ owed' = [owed EXCEPT ![c] = {}] /\ heard' = [heard EXCEPT ![c] = {}]

\* A call is refused when the hook says so, and by a hook that always refuses when its action
\* ran through; an action that raises refuses nothing.
Refused(h, outcome) == outcome = "deny" \/ (kind[h].reject /\ outcome # "raised")

\* execute_action and what is made of its result; the hooks after one that refused are not
\* begun.
Ends(c) ==
    /\ firing[c] # None
    /\ \E outcome \in Outcomes :
        IF at[c] = "before" /\ Refused(firing[c], outcome) THEN Over(c)
        ELSE /\ firing' = [firing EXCEPT ![c] = None]
             /\ heard' = IF at[c] = "before" THEN [heard EXCEPT ![c] = @ \cup {<<firing[c], outcome>>}]
                         ELSE heard
             /\ UNCHANGED <<at, todo, owed>>
    /\ UNCHANGED <<kind, executed, again, doubled>>

\* Nobody refused; what the permissions say comes after.
Runs(c) ==
    /\ at[c] = "before" /\ todo[c] = <<>> /\ firing[c] = None
    /\ at' = [at EXCEPT ![c] = "tool"]
    /\ UNCHANGED <<kind, executed, again, doubled, todo, firing, owed, heard>>

GoesOn(c) ==
    /\ at[c] = "after" /\ todo[c] = <<>> /\ firing[c] = None
    /\ Over(c)
    /\ UNCHANGED <<kind, executed, again, doubled>>

\* The run's deadline, or its cancellation, ends the wait for the hooks and the call with it.
IsCut(c) ==
    /\ at[c] # "idle" /\ Over(c)
    /\ UNCHANGED <<kind, executed, again, doubled>>

Next ==
    \E c \in Callers : \/ AskToCall(c) \/ Happens(c) \/ Begin(c) \/ Ends(c)
                       \/ Runs(c) \/ GoesOn(c) \/ IsCut(c)

Spec == Init /\ [][Next]_vars

-----------------------------------------------------------------------------
(* A hook for once runs once, unless two events took it before either      *)
(* began it; a tool runs only when every hook taken for its call has ended *)
(* without refusing, and of those that always refuse only when the action  *)
(* raised.                                                                 *)
HooksKept ==
    /\ again \subseteq doubled
    /\ \A c \in Callers : at[c] = "tool" =>
           \A h \in owed[c] : <<h, "raised">> \in heard[c]
                              \/ (<<h, "fine">> \in heard[c] /\ ~kind[h].reject)
=============================================================================
