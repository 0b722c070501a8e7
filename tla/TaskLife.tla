------------------------------- MODULE TaskLife -------------------------------
(***************************************************************************)
(* What the task manager promises for a background task: it is begun only  *)
(* while it is not at work, every piece of work ends once, each end is     *)
(* reported once, and only the end of the process loses work or reports.   *)
(***************************************************************************)
EXTENDS Naturals

CONSTANT Tasks

VARIABLES
    phase,      \* phase[t]: "absent", "working", "over" or "lost"
    owed        \* owed[t]: ends of t that have not been reported yet

lifeVars == <<phase, owed>>

Init ==
    /\ phase = [t \in Tasks |-> "absent"]
    /\ owed = [t \in Tasks |-> 0]

Begin(t) ==
    /\ phase[t] # "working"
    /\ phase' = [phase EXCEPT ![t] = "working"]
    /\ UNCHANGED owed

End(t) ==
    /\ phase[t] = "working"
    /\ phase' = [phase EXCEPT ![t] = "over"]
    /\ owed' = [owed EXCEPT ![t] = @ + 1]

Report ==
    /\ owed' = [t \in Tasks |-> 0]
    /\ UNCHANGED phase

ProcessEnds ==
    /\ phase' = [t \in Tasks |-> IF phase[t] = "working" THEN "lost" ELSE phase[t]]
    /\ owed' = [t \in Tasks |-> 0]

Next == (\E t \in Tasks : Begin(t) \/ End(t)) \/ Report \/ ProcessEnds

Spec == Init /\ [][Next]_lifeVars
===============================================================================
