--------------------------- MODULE VerificationGate ---------------------------
(***************************************************************************)
(* The completion gate of src/myclaude/verification.py as functions from a *)
(* gate to a gate.  A gate is the record the class keeps: the revision of  *)
(* the workspace, the verification status of that revision, and how often  *)
(* a completion of that revision has been refused.  The evidence list and  *)
(* the set of modified paths feed the user interface only and are left out.*)
(***************************************************************************)
EXTENDS Naturals

CONSTANTS
    MaxPendingBlocks,   \* max_pending_blocks: refusals while nothing was checked
    MaxFailedBlocks     \* max_failed_blocks: refusals while a check failed

ASSUME BlocksAssumption == MaxPendingBlocks \in Nat /\ MaxFailedBlocks \in Nat

GateStatus == {"not_required", "pending", "failed", "passed", "waived"}

Gate == [revision : Nat, status : GateStatus, blocks : Nat]

NewGate == [revision |-> 0, status |-> "not_required", blocks |-> 0]

(* The statuses a task may finish under only after it has been refused.    *)
Unverified(g) == g.status \in {"pending", "failed"}

(* Faulty variant: the refusals of the previous task still count.          *)
StartTaskForgivingly(g) ==
    IF g.revision > 0 /\ Unverified(g) THEN g ELSE NewGate

(* start_task: modifications nobody verified survive into the next task.   *)
StartTask(g) ==
    IF g.revision > 0 /\ Unverified(g) THEN [g EXCEPT !.blocks = 0] ELSE NewGate

(* Faulty variant: a new write leaves the verdict on the old revision.     *)
ObserveWriteLazily(g, result) ==
    IF result = "error" THEN g ELSE [g EXCEPT !.revision = @ + 1]

(* What a tool call of the given kind tells the gate.  A write is a new    *)
(* revision, judged at once when post-edit diagnostics ran ("clean" or     *)
(* "dirty").  A verification command passes when its result is no error    *)
(* and carries exit code 0 or no exit code at all; "background" is the     *)
(* result of a command that is still running, which carries none.          *)
ObserveWrite(g, result) ==
    IF result = "error" THEN g
    ELSE [revision |-> g.revision + 1, blocks |-> 0,
          status |-> CASE result = "clean" -> "passed"
                       [] result = "dirty" -> "failed"
                       [] OTHER -> "pending"]

ObserveCheck(g, result) ==
    IF result \in {"ok", "background"}
    THEN [g EXCEPT !.status = "passed", !.blocks = 0]
    ELSE [g EXCEPT !.status = "failed"]

Waive(g, result) ==
    IF result = "ok" THEN [g EXCEPT !.status = "waived", !.blocks = 0] ELSE g

Observe(g, kind, result) ==
    CASE kind = "write" -> ObserveWrite(g, result)
      [] kind = "check" -> ObserveCheck(g, result)
      [] OTHER -> g

(* assess_completion: refuse while the budget of refusals lasts.           *)
BlockLimit(g) == IF g.status = "failed" THEN MaxFailedBlocks ELSE MaxPendingBlocks

Blocked(g) == Unverified(g) /\ g.blocks < BlockLimit(g)

Refuse(g) == [g EXCEPT !.blocks = @ + 1]
===============================================================================
