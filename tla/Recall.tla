------------------------------- MODULE Recall -------------------------------
(***************************************************************************)
(* Memories recalled for a question (src/myclaude/memory/recall.py and the *)
(* agent's memory_recall_task): while the first request of a run is under  *)
(* way a side query picks memory files that fit the question, and the run  *)
(* tells the model of them as soon as the side query is through, waiting   *)
(* for it before it ends with an answer.  The terminal interface starts    *)
(* the side query itself; elsewhere the agent does, unless it still holds  *)
(* one.                                                                    *)
(***************************************************************************)
EXTENDS Naturals

CONSTANTS
    MaxAsked,       \* bound: runs
    Memories        \* the memory files there may be

VARIABLES
    asked,      \* the last run, also the question it was started with
    phase,      \* "idle", "run", or "waiting" for the side query at the end of the run
    task,       \* memory_recall_task
    files,      \* the memory files there are
    early,      \* runs that ended without an answer
    typed,      \* runs the terminal interface started for a typed message
    told        \* what the model was told: in which run, for which question, of which files

vars == <<asked, phase, task, files, early, typed, told>>

NoTask == [about |-> 0, at |-> "none", picked |-> {}]

TypeOK ==
    /\ asked \in 0..MaxAsked /\ phase \in {"idle", "run", "waiting"}
    /\ task \in [about : 0..MaxAsked, at : {"none", "selecting", "done"}, picked : SUBSET Memories]
    /\ files \subseteq Memories
    /\ early \subseteq 1..asked /\ typed \subseteq 1..asked
    /\ told \subseteq [run : 1..asked, about : 1..asked, files : SUBSET Memories]

Init ==
    /\ asked = 0 /\ phase = "idle" /\ task = NoTask
    /\ files = Memories /\ early = {} /\ typed = {} /\ told = {}

\* scan_memory_files: the files there are when the side query begins are its candidates.
Select(question) == [about |-> question, at |-> "selecting", picked |-> files]

\* _send_message: the side query of an earlier run is given up.
Replaces(question) == Select(question)

\* _maybe_start_recall: whatever it still holds is taken for this run's.
Starts(question) == IF task = NoTask THEN Select(question) ELSE task

\* A run of the terminal interface for a typed message, or another run.
StartRun(isTyped) ==
    /\ phase = "idle" /\ asked < MaxAsked
    /\ asked' = asked + 1 /\ phase' = "run"
    /\ task' = IF isTyped THEN Replaces(asked + 1) ELSE Starts(asked + 1)
    /\ typed' = IF isTyped THEN typed \cup {asked + 1} ELSE typed
    /\ UNCHANGED <<files, early, told>>

\* The session_start hook uses up the time of a run before it gets to that.
EndsAtStart ==
    /\ phase = "idle" /\ asked < MaxAsked
    /\ asked' = asked + 1 /\ early' = early \cup {asked + 1}
    /\ UNCHANGED <<phase, task, files, typed, told>>

\* _select_relevant_memories and render_reminder: those picked that can still be read; nothing
\* after eight seconds or without a usable answer.
SideQueryEnds ==
    /\ task.at = "selecting"
    /\ \E picked \in SUBSET (task.picked \cap files) :
        task' = [task EXCEPT !.at = "done", !.picked = picked]
    /\ UNCHANGED <<asked, phase, files, early, typed, told>>

Tell ==
    told' = IF task.picked = {} THEN told
            ELSE told \cup {[run |-> asked, about |-> task.about, files |-> task.picked]}

\* _consume_memory_recall at the top of an iteration and after tools.
Consume ==
    /\ phase = "run" /\ task.at = "done"
    /\ Tell /\ task' = NoTask
    /\ UNCHANGED <<asked, phase, files, early, typed>>

\* The answer does not wait for the side query.
EndsAtOnce == "idle"

\* ... and waiting for it before the run ends with an answer.
EndsWith == IF task = NoTask THEN "idle" ELSE "waiting"

Answer ==
    /\ phase = "run" /\ phase' = EndsWith
    /\ UNCHANGED <<asked, task, files, early, typed, told>>

\* The wait is over; a message typed in the meantime keeps the run going.
WaitEnds ==
    /\ phase = "waiting" /\ task.at = "done" /\ phase' \in {"idle", "run"}
    /\ Tell /\ task' = NoTask
    /\ UNCHANGED <<asked, files, early, typed>>

\* The deadline ends the wait and the run.  The user's cancellation ends the wait and not the
\* run, which takes it for the side query's.
WaitCut ==
    /\ phase = "waiting" /\ phase' \in {"idle", "run"}
    /\ task' = NoTask
    /\ UNCHANGED <<asked, files, early, typed, told>>

\* A limit, an error, a cancellation or an approved plan: the side query goes on.
EndEarly ==
    /\ phase = "run" /\ phase' = "idle" /\ early' = early \cup {asked}
    /\ UNCHANGED <<asked, task, files, typed, told>>

\* The memory files change: an extraction, a consolidation, /memory clear.
Change ==
    /\ files' \in SUBSET Memories /\ files' # files
    /\ UNCHANGED <<asked, phase, task, early, typed, told>>

Next ==
    \/ \E isTyped \in BOOLEAN : StartRun(isTyped)
    \/ EndsAtStart \/ SideQueryEnds \/ Consume \/ Answer \/ WaitEnds \/ WaitCut \/ EndEarly \/ Change

Spec == Init /\ [][Next]_vars

-----------------------------------------------------------------------------
(* Memories are told once, and in the run whose question they were picked  *)
(* for: only what a run that ended early left behind is told in a later    *)
(* run, never in one started for a typed message, and a run that ends with *)
(* an answer leaves nothing of its own behind.                             *)
RecallFits ==
    /\ \A t \in told : t.about = t.run \/ (t.about \in early /\ t.run \notin typed)
    /\ \A t, u \in told : t.about = u.about => t = u
    /\ phase = "idle" /\ task # NoTask => asked \in early \/ task.about \in early
=============================================================================
