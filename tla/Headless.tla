------------------------------ MODULE Headless ------------------------------
(***************************************************************************)
(* The -p entry point: _run_prompt of src/myclaude/__main__.py.            *)
(*                                                                         *)
(* One run of the agent, then, without a team, a bounded wait for the      *)
(* background tasks, or, with one, up to MaxRounds rounds in which the     *)
(* notifications of tasks and teammates make the agent run again.          *)
(***************************************************************************)
EXTENDS Naturals

CONSTANTS
    Tasks,      \* background tasks and teammates
    MaxRounds   \* 90 in the code

VARIABLES
    phase,      \* "run", "drain", "sleep", "followup" or "exit"
    task,       \* task[t]: "absent", "running", "ended", "heard", "untold" or "cut"
    mail,       \* notes of teammates wait in the lead's mailbox
    team,       \* team_manager._teams is not empty
    json,       \* --output-format stream-json
    error,      \* last_error is set
    crashed,    \* an exception left _run_prompt
    rounds,
    finalized   \* _finalize has run: hooks drained, MCP shut down

vars == <<phase, task, mail, team, json, error, crashed, rounds, finalized>>

TypeOK ==
    /\ phase \in {"run", "drain", "sleep", "followup", "exit"}
    /\ task \in [Tasks -> {"absent", "running", "ended", "heard", "untold", "cut"}]
    /\ {mail, team, json, error, crashed, finalized} \subseteq BOOLEAN
    /\ rounds \in 0..MaxRounds

Init ==
    /\ phase = "run" /\ task = [t \in Tasks |-> "absent"] /\ mail = FALSE /\ team = FALSE
    /\ json \in BOOLEAN /\ error = FALSE /\ crashed = FALSE /\ rounds = 0 /\ finalized = FALSE

InRun == phase \in {"run", "followup"}

-----------------------------------------------------------------------------
(* The agent, its background tasks and its teammates.                      *)

Launches(t) ==
    /\ InRun /\ task[t] = "absent"
    /\ task' = [task EXCEPT ![t] = "running"] /\ team' \in {team, TRUE}
    /\ UNCHANGED <<phase, mail, json, error, crashed, rounds, finalized>>

Ends(t) ==
    /\ phase # "exit" /\ task[t] = "running" /\ task' = [task EXCEPT ![t] = "ended"]
    /\ UNCHANGED <<phase, mail, team, json, error, crashed, rounds, finalized>>

Writes(t) ==
    /\ phase # "exit" /\ team /\ task[t] = "running" /\ mail' = TRUE
    /\ UNCHANGED <<phase, task, team, json, error, crashed, rounds, finalized>>

(* drain_notifications: every ended task is taken and marked with as.      *)
Taken(as) == [t \in Tasks |-> IF task[t] = "ended" THEN as ELSE task[t]]

(* notification_fn, at the start of a turn.                                *)
Turn ==
    /\ InRun /\ task' = Taken("heard") /\ mail' = FALSE
    /\ UNCHANGED <<phase, team, json, error, crashed, rounds, finalized>>

-----------------------------------------------------------------------------
(* _run_prompt.                                                            *)

(* LoopComplete, or the first ErrorEvent, ends the event loop.             *)
MainRunEnds ==
    /\ phase = "run" /\ error' \in BOOLEAN
    /\ phase' = IF team THEN "sleep" ELSE "drain"
    /\ UNCHANGED <<task, mail, team, json, crashed, rounds, finalized>>

Exit == phase' = "exit" /\ finalized' = TRUE

Running == \E t \in Tasks : task[t] = "running"

(* Without a team: task_manager.drain waits for the tasks and cancels what *)
(* runs after thirty seconds; only the JSON stream shows what ended.       *)
Cut(ts) == [t \in Tasks |-> IF ts[t] = "running" THEN "cut" ELSE ts[t]]

DrainTasks ==
    /\ phase = "drain" /\ Exit
    /\ task' = Cut(Taken(IF json THEN "heard" ELSE "untold")) /\ mail' = FALSE
    /\ UNCHANGED <<team, json, error, crashed, rounds>>

(* One round of the team loop, after its two seconds of sleep.             *)
(* Faulty variant: leave while teammates run.                              *)
SettleEarly == ~mail /\ Taken("heard") = task

MoreRounds == rounds < MaxRounds
MaySettle == ~Running /\ ~mail /\ Taken("heard") = task

RoundEnds ==
    /\ phase = "sleep" /\ (MaySettle \/ ~MoreRounds) /\ Exit
    /\ UNCHANGED <<task, mail, team, json, error, crashed, rounds>>

(* Faulty variant: only a round with news counts.                          *)
CountedByNews == rounds

Counted == rounds + 1

RoundIdle ==
    /\ phase = "sleep" /\ MoreRounds /\ Running /\ ~mail /\ Taken("heard") = task
    /\ rounds' = Counted
    /\ UNCHANGED <<phase, task, mail, team, json, error, crashed, finalized>>

RoundNotes ==
    /\ phase = "sleep" /\ MoreRounds /\ (mail \/ Taken("heard") # task)
    /\ task' = Taken("heard") /\ mail' = FALSE
    /\ rounds' = rounds + 1 /\ phase' = "followup"
    /\ UNCHANGED <<team, json, error, crashed, finalized>>

(* run_to_completion: an ErrorEvent is raised and leaves _run_prompt.      *)
FollowUpEnds ==
    /\ phase = "followup"
    /\ \/ phase' = "sleep" /\ UNCHANGED crashed
       \/ phase' = "exit" /\ crashed' = TRUE
    /\ UNCHANGED <<task, mail, team, json, error, rounds, finalized>>

Next ==
    \/ \E t \in Tasks : Launches(t) \/ Ends(t) \/ Writes(t)
    \/ Turn \/ MainRunEnds \/ DrainTasks \/ RoundEnds \/ RoundIdle \/ RoundNotes
    \/ FollowUpEnds

Spec == Init /\ [][Next]_vars

(* A run of the agent ends (AgentLoop!RunEndsUnlessAsked; a headless run   *)
(* asks nobody), and _run_prompt goes on after its waits, which all have a *)
(* limit.                                                                  *)
Round == RoundEnds \/ RoundIdle \/ RoundNotes

-----------------------------------------------------------------------------
(* Properties.                                                             *)

(* When _run_prompt returns, no background task still runs and every task  *)
(* that ended was told to the model or to the caller, and the hooks and    *)
(* MCP servers were shut down.  It fails this promise in three cases only: *)
(* a follow-up run that ends in an error leaves without _finalize, a team  *)
(* that outlasts the rounds is left running, and in text mode without a    *)
(* team what ended after the run is told to nobody.                        *)
NothingLeftBehind ==
    phase = "exit" =>
        /\ finalized \/ crashed
        /\ crashed \/ rounds = MaxRounds \/ (~Running /\ ~mail)
        /\ \A t \in Tasks : task[t] \in {"absent", "heard", "cut"} \/ crashed
                            \/ rounds = MaxRounds \/ (task[t] = "untold" /\ ~json /\ ~team)

(* Whatever its teammates and tasks do, or do not do, the process exits.   *)
Exits == phase = "exit"
=============================================================================
