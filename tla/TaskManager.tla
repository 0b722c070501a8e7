----------------------------- MODULE TaskManager -----------------------------
(***************************************************************************)
(* Background tasks: src/myclaude/agents/task_manager.py.                  *)
(*                                                                         *)
(* launch and resume start a coroutine for a task; the coroutine runs the  *)
(* agent, then, for a teammate, waits in an idle loop for messages and     *)
(* runs the agent again for each of them.  Tasks can be cancelled, drained *)
(* at the end of a headless run, and loaded from the manifest by the next  *)
(* process.  An action is the code between two suspensions of a coroutine. *)
(***************************************************************************)
EXTENDS Naturals, Sequences, FiniteSets

CONSTANTS
    Tasks,          \* task ids
    Teammates,      \* the tasks launched with an agent that belongs to a team
    MaxPolls,       \* polls of the idle loop (60 in the code)
    MaxStarts,      \* bound: coroutines started by one process
    MaxRestarts     \* bound: restarts of the process

ASSUME TasksAssumption ==
    Teammates \subseteq Tasks /\ {MaxPolls, MaxStarts, MaxRestarts} \subseteq Nat

Ended == {"completed", "failed", "cancelled"}
Status == {"absent", "running", "detached"} \cup Ended
Coroutine == [task : Tasks, team : BOOLEAN, polls : 0..MaxPolls, cancelled : BOOLEAN,
              pc : {"created", "agent", "idle", "followup", "done"}]

VARIABLES
    status,     \* status[t] of the task in memory
    manifest,   \* its status in tasks.json
    co,         \* the coroutines started, in this order
    entry,      \* entry[t]: the coroutine _async_tasks holds for t, 0 for none
    notify,     \* notify[t]: how often t is in the notification queue
    member,     \* member[t]: the agent of t in memory belongs to a team
    mail,       \* mail[t]: unread messages wait for teammate t
    mode,       \* "up", "draining" or "closed"
    restarts,
    stillborn   \* history: tasks whose coroutine was cancelled before its first step

vars == <<status, manifest, co, entry, notify, member, mail, mode, restarts, stillborn>>

TypeOK ==
    /\ status \in [Tasks -> Status] /\ manifest \in [Tasks -> Status]
    /\ co \in Seq(Coroutine)
    /\ entry \in [Tasks -> 0..Len(co)]
    /\ notify \in [Tasks -> Nat]
    /\ member \in [Tasks -> BOOLEAN] /\ mail \in [Tasks -> BOOLEAN]
    /\ mode \in {"up", "draining", "closed"}
    /\ restarts \in Nat /\ stillborn \subseteq Tasks

Live(r) == co[r].pc # "done"

Init ==
    /\ status = [t \in Tasks |-> "absent"] /\ manifest = status
    /\ co = <<>> /\ entry = [t \in Tasks |-> 0]
    /\ notify = [t \in Tasks |-> 0]
    /\ member = [t \in Tasks |-> FALSE] /\ mail = [t \in Tasks |-> FALSE]
    /\ mode = "up" /\ restarts = 0 /\ stillborn = {}

-----------------------------------------------------------------------------
(* Starting a task.                                                        *)

(* The statuses of all tasks go to the file at once, by way of another.     *)
PersistManifest == manifest' = status'

(* _start_task, after the status was set and the manifest written.         *)
StartTask(t, team) ==
    /\ mode = "up" /\ Len(co) < MaxStarts
    /\ member' = [member EXCEPT ![t] = team]
    /\ status' = [status EXCEPT ![t] = "running"] /\ PersistManifest
    /\ co' = Append(co, [task |-> t, team |-> team, polls |-> 0, cancelled |-> FALSE,
                         pc |-> "created"])
    /\ entry' = [entry EXCEPT ![t] = Len(co')]
    /\ UNCHANGED <<notify, mail, mode, restarts, stillborn>>

Launch(t) == status[t] = "absent" /\ StartTask(t, t \in Teammates)

(* Faulty variant: a running task is not refused.                          *)
MayResumeAny(t) == status[t] # "absent"

(* resume refuses an unknown task and one that is already running.  Its    *)
(* caller gives the task a new agent, which belongs to no team.            *)
MayResume(t) == status[t] \notin {"absent", "running"}

Resume(t) == MayResume(t) /\ StartTask(t, FALSE)

-----------------------------------------------------------------------------
(* The coroutine.                                                          *)

Moves(r, pc) == co' = [co EXCEPT ![r].pc = pc]
Same == UNCHANGED <<member, mode, restarts>>

FirstStep(r) ==
    /\ co[r].pc = "created" /\ ~co[r].cancelled
    /\ Moves(r, "agent")
    /\ Same /\ UNCHANGED <<status, manifest, entry, notify, mail, stillborn>>

(* asyncio: a coroutine cancelled before its first step never runs, its    *)
(* finally block included.                                                 *)
DiesUnstarted(r) ==
    /\ co[r].pc = "created" /\ co[r].cancelled
    /\ Moves(r, "done")
    /\ stillborn' = stillborn \cup {co[r].task}
    /\ Same /\ UNCHANGED <<status, manifest, entry, notify, mail>>

(* Faulty variant: the final state is not written to the manifest.         *)
FinishUnsaved(r, final) ==
    /\ Moves(r, "done")
    /\ status' = [status EXCEPT ![co[r].task] = final] /\ manifest' = manifest
    /\ entry' = [entry EXCEPT ![co[r].task] = 0]
    /\ notify' = [notify EXCEPT ![co[r].task] = @ + 1]
    /\ Same /\ UNCHANGED <<mail, stillborn>>

(* The finally block: manifest, registration, notification.  The           *)
(* registration removed is the task's, whichever coroutine it holds.       *)
FinishAs(r, final) ==
    /\ Moves(r, "done")
    /\ status' = [status EXCEPT ![co[r].task] = final] /\ PersistManifest
    /\ entry' = [entry EXCEPT ![co[r].task] = 0]
    /\ notify' = [notify EXCEPT ![co[r].task] = @ + 1]
    /\ Same /\ UNCHANGED <<mail, stillborn>>

(* The agent's answer completes the task; a teammate then goes idle, with  *)
(* the manifest still saying "running", unless its team is gone and no     *)
(* mailbox is left to wait at.                                             *)
GoesIdle(r) ==
    /\ member[co[r].task]
    /\ status' = [status EXCEPT ![co[r].task] = "completed"]
    /\ Moves(r, "idle")
    /\ Same /\ UNCHANGED <<manifest, entry, notify, mail, stillborn>>

AgentReturns(r) ==
    /\ co[r].pc = "agent" /\ ~co[r].cancelled
    /\ GoesIdle(r) \/ FinishAs(r, "completed")

MorePolls(r) == co[r].polls < MaxPolls

(* One round of the idle loop: sleep, then take every unread message of    *)
(* the agent the task has now; after a resume that is not the teammate.    *)
Poll(r) ==
    /\ co[r].pc = "idle" /\ ~co[r].cancelled /\ MorePolls(r)
    /\ LET t == co[r].task
           taken == member[t] /\ mail[t]
       IN  /\ co' = [co EXCEPT ![r].polls = @ + 1,
                               ![r].pc = IF taken THEN "followup" ELSE "idle"]
           /\ mail' = [mail EXCEPT ![t] = @ /\ ~taken]
    /\ Same /\ UNCHANGED <<status, manifest, entry, notify, stillborn>>

FollowupReturns(r) ==
    /\ co[r].pc = "followup" /\ ~co[r].cancelled
    /\ Moves(r, "idle")
    /\ Same /\ UNCHANGED <<status, manifest, entry, notify, mail, stillborn>>

IdleLoopEnds(r) ==
    /\ co[r].pc = "idle" /\ ~co[r].cancelled /\ ~MorePolls(r)
    /\ FinishAs(r, status[co[r].task])

(* Faulty variant: the handler of an exception leaves the status alone.    *)
RaisesSilently(r) ==
    /\ co[r].pc \in {"agent", "idle", "followup"} /\ ~co[r].cancelled
    /\ FinishAs(r, status[co[r].task])

(* The agent, or the mailbox, raises.                                      *)
Raises(r) ==
    /\ co[r].pc \in {"agent", "idle", "followup"} /\ ~co[r].cancelled
    /\ FinishAs(r, "failed")

(* Faulty variant: a cancellation is not an exception to the handlers.     *)
CancellationEscapes(r) ==
    /\ co[r].pc \in {"agent", "idle", "followup"} /\ co[r].cancelled
    /\ FinishAs(r, status[co[r].task])

TakesCancellation(r) ==
    /\ co[r].pc \in {"agent", "idle", "followup"} /\ co[r].cancelled
    /\ FinishAs(r, "cancelled")

-----------------------------------------------------------------------------
(* The rest of the process.                                                *)

CancelCoroutines(R) ==
    co' = [r \in DOMAIN co |-> IF r \in R THEN [co[r] EXCEPT !.cancelled = TRUE] ELSE co[r]]

(* Faulty variant: the task is declared cancelled before it is.            *)
CancelEagerly(t) ==
    /\ mode = "up" /\ status[t] = "running"
    /\ entry[t] # 0 /\ Live(entry[t])
    /\ CancelCoroutines({entry[t]})
    /\ status' = [status EXCEPT ![t] = "cancelled"]
    /\ UNCHANGED <<manifest, entry, notify, member, mail, mode, restarts, stillborn>>

(* cancel, from /tasks cancel.                                             *)
Cancel(t) ==
    /\ mode = "up" /\ status[t] = "running"
    /\ entry[t] # 0 /\ Live(entry[t])
    /\ CancelCoroutines({entry[t]})
    /\ UNCHANGED <<status, manifest, entry, notify, member, mail, mode, restarts, stillborn>>

(* poll_completed: everything in the queue is reported.                    *)
PollCompleted ==
    /\ mode = "up" /\ \E t \in Tasks : notify[t] > 0
    /\ notify' = [t \in Tasks |-> 0]
    /\ UNCHANGED <<status, manifest, co, entry, member, mail, mode, restarts, stillborn>>

MailArrives(t) ==
    /\ t \in Teammates /\ mode = "up" /\ ~mail[t]
    /\ mail' = [mail EXCEPT ![t] = TRUE]
    /\ UNCHANGED <<status, manifest, co, entry, notify, member, mode, restarts, stillborn>>

(* drain, at the end of a headless run that had no team: wait for what is  *)
(* registered, cancel what is left when the time is over, report, exit.    *)
Registered == {r \in DOMAIN co : Live(r) /\ r = entry[co[r].task]}

Drain ==
    /\ mode = "up" /\ \A r \in DOMAIN co : ~co[r].team
    /\ mode' = "draining"
    /\ UNCHANGED <<status, manifest, co, entry, notify, member, mail, restarts, stillborn>>

DrainTimesOut ==
    /\ mode = "draining" /\ \E r \in Registered : ~co[r].cancelled
    /\ CancelCoroutines(Registered)
    /\ UNCHANGED <<status, manifest, entry, notify, member, mail, mode, restarts, stillborn>>

(* Faulty variant: what was cancelled is not waited for.                   *)
DrainedUngathered ==
    /\ mode = "draining" /\ \A r \in Registered : co[r].cancelled
    /\ mode' = "closed"
    /\ notify' = [t \in Tasks |-> 0]
    /\ UNCHANGED <<status, manifest, co, entry, member, mail, restarts, stillborn>>

Drained ==
    /\ mode = "draining" /\ Registered = {}
    /\ mode' = "closed"
    /\ notify' = [t \in Tasks |-> 0]
    /\ UNCHANGED <<status, manifest, co, entry, member, mail, restarts, stillborn>>

(* The process ends, at any moment, and the next one loads the manifest:   *)
(* what was running is detached, and no coroutine is left.                 *)
Loaded == [t \in Tasks |-> IF manifest[t] = "running" THEN "detached" ELSE manifest[t]]

Restart ==
    /\ restarts < MaxRestarts /\ restarts' = restarts + 1
    /\ status' = Loaded /\ manifest' = Loaded
    /\ co' = <<>> /\ entry' = [t \in Tasks |-> 0] /\ notify' = [t \in Tasks |-> 0]
    /\ member' = [t \in Tasks |-> FALSE]
    /\ mode' = "up" /\ stillborn' = {}
    /\ UNCHANGED mail

-----------------------------------------------------------------------------
CoroutineStep(r) ==
    \/ FirstStep(r) \/ DiesUnstarted(r) \/ AgentReturns(r) \/ Poll(r)
    \/ FollowupReturns(r) \/ IdleLoopEnds(r) \/ Raises(r) \/ TakesCancellation(r)

Next ==
    \/ \E r \in DOMAIN co : mode # "closed" /\ CoroutineStep(r)
    \/ \E t \in Tasks : Launch(t) \/ Resume(t) \/ Cancel(t) \/ MailArrives(t)
    \/ PollCompleted \/ Drain \/ DrainTimesOut \/ Drained \/ Restart

Spec == Init /\ [][Next]_vars

(* The event loop resumes a coroutine that is ready, and an agent run ends *)
(* (RunEndsUnlessAsked of AgentLoop, and what it asks is answered).        *)
FairSpec ==
    Spec /\ \A r \in 1..MaxStarts : WF_vars(r \in DOMAIN co /\ mode # "closed" /\ CoroutineStep(r))
-----------------------------------------------------------------------------
(* Properties.  A plain task is one that was not launched for a team.      *)
Plain == Tasks \ Teammates

(* The coroutine of a plain task that is at work is the only one of its    *)
(* task, the task says "running", and cancel and drain can reach it.       *)
PlainRegistered ==
    \A r \in DOMAIN co :
        Live(r) /\ co[r].task \in Plain =>
            status[co[r].task] = "running" /\ entry[co[r].task] = r

(* A task that says "running" has a coroutine with its agent run ahead of  *)
(* it, unless it was cancelled before its coroutine's first step: such a   *)
(* task can neither be resumed nor cancelled until the process ends.       *)
RunningIsAlive ==
    \A t \in Tasks :
        status[t] = "running" =>
            \/ t \in stillborn
            \/ \E r \in DOMAIN co : co[r].task = t /\ co[r].pc \in {"created", "agent"}

(* The manifest of a plain task is never behind: whenever the process is   *)
(* killed, the next one knows of every task and how it ended.              *)
ManifestCurrent == \A t \in Plain : manifest[t] = status[t]

(* A headless run that has drained leaves nothing behind: no coroutine is  *)
(* dropped with the event loop and no report is kept back.                 *)
DrainDropsNothing ==
    mode = "closed" => (\A r \in DOMAIN co : ~Live(r)) /\ \A t \in Tasks : notify[t] = 0

(* Every task that runs comes to an end, whatever it is and whenever it is *)
(* resumed, cancelled or written to.                                       *)
Settles ==
    \A t \in Tasks : status[t] = "running" ~> status[t] # "running" \/ t \in stillborn

(* What resume's refusal of a running task (task_manager.py:265) is for:   *)
(* at most one agent run at a time works on the conversation of a task.    *)
OneRunAtATime ==
    \A t \in Tasks :
        Cardinality({r \in DOMAIN co : co[r].task = t /\ co[r].pc \in {"agent", "followup"}}) <= 1

(* Plain tasks keep the promise of TaskLife.                               *)
PhaseOf(s) ==
    CASE s = "absent" -> "absent"
      [] s = "running" -> "working"
      [] s = "detached" -> "lost"
      [] OTHER -> "over"

Life == INSTANCE TaskLife WITH
    Tasks <- Plain,
    phase <- [t \in Plain |-> PhaseOf(status[t])],
    owed <- [t \in Plain |-> notify[t]]

LifePromise == Life!Spec
===============================================================================
