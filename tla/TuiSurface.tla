----------------------------- MODULE TuiSurface -----------------------------
(***************************************************************************)
(* The terminal interface: src/myclaude/app.py.                            *)
(*                                                                         *)
(* Every run of the agent is a coroutine of _send_message.  Keys, the      *)
(* answers to prompts and the two-second poll act between its suspension   *)
(* points and know of it only through the flag _streaming, the handle      *)
(* _agent_task and the two prompt slots.  What the agent does in a run is  *)
(* AgentLoop's subject; here a run injects the queue, asks, and ends.      *)
(***************************************************************************)
EXTENDS Naturals, Sequences

CONSTANTS
    MaxRuns,    \* bound: runs started
    MaxTyped    \* bound: messages typed

VARIABLES
    streaming,  \* _streaming
    agentTask,  \* the run _agent_task holds, 0 for None
    runs,       \* the runs created, in this order
    mcp,        \* _mcp_init_task: "connecting", "done" or "cancelled"
    queue,      \* messages typed during a run, in the agent's queue
    conv,       \* typed messages that are in the conversation
    typed,      \* messages typed so far; they are numbered
    perm,       \* perm[a]: where the permission request of asker a stands
    lock,       \* the asker that holds the task manager's permission lock
    slot,       \* _pending_perm_request: its asker
    askSlot,    \* _pending_askuser_event: the run that asked
    inputOff,   \* the chat input is disabled
    completed,  \* background tasks have ended and wait to be announced
    notes,      \* notes of teammates wait in the lead's mailbox
    hurt        \* history: the races that have happened

prompts == <<perm, lock, slot, askSlot, inputOff>>
texts == <<queue, conv, typed>>
inbox == <<completed, notes>>
vars == <<streaming, agentTask, runs, mcp, texts, prompts, inbox, hurt>>

Runs == 1..MaxRuns
Background == MaxRuns + 1       \* a background task that asks for permission
Askers == Runs \cup {Background}

TypeOK ==
    /\ streaming \in BOOLEAN /\ inputOff \in BOOLEAN
    /\ completed \in BOOLEAN /\ notes \in BOOLEAN
    /\ runs \in Seq([pc : {"created", "mcp", "setup", "entering", "running", "asking",
                           "finally", "done"}, text : 0..MaxTyped])
    /\ agentTask \in 0..Len(runs)
    /\ mcp \in {"connecting", "done", "cancelled"}
    /\ queue \in Seq(1..typed) /\ conv \in Seq(1..typed) /\ typed \in 0..MaxTyped
    /\ perm \in [Askers -> {"none", "waiting", "shown"}]
    /\ lock \in {0} \cup Askers /\ slot \in {0} \cup Askers /\ askSlot \in 0..MaxRuns
    /\ hurt \subseteq {"early", "interrupted", "abandoned", "stranded"}

At(pcs) == {r \in DOMAIN runs : runs[r].pc \in pcs}
Active == At({"setup", "entering", "running", "asking", "finally"})

Init ==
    /\ streaming = FALSE /\ agentTask = 0 /\ runs = <<>> /\ mcp = "connecting"
    /\ queue = <<>> /\ conv = <<>> /\ typed = 0
    /\ perm = [a \in Askers |-> "none"] /\ lock = 0 /\ slot = 0 /\ askSlot = 0
    /\ inputOff = FALSE /\ completed = FALSE /\ notes = FALSE /\ hurt = {}

Hurt(race, happened) == IF happened THEN {race} ELSE {}

-----------------------------------------------------------------------------
(* Starting a run.                                                         *)

(* create_task(_send_message(text)) for each text of new; 0 is the empty   *)
(* text of a notification.  A run whose flag is not up yet keeps no other  *)
(* from being created.                                                     *)
Create(rs, new) == rs \o [i \in DOMAIN new |-> [pc |-> "created", text |-> new[i]]]
Room(rs) == Len(rs) <= MaxRuns
Crowded(rs) == \E r, s \in DOMAIN rs : r # s /\ {rs[r].pc, rs[s].pc} \subseteq {"created", "mcp"}

StartRuns(new) ==
    /\ runs' = Create(runs, new) /\ Room(runs') /\ agentTask' = Len(runs')
    /\ hurt' = hurt \cup Hurt("early", Crowded(runs'))

(* on_chat_input_submitted for a text that is no command.                  *)
Type ==
    /\ ~inputOff /\ typed < MaxTyped /\ typed' = typed + 1
    /\ IF streaming
         THEN queue' = Append(queue, typed') /\ UNCHANGED <<runs, agentTask, hurt>>
         ELSE StartRuns(<<typed'>>) /\ UNCHANGED queue
    /\ UNCHANGED <<streaming, mcp, conv, prompts, inbox>>

(* The poll: ended tasks and team notes each start a run when none is      *)
(* streaming; the second test comes before the first run raises the flag.  *)
Notified(pending) == IF pending THEN <<0>> ELSE <<>>

(* Faulty variant: the poll does not ask whether a run is streaming.       *)
WakeAlways == TRUE

MayWake == ~streaming

Poll ==
    /\ MayWake /\ (completed \/ notes)
    /\ StartRuns(Notified(completed) \o Notified(notes))
    /\ completed' = FALSE /\ notes' = FALSE
    /\ UNCHANGED <<streaming, mcp, texts, prompts>>

Notice ==
    /\ \/ ~completed /\ completed' = TRUE /\ UNCHANGED notes
       \/ ~notes /\ notes' = TRUE /\ UNCHANGED completed
    /\ UNCHANGED <<streaming, agentTask, runs, mcp, texts, prompts, hurt>>

-----------------------------------------------------------------------------
(* The steps of a run.                                                     *)

Goto(r, from, to) == runs[r].pc \in from /\ runs' = [runs EXCEPT ![r].pc = to]

WaitMcp(r) ==
    /\ mcp = "connecting" /\ Goto(r, {"created"}, "mcp")
    /\ UNCHANGED <<streaming, agentTask, mcp, texts, prompts, inbox, hurt>>

McpConnected ==
    /\ mcp = "connecting" /\ mcp' = "done"
    /\ UNCHANGED <<streaming, agentTask, runs, texts, prompts, inbox, hurt>>

RaiseFlag(r) ==
    /\ mcp # "connecting" /\ Goto(r, {"created", "mcp"}, "setup") /\ streaming' = TRUE
    /\ UNCHANGED <<agentTask, mcp, texts, prompts, inbox, hurt>>

AddMessage(r) ==
    /\ Goto(r, {"setup"}, "entering")
    /\ conv' = IF runs[r].text = 0 THEN conv ELSE Append(conv, runs[r].text)
    /\ UNCHANGED <<streaming, agentTask, mcp, queue, typed, prompts, inbox, hurt>>

EnterTry(r) ==
    /\ Goto(r, {"entering"}, "running")
    /\ UNCHANGED <<streaming, agentTask, mcp, texts, prompts, inbox, hurt>>

(* Faulty variant: the queue is read and not emptied.                      *)
InjectAgain(r) ==
    /\ runs[r].pc = "running" /\ perm[r] = "none" /\ queue # <<>>
    /\ Len(conv) < MaxTyped /\ conv' = conv \o queue
    /\ UNCHANGED <<streaming, agentTask, runs, mcp, queue, typed, prompts, inbox, hurt>>

Inject(r) ==
    /\ runs[r].pc = "running" /\ perm[r] = "none" /\ queue # <<>>
    /\ conv' = conv \o queue /\ queue' = <<>>
    /\ UNCHANGED <<streaming, agentTask, runs, mcp, typed, prompts, inbox, hurt>>

(* The agent's generator ends; the finally clause has not run yet.         *)
EndRun(r) ==
    /\ perm[r] = "none" /\ Goto(r, {"running"}, "finally")
    /\ UNCHANGED <<streaming, agentTask, mcp, texts, prompts, inbox, hurt>>

(* _finish_streaming drops flag and handle and denies both prompts,        *)
(* whoever asked: it leaves the prompts of waiting and the runs rs.        *)
Denied(waiting) == [a \in Askers |-> IF a = slot THEN "none" ELSE waiting[a]]
Answered(rs) == [r \in DOMAIN rs |-> IF r = askSlot /\ rs[r].pc = "asking"
                                       THEN [rs[r] EXCEPT !.pc = "running"] ELSE rs[r]]

FinishStreaming(waiting) ==
    /\ streaming' = FALSE
    /\ slot' = 0 /\ askSlot' = 0 /\ inputOff' = FALSE
    /\ perm' = Denied(waiting)
    /\ lock' = IF lock # 0 /\ perm'[lock] = "shown" THEN lock ELSE 0

(* The finally clause: _finish_streaming, _process_task_notifications.     *)
Finally(r) ==
    /\ runs[r].pc = "finally"
    /\ FinishStreaming(perm)
    /\ runs' = Create([Answered(runs) EXCEPT ![r].pc = "done"], Notified(completed))
    /\ Room(runs') /\ agentTask' = IF completed THEN Len(runs') ELSE 0
    /\ completed' = FALSE
    /\ hurt' = hurt \cup Hurt("early", Crowded(runs')) \cup Hurt("stranded", queue # <<>>)
    /\ UNCHANGED <<mcp, texts, notes>>

-----------------------------------------------------------------------------
(* Prompts.  handle_permission_request holds its lock until the answer.    *)

AskPermission(a) ==
    /\ perm[a] = "none" /\ a \in At({"running"}) \cup {Background}
    /\ perm' = [perm EXCEPT ![a] = "waiting"]
    /\ UNCHANGED <<streaming, agentTask, runs, mcp, texts, lock, slot, askSlot, inputOff, inbox,
                   hurt>>

(* Faulty variant: requests are shown as they come.                        *)
NoLock == TRUE

LockFree == lock = 0

ShowPermission(a) ==
    /\ perm[a] = "waiting" /\ LockFree
    /\ perm' = [perm EXCEPT ![a] = "shown"]
    /\ lock' = a /\ slot' = a /\ inputOff' = TRUE
    /\ UNCHANGED <<streaming, agentTask, runs, mcp, texts, askSlot, inbox, hurt>>

(* on_inline_permission_widget_responded.                                  *)
AnswerPermission ==
    /\ slot # 0 /\ slot' = 0 /\ inputOff' = FALSE
    /\ perm' = [perm EXCEPT ![slot] = "none"] /\ lock' = IF lock = slot THEN 0 ELSE lock
    /\ UNCHANGED <<streaming, agentTask, runs, mcp, texts, askSlot, inbox, hurt>>

AskUser(r) ==
    /\ perm[r] = "none" /\ Goto(r, {"running"}, "asking")
    /\ askSlot' = r /\ inputOff' = TRUE
    /\ UNCHANGED <<streaming, agentTask, mcp, texts, perm, lock, slot, inbox, hurt>>

(* on_inline_ask_user_widget_responded; a late answer only closes the      *)
(* dialog.                                                                 *)
AnswerAsk ==
    /\ askSlot # 0 /\ inputOff /\ inputOff' = FALSE /\ runs' = Answered(runs)
    /\ askSlot' = IF runs[askSlot].pc = "asking" THEN 0 ELSE askSlot
    /\ UNCHANGED <<streaming, agentTask, mcp, texts, perm, lock, slot, inbox, hurt>>

(* The tool stops waiting after five minutes; the dialog stays.            *)
AskTimeout(r) ==
    /\ Goto(r, {"asking"}, "running")
    /\ UNCHANGED <<streaming, agentTask, mcp, texts, prompts, inbox, hurt>>

-----------------------------------------------------------------------------
(* Stopping a run.                                                         *)

(* agentTask.cancel(): a run that has not begun never does; one that waits *)
(* for MCP takes the MCP task and whoever else waits for it along; before  *)
(* the try statement nothing lowers the flag.                              *)
Cancelled ==
    [r \in DOMAIN runs |->
        IF r = agentTask \/ (runs[agentTask].pc = "mcp" /\ runs[r].pc = "mcp")
          THEN [runs[r] EXCEPT !.pc = IF @ \in {"running", "asking", "finally"}
                                        THEN "finally" ELSE "done"]
          ELSE runs[r]]

Withdrawn == [a \in Askers |-> IF a = agentTask THEN "none" ELSE perm[a]]
Released == IF lock = agentTask THEN 0 ELSE lock
McpAfterCancel == IF runs[agentTask].pc = "mcp" /\ mcp = "connecting" THEN "cancelled" ELSE mcp
Abandons == \E r \in At({"created", "mcp", "setup", "entering"}) : Cancelled[r].pc = "done"
Stoppable == agentTask # 0 /\ runs[agentTask].pc # "done"

(* Escape: action_cancel.                                                  *)
Escape ==
    /\ Stoppable /\ runs' = Cancelled /\ mcp' = McpAfterCancel
    /\ perm' = Withdrawn /\ lock' = Released
    /\ hurt' = hurt \cup Hurt("abandoned", Abandons)
    /\ UNCHANGED <<streaming, agentTask, texts, slot, askSlot, inputOff, inbox>>

(* Control-C during a run: the flag is dropped before the run has ended.   *)
Interrupt ==
    /\ streaming
    /\ IF Stoppable
         THEN /\ runs' = [Answered(runs) EXCEPT ![agentTask] = Cancelled[agentTask]]
              /\ FinishStreaming(Withdrawn)
              /\ hurt' = hurt \cup {"interrupted"} \cup Hurt("abandoned", Abandons)
         ELSE /\ runs' = Answered(runs) /\ FinishStreaming(perm) /\ UNCHANGED hurt
    /\ agentTask' = 0
    /\ UNCHANGED <<mcp, texts, inbox>>

Next ==
    \/ Type \/ Poll \/ Notice \/ McpConnected \/ AnswerPermission \/ AnswerAsk \/ Escape
    \/ Interrupt
    \/ \E r \in DOMAIN runs : \/ WaitMcp(r) \/ RaiseFlag(r) \/ AddMessage(r) \/ EnterTry(r)
                              \/ Inject(r) \/ EndRun(r) \/ Finally(r) \/ AskUser(r)
                              \/ AskTimeout(r)
    \/ \E a \in Askers : AskPermission(a) \/ ShowPermission(a)

Spec == Init /\ [][Next]_vars

-----------------------------------------------------------------------------
(* Properties.                                                             *)

(* The flag says whether a run is active, and the handle and the question  *)
(* slot belong to that run, so that keys and answers reach it; unless a    *)
(* run was created before the last one had raised the flag, or one was     *)
(* stopped before its try statement, or interrupted with control-C.        *)
SurfaceTracksRun ==
    hurt \subseteq {"stranded"} =>
        /\ streaming = (Active # {})
        /\ \A r \in Active : agentTask = r
        /\ \A r \in At({"asking"}) : askSlot = r

(* A permission prompt that is on display is the one an answer goes to,    *)
(* whatever else happens to the runs: with the lock of the task manager    *)
(* no request of the run and of background tasks overwrites another.       *)
PromptAnswerable ==
    \A a \in Askers : perm[a] = "shown" => lock = a /\ slot = a

Starting == {r \in At({"created", "mcp", "setup"}) : runs[r].text # 0}

(* Every message typed reaches the conversation once and in the order      *)
(* typed, or still waits in the one run that is starting or in the queue;  *)
(* unless one of those races happened or a run ended with messages in the  *)
(* queue, which then come after the message that starts the next run.      *)
TypedInOrder ==
    hurt = {} =>
        \/ Starting = {} /\ conv \o queue = [i \in 1..typed |-> i]
        \/ \E r \in Starting :
            /\ Starting = {r}
            /\ conv \o <<runs[r].text>> \o queue = [i \in 1..typed |-> i]
=============================================================================
