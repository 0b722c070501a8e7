---------------------------- MODULE RemoteSurface ----------------------------
(***************************************************************************)
(* The remote interface: src/myclaude/remote.py.                           *)
(*                                                                         *)
(* One client at a time drives the agent over a WebSocket.  A message      *)
(* starts the task of _handle_user_message unless one is still there; the  *)
(* answers to prompts, cancel and the end of the connection reach that     *)
(* task through _pending_perms, _pending_asks and its handle.  Background  *)
(* tasks ask for permissions through the same table.                       *)
(***************************************************************************)
EXTENDS Naturals, Sequences

CONSTANTS
    MaxMessages,    \* bound: messages sent, plan approvals among them
    MaxClients      \* bound: connections

VARIABLES
    client,     \* the connected client, 0 for none
    clients,    \* connections so far
    pc,         \* where _agent_task stands; "idle" when there is none or it is done
    streaming,  \* _streaming
    text,       \* the message _agent_task was started with
    sent,       \* messages sent so far; they are numbered
    conv,       \* messages in the conversation
    queue,      \* messages queued in the agent
    dropped,    \* messages _start_agent_task did not take
    restarts,   \* approvals, and whether they still wait for the task they found
    pending,    \* unanswered prompts in the two tables: who asks, who was shown it
    wants,      \* the background task waits for the permission lock
    hurt        \* history: "raised" before the try statement, "orphaned" run

vars == <<client, clients, pc, streaming, text, sent, conv, queue, dropped, restarts, pending,
          wants, hurt>>

Prompt == [by : {"run", "background"}, kind : {"permission", "ask"}, shown : 0..MaxClients]

TypeOK ==
    /\ client \in 0..clients /\ clients \in 0..MaxClients
    /\ pc \in {"idle", "created", "running", "prompt", "finally", "slash"}
    /\ streaming \in BOOLEAN /\ wants \in BOOLEAN
    /\ sent \in 0..MaxMessages /\ text \in 0..sent
    /\ conv \in Seq(1..sent) /\ queue \in Seq(1..sent) /\ dropped \subseteq 1..sent
    /\ restarts \subseteq [text : 1..sent, waits : BOOLEAN]
    /\ pending \subseteq Prompt
    /\ hurt \subseteq {"raised", "orphaned"}

Init ==
    /\ client = 0 /\ clients = 0 /\ pc = "idle" /\ streaming = FALSE /\ text = 0 /\ sent = 0
    /\ conv = <<>> /\ queue = <<>> /\ dropped = {} /\ restarts = {}
    /\ pending = {} /\ wants = FALSE /\ hurt = {}

-----------------------------------------------------------------------------
(* _start_agent_task: a message is taken only when no task is alive.       *)

(* Faulty variant: a message replaces the task that runs.                  *)
StartAnyway == TRUE

MayStart == pc = "idle"

StartAgentTask(m) ==
    IF MayStart
      THEN pc' = "created" /\ text' = m /\ UNCHANGED dropped
      ELSE dropped' = dropped \cup {m} /\ UNCHANGED <<pc, text>>

(* The task is done, and with it the wait of every approval that found it. *)
Woken == {[r EXCEPT !.waits = FALSE] : r \in restarts}
TaskEnds == pc' = "idle" /\ restarts' = Woken

UserMessage ==
    /\ client # 0 /\ sent < MaxMessages /\ sent' = sent + 1
    /\ StartAgentTask(sent')
    /\ UNCHANGED <<client, clients, streaming, conv, queue, restarts, pending, wants, hurt>>

(* _handle_plan_response, and feedback: _start_after_current.              *)
PlanResponse ==
    /\ client # 0 /\ sent < MaxMessages /\ sent' = sent + 1
    /\ restarts' = restarts \cup {[text |-> sent', waits |-> pc # "idle"]}
    /\ UNCHANGED <<client, clients, pc, streaming, text, conv, queue, dropped, pending, wants,
                   hurt>>

(* Another message may have started a task in between: then it is dropped. *)
Restart(r) ==
    /\ ~r.waits /\ StartAgentTask(r.text) /\ restarts' = restarts \ {r}
    /\ UNCHANGED <<client, clients, streaming, sent, conv, queue, pending, wants, hurt>>

-----------------------------------------------------------------------------
(* _handle_user_message.                                                   *)

(* A flag that is still up sends the message to the queue of a run.        *)
QueueBranch ==
    /\ pc = "created" /\ streaming
    /\ queue' = Append(queue, text) /\ TaskEnds
    /\ UNCHANGED <<client, clients, streaming, text, sent, conv, dropped, pending, wants, hurt>>

SlashCommand ==
    /\ pc = "created" /\ ~streaming /\ pc' = "slash"
    /\ UNCHANGED <<client, clients, streaming, text, sent, conv, queue, dropped, restarts,
                   pending, wants, hurt>>

(* A command of its own, /clear, or a prompt command: its handler has      *)
(* send_user_message start the next task when this one has ended.          *)
SlashEnds ==
    /\ pc = "slash"
    /\ \/ TaskEnds /\ conv' \in {conv, <<>>}
       \/ pc' = "created" /\ restarts' = Woken /\ UNCHANGED conv
    /\ UNCHANGED <<client, clients, streaming, text, sent, queue, dropped, pending, wants, hurt>>

(* Before the try statement the message is added, logged and the MCP       *)
(* instructions injected; any of it can raise, with the flag up.           *)
Begin ==
    /\ pc = "created" /\ ~streaming
    /\ streaming' = TRUE
    /\ \/ pc' = "running" /\ conv' = Append(conv, text) /\ UNCHANGED <<restarts, hurt>>
       \/ TaskEnds /\ conv' \in {conv, Append(conv, text)} /\ hurt' = hurt \cup {"raised"}
    /\ UNCHANGED <<client, clients, text, sent, queue, dropped, pending, wants>>

EndRun ==
    /\ pc = "running" /\ pc' = "finally"
    /\ UNCHANGED <<client, clients, streaming, text, sent, conv, queue, dropped, restarts,
                   pending, wants, hurt>>

Finally ==
    /\ pc = "finally" /\ TaskEnds /\ streaming' = FALSE
    /\ UNCHANGED <<client, clients, text, sent, conv, queue, dropped, pending, wants, hurt>>

-----------------------------------------------------------------------------
(* Prompts.                                                                *)

LockHeld == \E p \in pending : p.kind = "permission"
Raise(by, kind) == pending' = pending \cup {[by |-> by, kind |-> kind, shown |-> client]}

RunAsks ==
    /\ pc = "running" /\ pc' = "prompt"
    /\ \/ Raise("run", "ask")
       \/ ~LockHeld /\ Raise("run", "permission")
    /\ UNCHANGED <<client, clients, streaming, text, sent, conv, queue, dropped, restarts,
                   wants, hurt>>

BackgroundWants ==
    /\ ~wants /\ wants' = TRUE
    /\ UNCHANGED <<client, clients, pc, streaming, text, sent, conv, queue, dropped, restarts,
                   pending, hurt>>

BackgroundAsks ==
    /\ wants /\ ~LockHeld /\ Raise("background", "permission") /\ wants' = FALSE
    /\ UNCHANGED <<client, clients, pc, streaming, text, sent, conv, queue, dropped, restarts,
                   hurt>>

(* _handle_permission_response, _handle_ask_user_response: the client      *)
(* knows the id of a prompt it was shown.                                  *)
Respond(p) ==
    /\ client # 0 /\ p.shown = client
    /\ pending' = pending \ {p}
    /\ pc' = IF p.by = "run" THEN "running" ELSE pc
    /\ UNCHANGED <<client, clients, streaming, text, sent, conv, queue, dropped, restarts,
                   wants, hurt>>

(* AskUserQuestion stops waiting after five minutes; the entry stays until *)
(* the run ends, which the client cannot tell from an open one.            *)
AskTimeout(p) ==
    /\ p.kind = "ask" /\ pending' = pending \ {p} /\ pc' = "running"
    /\ UNCHANGED <<client, clients, streaming, text, sent, conv, queue, dropped, restarts,
                   wants, hurt>>

-----------------------------------------------------------------------------
(* The connection.                                                         *)

(* A second client is refused while one is connected.                      *)
Connect ==
    /\ client = 0 /\ clients < MaxClients
    /\ clients' = clients + 1 /\ client' = clients'
    /\ UNCHANGED <<pc, streaming, text, sent, conv, queue, dropped, restarts, pending, wants,
                   hurt>>

(* task.cancel(), then every pending prompt is denied.  A task that has    *)
(* not begun never runs.                                                   *)
(* Faulty variant: the task is cancelled, the prompts stay.                *)
StopTaskOnly ==
    /\ IF pc \in {"running", "prompt", "finally"}
         THEN pc' = "finally" /\ UNCHANGED restarts ELSE TaskEnds
    /\ UNCHANGED pending

StopTask ==
    /\ IF pc \in {"running", "prompt", "finally"}
         THEN pc' = "finally" /\ UNCHANGED restarts ELSE TaskEnds
    /\ pending' = {}

CancelMessage ==
    /\ client # 0 /\ StopTask
    /\ UNCHANGED <<client, clients, streaming, text, sent, conv, queue, dropped, wants, hurt>>

Disconnect ==
    /\ client # 0 /\ client' = 0 /\ StopTask
    /\ hurt' = IF restarts # {} THEN hurt \cup {"orphaned"} ELSE hurt
    /\ UNCHANGED <<clients, streaming, text, sent, conv, queue, dropped, wants>>

Next ==
    \/ UserMessage \/ PlanResponse \/ (\E r \in restarts : Restart(r)) \/ QueueBranch \/ SlashCommand \/ SlashEnds
    \/ Begin \/ EndRun \/ Finally \/ RunAsks \/ BackgroundWants \/ BackgroundAsks
    \/ \E p \in pending : Respond(p) \/ AskTimeout(p)
    \/ Connect \/ CancelMessage \/ Disconnect

Spec == Init /\ [][Next]_vars

-----------------------------------------------------------------------------
(* Properties.                                                             *)

(* A run that waits for an answer waits for the client that is connected   *)
(* now.  Prompts shown to nobody come from a background task that asked    *)
(* while no client was there, or from a run that an approved plan started  *)
(* after its client had left: a client that connects then finds every      *)
(* message dropped until it sends cancel.                                  *)
PromptHasReader ==
    \A p \in pending : p.shown # client =>
        p.shown = 0 /\ (p.by = "background" \/ "orphaned" \in hurt)

(* The flag is up exactly while a run has it up, and nothing is ever put   *)
(* into the agent's queue: what a client sends during a run is dropped by  *)
(* _start_agent_task before it gets to the queue branch.  Only an error    *)
(* before the try statement changes that, and for good.                    *)
StreamingIsRun ==
    "raised" \notin hurt =>
        /\ streaming = (pc \in {"running", "prompt", "finally"})
        /\ queue = <<>>
=============================================================================
