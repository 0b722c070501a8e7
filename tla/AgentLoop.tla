------------------------------ MODULE AgentLoop ------------------------------
(***************************************************************************)
(* Agent.run of src/myclaude/agent.py: one agent, its conversation, and    *)
(* the consecutive runs a delivery surface starts on it.                   *)
(*                                                                         *)
(* An action is the code between two points where the coroutine can be     *)
(* suspended (an await, or a yield to the surface), so that queued user    *)
(* messages, the deadline and a cancellation interleave exactly where the  *)
(* event loop lets them in.  The provider is a set of possible responses;  *)
(* a message is what the pairing and delivery properties need of it: its   *)
(* kind, the user messages it carries and the tool-call ids it carries.    *)
(* Reminders that only inform the model (recall, ledger, hooks, mailbox)   *)
(* and the environment message are left out of the conversation.           *)
(***************************************************************************)
EXTENDS VerificationGate, Sequences, FiniteSets

CONSTANTS
    MaxTurns,           \* run_limits.max_turns; 0 is no limit
    MaxRequestRetries,  \* MAX_REQUEST_RETRIES
    MaxRecoveries,      \* MAX_OUTPUT_TOKENS_RECOVERIES
    UnknownLimit,       \* consecutive unknown tools that end a run (3 in the code)
    HasDeadline,        \* whether the run limits set a wall-clock deadline
    HasBudget,          \* whether they set a token or cost budget
    CanCompact,         \* whether the context window is small enough to compact
    CanCancel,          \* whether the surface can cancel a run (headless cannot)
    CanAsk,             \* whether permission rules may ask the user
    Responses,          \* the responses the provider may give
    MaxMessages         \* bound: user messages submitted in a behaviour

Kinds == {"read", "agent", "write", "check", "waive", "unknown", "exit"}
Stops == {"ok", "max_tokens", "bad"}
Response == [stop : Stops, text : BOOLEAN, calls : Seq(Kinds)]

ASSUME LoopAssumption ==
    /\ {MaxTurns, MaxRequestRetries, MaxRecoveries, UnknownLimit, MaxMessages} \subseteq Nat
    /\ {HasDeadline, HasBudget, CanCompact, CanCancel, CanAsk} \subseteq BOOLEAN
    /\ Responses \subseteq Response

VARIABLES
    pc,             \* where run() is suspended
    conv,           \* conversation.history
    queue,          \* _queued_user_messages
    steering,       \* _steering_event
    sent,           \* user messages submitted so far; they are numbered from 1
    iteration, escalated, recoveries, unknown,   \* locals of run()
    attempt, recovered, received,                \* locals of its request loop
    resp,           \* collector.response
    calls,          \* tool calls recorded in the conversation so far: their ids
    results,        \* results[i] of the i-th call of resp, "none" before it is known
    next,           \* the call being started, then the call being observed
    batchEnd,       \* the last call of the batch being run
    serial,         \* its calls run one by one
    running,        \* the calls of resp that are executing
    again,          \* queued_count, or the turn had tools: another turn follows
    gate,           \* verification_gate
    expired,        \* the deadline of the run has passed
    spent,          \* the shared usage ledger has reached a budget
    outcome,        \* how the last run ended
    \* history variables
    orphans,        \* executions that outlived the run that started them
    abandoned,      \* ids of calls whose run ended before their results were recorded
    streams,        \* requests of this turn that have shown output to the user
    warned,         \* the model was refused a completion since the last write of this run
    evidence        \* what was observed since the last write: "none", "running" or "good"

loopVars == <<iteration, escalated, recoveries, unknown>>
requestVars == <<attempt, recovered, received>>
toolVars == <<results, next, batchEnd, serial, running>>
gateVars == <<gate, warned, evidence>>
inputVars == <<queue, steering, sent>>
vars == <<pc, conv, inputVars, loopVars, requestVars, resp, calls, toolVars, again,
          gateVars, expired, spent, outcome, orphans, abandoned, streams>>

-----------------------------------------------------------------------------
(* Messages and the conversation.                                          *)

Message == [kind : {"user", "assistant", "tool", "reminder", "summary"},
            msgs : SUBSET Nat, ids : SUBSET Nat]

User(m) == [kind |-> "user", msgs |-> {m}, ids |-> {}]
Assistant(ids) == [kind |-> "assistant", msgs |-> {}, ids |-> ids]
ToolResults(ids) == [kind |-> "tool", msgs |-> {}, ids |-> ids]
Reminder == [kind |-> "reminder", msgs |-> {}, ids |-> {}]
Summary(ms) == [kind |-> "summary", msgs |-> ms, ids |-> {}]

(* The tool calls of message i are answered by the message right after it. *)
Answered(c, i) ==
    i < Len(c) /\ c[i + 1].kind = "tool" /\ c[i + 1].ids = c[i].ids

(* The ids the calls of the current response have in the conversation.     *)
CallId(i) == calls - Len(resp.calls) + i
CallIds(I) == {CallId(i) : i \in I}

(* Faulty variant: the cut stays where the token count puts it.            *)
NoAlign(c, k) == k

(* _align_keep_start_to_tool_pair: a kept tail never starts with results   *)
(* whose calls were summarised away.                                       *)
Align(c, k) ==
    IF k > 1 /\ c[k].kind = "tool" /\ c[k - 1].ids # {} THEN k - 1 ELSE k

(* replace_history: the messages before k become one summary, the rest is  *)
(* kept word for word.                                                     *)
CompactAt(c, k) ==
    <<Summary(UNION {c[i].msgs : i \in 1..(k - 1)})>> \o SubSeq(c, k, Len(c))

(* How many messages fit in the kept tail depends on their lengths: any    *)
(* cut that leaves a prefix to summarise is possible.                      *)
Compactions(c) ==
    {CompactAt(c, Align(c, k)) : k \in {j \in 2..Len(c) : Align(c, j) > 1}}

(* _inject_queued_user_messages, in the order the messages were queued.    *)
Injected(c) == c \o [i \in 1..Len(queue) |-> User(queue[i])]

(* Faulty variants: the queue is not emptied; the flag is left up.         *)
InjectTwice ==
    queue' = queue /\ steering' = FALSE /\ sent' = sent
InjectUnderSteering ==
    queue' = <<>> /\ steering' = steering /\ sent' = sent

(* The queue is emptied and the flag lowered in one step.                  *)
InjectQueue ==
    queue' = <<>> /\ steering' = FALSE /\ sent' = sent

-----------------------------------------------------------------------------
(* How a run ends: every local of run() disappears with the generator.     *)
NoResponse == [stop |-> "ok", text |-> FALSE, calls |-> <<>>]

EndRun(how) ==
    /\ pc' = "idle"
    /\ outcome' = how
    /\ iteration' = 0 /\ escalated' = FALSE /\ recoveries' = 0 /\ unknown' = 0
    /\ attempt' = 0 /\ recovered' = FALSE /\ received' = FALSE
    /\ resp' = NoResponse
    /\ results' = <<>> /\ next' = 1 /\ batchEnd' = 0 /\ serial' = FALSE /\ running' = {}
    /\ again' = FALSE
    /\ streams' = 0
    /\ expired' = FALSE

(* _limit_reason *)
LimitReached(turn) ==
    \/ MaxTurns > 0 /\ turn > MaxTurns
    \/ expired
    \/ spent

FlagsTyped ==
    {steering, escalated, recovered, received, serial, again, warned, expired, spent}
        \subseteq BOOLEAN

RunTyped ==
    /\ pc \in {"idle", "top", "presend", "stream", "backoff", "reactive", "received",
               "tools", "asking", "observe", "finish", "turnend"}
    /\ queue \in Seq(Nat) /\ sent \in Nat
    /\ iteration \in Nat /\ unknown \in Nat /\ recoveries \in 0..MaxRecoveries
    /\ attempt \in Nat /\ (attempt = 0 \/ attempt < MaxRequestRetries)
    /\ resp \in Response /\ calls \in Nat /\ streams \in Nat
    /\ evidence \in {"none", "running", "good"}
    /\ outcome \in {"none", "complete", "plan", "error", "cancelled"}

Results == {"none", "ok", "clean", "dirty", "background", "error", "unknown"}

ToolsTyped ==
    /\ results \in Seq(Results)
    /\ next \in Nat /\ batchEnd \in Nat /\ running \subseteq Nat
    /\ orphans \subseteq Nat \X Kinds /\ abandoned \subseteq Nat

TypeOK ==
    FlagsTyped /\ RunTyped /\ ToolsTyped /\ conv \in Seq(Message) /\ gate \in Gate

Init ==
    /\ pc = "idle" /\ outcome = "none"
    /\ conv = <<>> /\ queue = <<>> /\ steering = FALSE /\ sent = 0
    /\ iteration = 0 /\ escalated = FALSE /\ recoveries = 0 /\ unknown = 0
    /\ attempt = 0 /\ recovered = FALSE /\ received = FALSE
    /\ resp = NoResponse /\ calls = 0
    /\ results = <<>> /\ next = 1 /\ batchEnd = 0 /\ serial = FALSE /\ running = {}
    /\ again = FALSE
    /\ gate = NewGate /\ warned = FALSE /\ evidence = "none"
    /\ expired = FALSE /\ spent = FALSE
    /\ orphans = {} /\ abandoned = {} /\ streams = 0

-----------------------------------------------------------------------------
(* The surface: a message typed while no run is active starts one, a       *)
(* message typed during a run is queued; the surface may cancel the run.   *)

Start ==
    /\ pc = "idle" /\ sent < MaxMessages
    /\ sent' = sent + 1
    /\ conv' = Append(conv, User(sent + 1))
    /\ pc' = "top"
    /\ outcome' = "none"
    /\ gate' = StartTask(gate) /\ warned' = FALSE
    /\ evidence' = IF gate'.revision = 0 THEN "none" ELSE evidence
    /\ UNCHANGED <<queue, steering, loopVars, requestVars, resp, calls, toolVars, again,
                   expired, spent, orphans, abandoned, streams>>

QueueUserMessage ==
    /\ pc # "idle" /\ sent < MaxMessages
    /\ sent' = sent + 1
    /\ queue' = Append(queue, sent + 1)
    /\ steering' = TRUE
    /\ UNCHANGED <<pc, conv, loopVars, requestVars, resp, calls, toolVars, again,
                   gateVars, expired, spent, outcome, orphans, abandoned, streams>>

(* Kinds by the attributes of their tools: is_call_concurrency_safe, and   *)
(* interrupt_behavior = "cancel" (Bash and Agent).                         *)
ConcurrencySafe(k) == k \in {"read", "agent"}
Cancellable(k) == k \in {"agent", "check"}

(* An execution survives a cancellation of the agent when the loop awaits  *)
(* it through asyncio.wait (Bash, Agent) or when it has handed its work to *)
(* a thread (file writes).                                                 *)
Survives(k) == Cancellable(k) \/ k = "write"
Survivors(I) == {<<CallId(i), resp.calls[i]>> : i \in {j \in I : Survives(resp.calls[j])}}

(* The surface cancels its task.  A cancellation that arrives while the    *)
(* loop cleans up an execution or a finished recall is swallowed there:    *)
(* the run goes on as if none had been sent, which is no step at all.      *)
Cancel ==
    /\ CanCancel /\ pc # "idle"
    /\ orphans' = orphans \cup Survivors(running)
    /\ abandoned' = IF pc \in {"tools", "asking", "observe"}
                    THEN abandoned \cup CallIds(DOMAIN resp.calls) ELSE abandoned
    /\ EndRun("cancelled")
    /\ UNCHANGED <<conv, inputVars, calls, gateVars, spent>>

(* The clock, and the end of an execution nobody waits for.                *)
Expire ==
    /\ HasDeadline /\ pc # "idle" /\ ~expired
    /\ expired' = TRUE
    /\ UNCHANGED <<pc, conv, inputVars, loopVars, requestVars, resp, calls, toolVars, again,
                   gateVars, spent, outcome, orphans, abandoned, streams>>

OrphanEnds ==
    /\ \E o \in orphans : orphans' = orphans \ {o}
    /\ UNCHANGED <<pc, conv, inputVars, loopVars, requestVars, resp, calls, toolVars, again,
                   gateVars, expired, spent, outcome, abandoned, streams>>

(* Every hook, recall and compaction is awaited under the deadline; when   *)
(* it has passed, the run ends with an error from any of these points.     *)
TimesOut ==
    /\ pc \in {"presend", "stream", "backoff", "reactive", "received", "finish", "turnend"}
    /\ expired
    /\ EndRun("error")
    /\ UNCHANGED <<conv, inputVars, calls, gateVars, spent, orphans, abandoned>>

-----------------------------------------------------------------------------
(* The head of the loop: count the turn, stop at a limit, otherwise take   *)
(* in everything the user queued before the request is built.              *)

TopLimit ==
    /\ pc = "top" /\ LimitReached(iteration + 1)
    /\ EndRun("error")
    /\ UNCHANGED <<conv, inputVars, calls, gateVars, spent, orphans, abandoned>>

TopProceed ==
    /\ pc = "top" /\ ~LimitReached(iteration + 1)
    /\ iteration' = iteration + 1
    /\ conv' = Injected(conv) /\ InjectQueue
    /\ pc' = "presend"
    /\ UNCHANGED <<escalated, recoveries, unknown, requestVars, resp, calls, toolVars, again,
                   gateVars, expired, spent, outcome, orphans, abandoned, streams>>

(* auto_compact may rewrite the conversation, decline, or fail: a failure  *)
(* is reported and the request is sent all the same.                       *)
PreSend ==
    /\ pc = "presend"
    /\ conv' \in {conv} \cup (IF CanCompact THEN Compactions(conv) ELSE {})
    /\ attempt' = 0 /\ recovered' = FALSE /\ received' = FALSE /\ streams' = 0
    /\ pc' = "stream"
    /\ UNCHANGED <<inputVars, loopVars, resp, calls, toolVars, again, gateVars, expired,
                   spent, outcome, orphans, abandoned>>

-----------------------------------------------------------------------------
(* The request loop: one response, or the end of the run.                  *)

StreamEvent ==
    /\ pc = "stream" /\ ~received
    /\ received' = TRUE /\ streams' = streams + 1
    /\ UNCHANGED <<pc, conv, inputVars, loopVars, attempt, recovered, resp, calls, toolVars,
                   again, gateVars, expired, spent, outcome, orphans, abandoned>>

(* Faulty variants: retry although output was shown; one retry too many.   *)
RetryAfterOutput == attempt + 1 < MaxRequestRetries
RetryOnceMore == ~received /\ attempt < MaxRequestRetries

(* A rate limit or a network error is retried with a growing pause, unless *)
(* the user has already seen part of the answer.                           *)
MayRetry == ~received /\ attempt + 1 < MaxRequestRetries

TransientError ==
    /\ pc = "stream" /\ MayRetry
    /\ attempt' = attempt + 1
    /\ pc' = "backoff"
    /\ UNCHANGED <<conv, inputVars, loopVars, recovered, received, resp, calls, toolVars,
                   again, gateVars, expired, spent, outcome, orphans, abandoned, streams>>

Resend ==
    /\ pc = "backoff" /\ ~expired
    /\ pc' = "stream" /\ received' = FALSE
    /\ UNCHANGED <<conv, inputVars, loopVars, attempt, recovered, resp, calls, toolVars,
                   again, gateVars, expired, spent, outcome, orphans, abandoned, streams>>

(* An overflow reported by the provider is answered by one compaction per  *)
(* turn, and only while nothing of the answer has been shown.              *)
MayRecover == ~received /\ ~recovered

Overflow ==
    /\ pc = "stream" /\ MayRecover
    /\ recovered' = TRUE
    /\ pc' = "reactive"
    /\ UNCHANGED <<conv, inputVars, loopVars, attempt, received, resp, calls, toolVars,
                   again, gateVars, expired, spent, outcome, orphans, abandoned, streams>>

Recovered ==
    /\ pc = "reactive"
    /\ conv' \in Compactions(conv)
    /\ pc' = "stream" /\ received' = FALSE
    /\ UNCHANGED <<inputVars, loopVars, attempt, recovered, resp, calls, toolVars, again,
                   gateVars, expired, spent, outcome, orphans, abandoned, streams>>

(* Everything else ends the run: retries used up, a second overflow, a     *)
(* compaction that failed, a provider error of another kind.               *)
RequestFails ==
    /\ pc \in {"stream", "reactive"}
    /\ EndRun("error")
    /\ UNCHANGED <<conv, inputVars, calls, gateVars, spent, orphans, abandoned>>

Receive ==
    /\ pc = "stream"
    /\ resp' \in Responses
    /\ spent' \in (IF HasBudget THEN {spent, TRUE} ELSE {spent})
    /\ pc' = "received"
    /\ UNCHANGED <<conv, inputVars, loopVars, requestVars, calls, toolVars, again, gateVars,
                   expired, outcome, orphans, abandoned, streams>>

-----------------------------------------------------------------------------
(* What becomes of a complete response (pc = "received").                  *)

NewIds == (calls + 1)..(calls + Len(resp.calls))

(* A limit reached while the answer came in: the calls are recorded with   *)
(* a "Skipped" result each, and the run ends.                              *)
SkippedResults(ids) == IF ids = {} THEN <<>> ELSE <<ToolResults(ids)>>

OverLimit ==
    /\ pc = "received" /\ LimitReached(iteration)
    /\ conv' = Append(conv, Assistant(NewIds)) \o SkippedResults(NewIds)
    /\ calls' = calls + Len(resp.calls)
    /\ EndRun("error")
    /\ UNCHANGED <<inputVars, gateVars, spent, orphans, abandoned>>

(* A response cut off by the output limit: raise the limit once, then ask  *)
(* the model to resume, then give up.  Its tool calls are never used.      *)
Truncated == resp.stop = "max_tokens"

Resume(c) == c \o <<Assistant({}), Reminder>>

Escalate ==
    /\ pc = "received" /\ ~LimitReached(iteration) /\ Truncated /\ ~escalated
    /\ escalated' = TRUE
    /\ conv' = IF resp.text THEN Resume(conv) ELSE conv
    /\ pc' = "top" /\ resp' = NoResponse
    /\ UNCHANGED <<inputVars, iteration, recoveries, unknown, requestVars, calls, toolVars,
                   again, gateVars, expired, spent, outcome, orphans, abandoned, streams>>

RecoverOutput ==
    /\ pc = "received" /\ ~LimitReached(iteration) /\ Truncated /\ escalated
    /\ recoveries < MaxRecoveries
    /\ recoveries' = recoveries + 1
    /\ conv' = Resume(conv)
    /\ pc' = "top" /\ resp' = NoResponse
    /\ UNCHANGED <<inputVars, iteration, escalated, unknown, requestVars, calls, toolVars,
                   again, gateVars, expired, spent, outcome, orphans, abandoned, streams>>

Rejected ==
    /\ pc = "received" /\ ~LimitReached(iteration)
    /\ \/ Truncated /\ escalated /\ recoveries >= MaxRecoveries
       \/ resp.stop = "bad"
    /\ EndRun("error")
    /\ UNCHANGED <<conv, inputVars, calls, gateVars, spent, orphans, abandoned>>

Usable == pc = "received" /\ ~LimitReached(iteration) /\ resp.stop = "ok"

(* A final answer the verification gate refuses: the reminder goes to the  *)
(* model and the loop takes another turn.                                  *)
AnswerRefused ==
    /\ Usable /\ resp.calls = <<>> /\ Blocked(gate)
    /\ conv' = conv \o <<Assistant({}), Reminder>>
    /\ gate' = Refuse(gate) /\ warned' = TRUE /\ UNCHANGED evidence
    /\ recoveries' = 0
    /\ pc' = "top" /\ resp' = NoResponse
    /\ UNCHANGED <<inputVars, iteration, escalated, unknown, requestVars, calls, toolVars,
                   again, expired, spent, outcome, orphans, abandoned, streams>>

AnswerAccepted ==
    /\ Usable /\ resp.calls = <<>> /\ ~Blocked(gate)
    /\ conv' = Append(conv, Assistant({}))
    /\ recoveries' = 0
    /\ pc' = "finish" /\ resp' = NoResponse
    /\ UNCHANGED <<inputVars, iteration, escalated, unknown, requestVars, calls, toolVars,
                   again, gateVars, expired, spent, outcome, orphans, abandoned, streams>>

(* Faulty variant: the queue is not looked at when the answer is in.       *)
IgnoreQueued == FALSE

(* The answer is in; messages queued meanwhile ask for another turn.       *)
MoreQueued == queue # <<>>

Finish ==
    /\ pc = "finish"
    /\ again' = MoreQueued
    /\ conv' = Injected(conv) /\ InjectQueue
    /\ pc' = "turnend"
    /\ UNCHANGED <<loopVars, requestVars, resp, calls, toolVars, gateVars, expired, spent,
                   outcome, orphans, abandoned, streams>>

(* turn_end and session_end hooks, then the next turn or LoopComplete.     *)
NextTurn ==
    /\ pc = "turnend" /\ again
    /\ pc' = "top" /\ again' = FALSE
    /\ UNCHANGED <<conv, inputVars, loopVars, requestVars, resp, calls, toolVars, gateVars,
                   expired, spent, outcome, orphans, abandoned, streams>>

Complete ==
    /\ pc = "turnend" /\ ~again
    /\ EndRun("complete")
    /\ UNCHANGED <<conv, inputVars, calls, gateVars, spent, orphans, abandoned>>

-----------------------------------------------------------------------------
(* Tool calls: recorded first, then run in batches, observed in order, and *)
(* answered in one message.                                                *)

CallTools ==
    /\ Usable /\ resp.calls # <<>>
    /\ conv' = Append(conv, Assistant(NewIds))
    /\ calls' = calls + Len(resp.calls)
    /\ recoveries' = 0
    /\ results' = [i \in DOMAIN resp.calls |-> "none"]
    /\ next' = 1 /\ batchEnd' = 0 /\ serial' = FALSE
    /\ pc' = "tools"
    /\ UNCHANGED <<inputVars, iteration, escalated, unknown, requestVars, resp, running,
                   again, gateVars, expired, spent, outcome, orphans, abandoned, streams>>

(* partition_tool_calls: the batch that starts at call i is the longest    *)
(* stretch of concurrency-safe calls, or one other call alone.             *)
SafeCall(i) == ConcurrencySafe(resp.calls[i])

(* Faulty variant: every call of the response goes into one batch.         *)
MixedBatch(i, e) == e = Len(resp.calls)

IsBatch(i, e) ==
    IF SafeCall(i)
    THEN /\ \A k \in i..e : SafeCall(k)
         /\ e < Len(resp.calls) => ~SafeCall(e + 1)
    ELSE e = i

(* A concurrent batch starts all its calls at once; a batch that needs a   *)
(* permission prompt, or an exclusive call, is run one by one.             *)
StartBatch ==
    /\ pc = "tools" /\ next > batchEnd
    /\ \E e \in {x \in next..Len(resp.calls) : IsBatch(next, x)} :
        /\ batchEnd' = e
        /\ \/ ~SafeCall(next) /\ serial' = TRUE /\ running' = {}
           \/ SafeCall(next) /\ serial' = TRUE /\ running' = {}
           \/ SafeCall(next) /\ serial' = FALSE /\ running' = next..e
    /\ UNCHANGED <<pc, conv, inputVars, loopVars, requestVars, resp, calls, results, next,
                   again, gateVars, expired, spent, outcome, orphans, abandoned, streams>>

AtSerial == pc \in {"tools", "asking"} /\ serial /\ running = {} /\ next <= batchEnd

(* The call gets its result without having run.                            *)
NotRun(value) ==
    /\ results' = [results EXCEPT ![next] = value]
    /\ next' = next + 1
    /\ pc' = "tools"
    /\ UNCHANGED <<conv, inputVars, loopVars, requestVars, resp, calls, batchEnd, serial,
                   running, again, gateVars, expired, spent, outcome, orphans, abandoned,
                   streams>>

(* Steering skips calls that have not started; an unknown tool, a tool     *)
(* that is disabled, invalid, rejected by a hook or denied by a rule gets  *)
(* an error without running.                                               *)
SkipCall ==
    /\ pc = "tools" /\ AtSerial
    /\ NotRun(IF ~steering /\ resp.calls[next] = "unknown" THEN "unknown" ELSE "error")

Ask ==
    /\ CanAsk
    /\ pc = "tools" /\ AtSerial /\ ~steering /\ resp.calls[next] # "unknown"
    /\ pc' = "asking"
    /\ UNCHANGED <<conv, inputVars, loopVars, requestVars, resp, calls, toolVars, again,
                   gateVars, expired, spent, outcome, orphans, abandoned, streams>>

(* The generator is suspended at the yield of the request until whoever    *)
(* consumes it has the answer of the user: neither a queued message nor    *)
(* the deadline gets through to it meanwhile, and the deadline around the  *)
(* future is set up when the answer is already there.                      *)
Deny == pc = "asking" /\ AtSerial /\ NotRun("error")

(* The call runs because no prompt was needed, or because it was allowed.  *)
StartCall ==
    /\ AtSerial
    /\ \/ pc = "asking"
       \/ pc = "tools" /\ ~steering /\ resp.calls[next] # "unknown"
    /\ running' = {next}
    /\ pc' = "tools"
    /\ UNCHANGED <<conv, inputVars, loopVars, requestVars, resp, calls, results, next,
                   batchEnd, serial, again, gateVars, expired, spent, outcome, orphans,
                   abandoned, streams>>

(* An execution ends; the loop moves on when the whole batch has ended.    *)
Finished(i, value) ==
    /\ results' = [results EXCEPT ![i] = value]
    /\ running' = running \ {i}
    /\ next' = IF running # {i} THEN next ELSE IF serial THEN next + 1 ELSE batchEnd + 1
    /\ UNCHANGED <<pc, conv, inputVars, loopVars, requestVars, resp, calls, batchEnd, serial,
                   again, warned, evidence, expired, spent, outcome, abandoned, streams>>

Outcomes(kind) ==
    CASE kind = "write" -> {"ok", "clean", "dirty", "error"}
      [] kind = "check" -> {"ok", "background", "error"}
      [] kind = "waive" -> {"ok", "error"}
      [] OTHER -> {"ok"}

(* A waiver reaches the gate while its tool runs, before any call of the   *)
(* response is observed.                                                   *)
FinishCall ==
    /\ pc = "tools"
    /\ \E i \in running : \E value \in Outcomes(resp.calls[i]) :
        /\ Finished(i, value)
        /\ gate' = IF resp.calls[i] = "waive" THEN Waive(gate, value) ELSE gate
    /\ UNCHANGED orphans

(* A queued message interrupts a Bash or Agent call, never another one.    *)
InterruptCall ==
    /\ pc = "tools" /\ steering
    /\ \E i \in running : Cancellable(resp.calls[i]) /\ Finished(i, "error")
    /\ UNCHANGED <<gate, orphans>>

(* Faulty variant: an execution is awaited without the deadline.           *)
ExecutionUnbounded == FALSE

(* The deadline ends any call; the thread of a file write goes on alone.   *)
ExpireCall ==
    /\ pc = "tools" /\ expired
    /\ \E i \in running :
        /\ Finished(i, "error")
        /\ orphans' = orphans \cup (IF resp.calls[i] = "write" THEN Survivors({i}) ELSE {})
    /\ UNCHANGED gate

ToolsDone ==
    /\ pc = "tools" /\ next > Len(resp.calls)
    /\ pc' = "observe" /\ next' = 1
    /\ UNCHANGED <<conv, inputVars, loopVars, requestVars, resp, calls, results, batchEnd,
                   serial, running, again, gateVars, expired, spent, outcome, orphans,
                   abandoned, streams>>

(* The results are shown to the gate one after the other.                  *)
CountUnknown(value) == IF value = "unknown" THEN unknown + 1 ELSE 0

Evidence(kind, value) ==
    CASE kind = "write" /\ value \in {"ok", "dirty"} -> "none"
      [] kind = "write" /\ value = "clean" -> "good"
      [] kind = "check" /\ value = "ok" -> "good"
      [] kind = "check" /\ value = "background" /\ evidence = "none" -> "running"
      [] OTHER -> evidence

ObserveResult ==
    /\ pc = "observe" /\ next <= Len(resp.calls)
    /\ LET kind == resp.calls[next]
           value == results[next]
       IN  /\ unknown' = CountUnknown(value)
           /\ gate' = Observe(gate, kind, value)
           /\ evidence' = Evidence(kind, value)
           /\ warned' = (warned /\ ~(kind = "write" /\ value # "error"))
    /\ next' = next + 1
    /\ UNCHANGED <<pc, conv, inputVars, iteration, escalated, recoveries, requestVars, resp,
                   calls, results, batchEnd, serial, running, again, expired, spent, outcome,
                   orphans, abandoned, streams>>

Observed == pc = "observe" /\ next > Len(resp.calls)

(* Too many unknown tools in a row: the run ends before the results are    *)
(* recorded, so the calls stay unanswered in the conversation.             *)
TooManyUnknown ==
    /\ Observed /\ unknown >= UnknownLimit
    /\ abandoned' = abandoned \cup CallIds(DOMAIN resp.calls)
    /\ EndRun("error")
    /\ UNCHANGED <<conv, inputVars, calls, gateVars, spent, orphans>>

(* The results are recorded and the queue is taken in behind them.  A      *)
(* response that calls ExitPlanMode, whatever the call returns, ends the   *)
(* run here with LoopComplete ("plan"): no further turn, no hook and no    *)
(* question to the gate.  Any other calls lead to another turn.            *)
RecordedIds == CallIds({i \in DOMAIN results : results[i] # "none"})
WithResults == Injected(Append(conv, ToolResults(RecordedIds)))

RecordResults ==
    /\ Observed /\ unknown < UnknownLimit
    /\ conv' = WithResults /\ InjectQueue
    /\ pc' = "turnend" /\ again' = TRUE
    /\ ~ \E i \in DOMAIN resp.calls : resp.calls[i] = "exit"
    /\ resp' = NoResponse
    /\ results' = <<>> /\ next' = 1 /\ batchEnd' = 0 /\ serial' = FALSE /\ running' = {}
    /\ UNCHANGED <<loopVars, requestVars, calls, gateVars, expired, spent, outcome, orphans,
                   abandoned, streams>>

ExitPlanMode ==
    /\ Observed /\ unknown < UnknownLimit
    /\ \E i \in DOMAIN resp.calls : resp.calls[i] = "exit"
    /\ conv' = WithResults /\ InjectQueue
    /\ EndRun("plan")
    /\ UNCHANGED <<calls, gateVars, spent, orphans, abandoned>>

-----------------------------------------------------------------------------
(* Steps of the coroutine itself, which run as soon as the event loop gets *)
(* to them; the others wait for the user, the provider, a tool or the      *)
(* clock.                                                                  *)
Step ==
    \/ TopLimit \/ TopProceed \/ PreSend \/ TimesOut \/ Resend
    \/ OverLimit \/ Escalate \/ RecoverOutput \/ Rejected
    \/ AnswerRefused \/ AnswerAccepted \/ Finish \/ NextTurn \/ Complete
    \/ CallTools \/ StartBatch \/ SkipCall \/ InterruptCall
    \/ ExpireCall \/ ToolsDone \/ ObserveResult \/ TooManyUnknown \/ RecordResults
    \/ ExitPlanMode

Surroundings ==
    \/ Start \/ QueueUserMessage \/ Cancel \/ Expire \/ OrphanEnds
    \/ StreamEvent \/ TransientError \/ Overflow \/ Recovered \/ RequestFails \/ Receive
    \/ Ask \/ Deny \/ StartCall \/ FinishCall

Next == Step \/ Surroundings

Spec == Init /\ [][Next]_vars

(* The deadline is a timer of the event loop: it fires, and the coroutine  *)
(* is resumed.  Nothing is assumed of the provider, the tools or the user. *)
FairSpec == Spec /\ WF_vars(Step) /\ WF_vars(Expire)

-----------------------------------------------------------------------------
(* Properties.                                                             *)

(* Every tool call the provider sees is followed at once by its results,   *)
(* and every result by its calls, whatever was queued, retried, compacted  *)
(* or limited before the request.  The calls of runs that were cancelled   *)
(* or ended by unknown tools (ids) are the exception.                      *)
CallsAnswered(c, ids) ==
    \A i \in DOMAIN c :
        c[i].kind = "assistant" /\ c[i].ids # {} => Answered(c, i) \/ c[i].ids \subseteq ids

ResultsCalledFor(c) ==
    \A i \in DOMAIN c :
        c[i].kind = "tool" =>
            i > 1 /\ c[i - 1].kind = "assistant" /\ c[i - 1].ids = c[i].ids

RequestPaired ==
    pc = "stream" => CallsAnswered(conv, abandoned) /\ ResultsCalledFor(conv)

(* A submitted message is in exactly one place: waiting in the queue, in   *)
(* the conversation, or in the summary that replaced its part of it.       *)
Holders(m) == {i \in DOMAIN conv : m \in conv[i].msgs}
Waiting(m) == {i \in DOMAIN queue : queue[i] = m}

NoMessageLost ==
    \A m \in 1..sent : Cardinality(Holders(m)) + Cardinality(Waiting(m)) = 1

(* The two ends a surface is told of with LoopComplete: an answer that got *)
(* past the gate, and ExitPlanMode.                                        *)
Completed == outcome \in {"complete", "plan"}

(* A run that reports LoopComplete has answered every message it took in:  *)
(* the model spoke after the last one.  The exception are the messages an  *)
(* ExitPlanMode run takes in behind the results of its last calls; they    *)
(* wait in the conversation for the next run.                              *)
SpokenAfter(i) == \E j \in i + 1 .. Len(conv) : conv[j].kind = "assistant"

BehindLastResults(i) ==
    \E k \in 1 .. i - 1 :
        conv[k].kind = "tool" /\ \A j \in k + 1 .. Len(conv) : conv[j].kind = "user"

CompletedAnswered ==
    Completed =>
        \A i \in DOMAIN conv : conv[i].kind = "user" =>
            SpokenAfter(i) \/ (outcome = "plan" /\ BehindLastResults(i))

(* A run that reports LoopComplete over unverified modifications, its own  *)
(* or those an earlier run left, has told the model so at least once since *)
(* the last write.  The exception is a run ended by ExitPlanMode, which    *)
(* asks no gate: what it leaves unverified is owed by the next run.        *)
WarnedBeforeFinish ==
    Completed /\ Unverified(gate) => warned \/ outcome = "plan"

(* A gate that says "passed" has seen a check or clean diagnostics since   *)
(* the last write it knows of.                                             *)
PassedOnEvidence == gate.status = "passed" => evidence # "none"

(* The user is never shown the beginnings of two answers for one turn.     *)
OneAnswerShown == streams <= 1

(* A call that is not concurrency-safe has no other call of its run        *)
(* beside it.                                                              *)
ExclusiveInRun ==
    \A i \in running : ~ConcurrencySafe(resp.calls[i]) => running = {i}

(* The steering flag is up exactly while messages wait: a flag left up     *)
(* would skip every later exclusive call, one left down would let a long   *)
(* Bash call hold up the user.                                             *)
SteeringMatchesQueue == steering = (queue # <<>>)

(* With a deadline and a turn limit every run ends, though the provider    *)
(* and the tools may never answer.  The exception is a user who never      *)
(* answers a permission dialog: the run stays in it.                       *)
RunEndsUnlessAsked == <>[](pc = "asking") \/ (pc # "idle" ~> pc = "idle")

(* What the comment at agent.py:1402 says of exclusive calls, and README   *)
(* of writes: nothing else is executing beside them.                       *)
ExclusiveCalls ==
    \A i \in running : ~ConcurrencySafe(resp.calls[i]) => running = {i} /\ orphans = {}

(* What the gate's docstring requires before a modified task can finish:   *)
(* evidence about the current revision, not the start of a check.          *)
PassedIsVerified ==
    outcome = "complete" /\ gate.revision > 0 /\ gate.status = "passed" => evidence = "good"

-----------------------------------------------------------------------------
(* The inductive invariant behind RequestPaired and OneAnswerShown.        *)

ToolPcs == {"tools", "asking", "observe"}

(* The bookkeeping of a batch: calls before next have a result, the calls  *)
(* of a concurrent batch run or have one, a serial batch runs one call.    *)
ToolsOK ==
    /\ running # {} => pc = "tools"
    /\ pc \in ToolPcs =>
        /\ resp.calls # <<>> /\ Len(resp.calls) <= calls
        /\ Len(results) = Len(resp.calls)
    /\ pc \in {"tools", "asking"} =>
        /\ batchEnd <= Len(results)
        /\ next >= 1 /\ next <= Len(results) + 1 /\ next <= batchEnd + 1
        /\ running \subseteq next..batchEnd
        /\ \A i \in 1..(next - 1) : results[i] # "none"
        /\ serial => running \subseteq {next}
        /\ ~serial => \A i \in next..batchEnd : i \in running \/ results[i] # "none"
        /\ ~serial /\ next <= batchEnd => running # {}
    /\ pc = "observe" => \A i \in 1..Len(results) : results[i] # "none"

(* The calls of a concurrent batch are concurrency-safe.                   *)
BatchOK == ~serial => \A i \in running : SafeCall(i)

(* Pairing of a whole conversation; open allows its last message to be     *)
(* calls that are still being executed.                                    *)
Paired(c, ids, open) ==
    /\ \A i \in 1..Len(c) :
        c[i].kind = "assistant" /\ c[i].ids # {} =>
            Answered(c, i) \/ c[i].ids \subseteq ids \/ (open /\ i = Len(c))
    /\ \A i \in 1..Len(c) :
        c[i].kind = "tool" =>
            /\ c[i].ids # {}
            /\ i > 1 /\ c[i - 1].kind = "assistant" /\ c[i - 1].ids = c[i].ids

ConvOK ==
    /\ Paired(conv, abandoned, pc \in ToolPcs)
    /\ pc \in ToolPcs =>
        Len(conv) > 0 /\ conv[Len(conv)] = Assistant(CallIds(1..Len(resp.calls)))

(* Output of this turn has been shown at most by the request in flight.    *)
ShownOK ==
    /\ streams <= 1
    /\ pc \in {"stream", "backoff", "reactive"} /\ ~received => streams = 0
    /\ pc \in {"backoff", "reactive"} => ~received

IInv == TypeOK /\ ToolsOK /\ ConvOK /\ ShownOK
=============================================================================
