--------------------------- MODULE SurfacesProofs ---------------------------
(***************************************************************************)
(* Proofs about the three delivery surfaces, for all bounds and all sets   *)
(* of background tasks.  A behaviour of Surfaces follows one surface and   *)
(* leaves the state of the others alone, so each inductive invariant is    *)
(* preserved by the steps of its own surface and by UNCHANGED otherwise.   *)
(***************************************************************************)
EXTENDS Surfaces, SequenceTheorems, TLAPS

-----------------------------------------------------------------------------
(* Headless: _run_prompt of __main__.py.                                   *)

(* Until the process exits nothing has been given up: the tasks it started *)
(* are running, ended or told to the model.  The wait without a team is    *)
(* reached without a team.                                                 *)
HeadlessInv ==
    /\ rounds \in Nat /\ rounds <= MaxRounds
    /\ task \in [Tasks -> {"absent", "running", "ended", "heard", "untold", "cut"}]
    /\ phase = "drain" => ~team
    /\ phase # "exit" => \A t \in Tasks : task[t] \notin {"untold", "cut"}
    /\ NothingLeftBehind

(* A step of the headless entry point preserves it; one case per action.   *)
LEMMA HeadlessStep ==
    ASSUME HeadlessInv, H!Next
    PROVE  HeadlessInv'
<1> USE SurfacesAssumption DEF HeadlessInv, NothingLeftBehind, H!NothingLeftBehind, H!Running
<1>1. ASSUME NEW t \in Tasks, H!Launches(t) PROVE HeadlessInv'
  BY <1>1 DEF H!Launches, H!InRun
<1>2. ASSUME NEW t \in Tasks, H!Ends(t) PROVE HeadlessInv'
  BY <1>2 DEF H!Ends
<1>3. ASSUME NEW t \in Tasks, H!Writes(t) PROVE HeadlessInv'
  BY <1>3 DEF H!Writes
<1>4. CASE H!Turn
  BY <1>4 DEF H!Turn, H!InRun, H!Taken
<1>5. CASE H!MainRunEnds
  BY <1>5 DEF H!MainRunEnds
<1>6. CASE H!DrainTasks
  BY <1>6 DEF H!DrainTasks, H!Exit, H!Cut, H!Taken
<1>7. CASE H!RoundEnds
  BY <1>7 DEF H!RoundEnds, H!MaySettle, H!MoreRounds, H!Exit, H!Taken
<1>8. CASE H!RoundIdle
  BY <1>8 DEF H!RoundIdle, H!MoreRounds, H!Counted
<1>9. CASE H!RoundNotes
  BY <1>9 DEF H!RoundNotes, H!MoreRounds, H!Taken
<1>10. CASE H!FollowUpEnds
  BY <1>10 DEF H!FollowUpEnds
<1> QED
  BY <1>1, <1>2, <1>3, <1>4, <1>5, <1>6, <1>7, <1>8, <1>9, <1>10 DEF H!Next

(* When _run_prompt returns, no background task runs, no ended task is     *)
(* untold and the hooks and MCP servers are shut down, but in the three    *)
(* cases NothingLeftBehind names.                                          *)
THEOREM HeadlessLeavesNothing == Spec => []NothingLeftBehind
<1>1. Init => HeadlessInv
  BY SurfacesAssumption DEF Init, H!Init, HeadlessInv, NothingLeftBehind, H!NothingLeftBehind
<1>2. HeadlessInv /\ [Next]_<<focus, tui, remote, headless>> => HeadlessInv'
  <2>1. HeadlessInv /\ UNCHANGED headless => HeadlessInv'
    BY DEF headless, HeadlessInv, NothingLeftBehind, H!NothingLeftBehind, H!Running
  <2>2. [Next]_<<focus, tui, remote, headless>> => H!Next \/ UNCHANGED headless
    BY DEF Next
  <2> QED BY <2>1, <2>2, HeadlessStep
<1>3. HeadlessInv => NothingLeftBehind
  BY DEF HeadlessInv
<1> QED BY <1>1, <1>2, <1>3, PTL DEF Spec

-----------------------------------------------------------------------------
(* The remote interface: remote.py.                                        *)

(* The run waits for at most one prompt, and while no client is connected  *)
(* nothing is started, unless an approval outlived its client.             *)
RemoteInv ==
    /\ StreamingIsRun
    /\ \A p \in pending :
        /\ p.by = "run" => pc = "prompt"
        /\ p.by \in {"run", "background"} /\ (p.kind = "ask" => p.by = "run")
        /\ p.shown \in {0, client}
        /\ p.by = "run" /\ p.shown = 0 => "orphaned" \in harm
    /\ \A p, q \in pending : p.by = "run" /\ q.by = "run" => p = q
    /\ client = 0 /\ "orphaned" \notin harm => pc \in {"idle", "finally"} /\ restarts = {}

(* A step of the remote interface preserves it; one case per action.       *)
LEMMA RemoteStep ==
    ASSUME RemoteInv, R!Next
    PROVE  RemoteInv'
<1> USE DEF RemoteInv, StreamingIsRun, R!StreamingIsRun
<1>1. CASE R!UserMessage
  BY <1>1 DEF R!UserMessage, R!StartAgentTask, R!MayStart
<1>2. CASE R!PlanResponse
  BY <1>2 DEF R!PlanResponse
<1>3. ASSUME NEW r \in restarts, R!Restart(r) PROVE RemoteInv'
  BY <1>3 DEF R!Restart, R!StartAgentTask, R!MayStart
<1>4. CASE R!QueueBranch
  BY <1>4 DEF R!QueueBranch, R!TaskEnds, R!Woken
<1>5. CASE R!SlashCommand
  BY <1>5 DEF R!SlashCommand
<1>6. CASE R!SlashEnds
  BY <1>6 DEF R!SlashEnds, R!TaskEnds, R!Woken
<1>7. CASE R!Begin
  BY <1>7 DEF R!Begin, R!TaskEnds, R!Woken
<1>8. CASE R!EndRun
  BY <1>8 DEF R!EndRun
<1>9. CASE R!Finally
  <2>1. /\ (pc' \in {"running", "prompt", "finally"}) = FALSE /\ serving' = FALSE
        /\ steering' = steering /\ harm' = harm
    BY <1>9 DEF R!Finally, R!TaskEnds
  <2>2. R!StreamingIsRun'
    BY <2>1
  <2> QED BY <1>9, <2>2 DEF R!Finally, R!TaskEnds, R!Woken
<1>10. CASE R!RunAsks
  BY <1>10 DEF R!RunAsks, R!Raise
<1>11. CASE R!BackgroundWants
  BY <1>11 DEF R!BackgroundWants
<1>12. CASE R!BackgroundAsks
  BY <1>12 DEF R!BackgroundAsks, R!Raise
<1>13. ASSUME NEW p \in pending, R!Respond(p) PROVE RemoteInv'
  BY <1>13 DEF R!Respond
<1>14. ASSUME NEW p \in pending, R!AskTimeout(p) PROVE RemoteInv'
  BY <1>14 DEF R!AskTimeout
<1>15. CASE R!Connect
  BY <1>15 DEF R!Connect
<1>16. CASE R!CancelMessage
  BY <1>16 DEF R!CancelMessage, R!StopTask, R!TaskEnds, R!Woken
<1>17. CASE R!Disconnect
  BY <1>17 DEF R!Disconnect, R!StopTask, R!TaskEnds, R!Woken
<1> QED
  BY <1>1, <1>2, <1>3, <1>4, <1>5, <1>6, <1>7, <1>8, <1>9, <1>10, <1>11, <1>12, <1>13,
     <1>14, <1>15, <1>16, <1>17 DEF R!Next

(* The invariant of the remote interface holds in every state.             *)
LEMMA RemoteInvariance == Spec => []RemoteInv
<1>1. Init => RemoteInv
  <2> SUFFICES ASSUME Init PROVE RemoteInv
    OBVIOUS
  <2>1. /\ (pc \in {"running", "prompt", "finally"}) = FALSE /\ serving = FALSE
        /\ steering = <<>>
    BY DEF Init, R!Init
  <2>2. StreamingIsRun
    BY <2>1 DEF StreamingIsRun, R!StreamingIsRun
  <2> QED BY <2>2 DEF Init, R!Init, RemoteInv
<1>2. RemoteInv /\ [Next]_<<focus, tui, remote, headless>> => RemoteInv'
  <2>1. RemoteInv /\ UNCHANGED remote => RemoteInv'
    BY DEF remote, RemoteInv, StreamingIsRun, R!StreamingIsRun
  <2>2. [Next]_<<focus, tui, remote, headless>> => R!Next \/ UNCHANGED remote
    BY DEF Next
  <2> QED BY <2>1, <2>2, RemoteStep
<1> QED BY <1>1, <1>2, PTL DEF Spec

(* The flag _streaming of the remote interface is up exactly during a run  *)
(* and nothing is ever queued in the agent, unless an error before the try *)
(* statement left the flag up.                                             *)
THEOREM RemoteFlagIsRun == Spec => []StreamingIsRun
<1>1. RemoteInv => StreamingIsRun
  BY DEF RemoteInv
<1> QED BY <1>1, RemoteInvariance, PTL

(* Whoever waits for an answer of the client waits for the one that is     *)
(* connected, apart from background tasks and orphaned runs that asked     *)
(* while nobody was there.                                                 *)
THEOREM RemotePromptsRead == Spec => []PromptHasReader
<1>1. RemoteInv => PromptHasReader
  BY DEF RemoteInv, PromptHasReader, R!PromptHasReader
<1> QED BY <1>1, RemoteInvariance, PTL

-----------------------------------------------------------------------------
(* The terminal interface: app.py.                                         *)

RunPcs == {"created", "mcp", "setup", "entering", "running", "asking", "finally", "done"}
ActivePcs == {"setup", "entering", "running", "asking", "finally"}
RunRecord == [pc : RunPcs, text : Nat]

(* A run that goes on keeps its text, and the other runs are as they were. *)
LEMMA MovedRun ==
    ASSUME NEW rs \in Seq(RunRecord), NEW r \in DOMAIN rs, NEW to \in RunPcs
    PROVE  LET new == [rs EXCEPT ![r].pc = to]
           IN  /\ new \in Seq(RunRecord) /\ Len(new) = Len(rs)
               /\ \A s \in 1..Len(rs) :
                    new[s].text = rs[s].text /\ new[s].pc = IF s = r THEN to ELSE rs[s].pc
<1>1. r \in 1..Len(rs) /\ \A s \in 1..Len(rs) : rs[s] \in RunRecord
  OBVIOUS
<1> DEFINE new == [rs EXCEPT ![r].pc = to]
<1>2. \A s \in 1..Len(rs) :
        new[s] = IF s = r THEN [rs[r] EXCEPT !.pc = to] ELSE rs[s]
  BY <1>1
<1>3. [rs[r] EXCEPT !.pc = to] \in RunRecord
  BY <1>1 DEF RunRecord
<1>4. new \in Seq(RunRecord) /\ Len(new) = Len(rs)
  <2>1. [rs EXCEPT ![r] = [rs[r] EXCEPT !.pc = to]] \in Seq(RunRecord)
    BY <1>1, <1>3, ExceptSeq
  <2> QED BY <2>1, <1>1
<1>5. [rs[r] EXCEPT !.pc = to].pc = to /\ [rs[r] EXCEPT !.pc = to].text = rs[r].text
  BY <1>1 DEF RunRecord
<1> QED BY <1>2, <1>4, <1>5

(* create_task puts the new runs behind the others, none of them begun.    *)
LEMMA CreatedRuns ==
    ASSUME NEW rs \in Seq(RunRecord), NEW texts \in Seq(Nat)
    PROVE  LET new == T!Create(rs, texts)
           IN  /\ new \in Seq(RunRecord) /\ Len(new) = Len(rs) + Len(texts)
               /\ \A s \in 1..Len(rs) : new[s] = rs[s]
               /\ \A s \in 1..Len(texts) :
                    new[Len(rs) + s] = [pc |-> "created", text |-> texts[s]]
<1> DEFINE q == [i \in DOMAIN texts |-> [pc |-> "created", text |-> texts[i]]]
<1>1. q \in Seq(RunRecord) /\ Len(q) = Len(texts)
  <2>1. \A i \in 1..Len(texts) : [pc |-> "created", text |-> texts[i]] \in RunRecord
    BY DEF RunRecord, RunPcs
  <2>2. q \in [1..Len(texts) -> RunRecord]
    BY <2>1
  <2> QED BY <2>2
<1>2. \A i \in 1..Len(texts) : q[i] = [pc |-> "created", text |-> texts[i]]
  OBVIOUS
<1>3. T!Create(rs, texts) = rs \o q
  BY DEF T!Create
<1> HIDE DEF q
<1>4. /\ rs \o q \in Seq(RunRecord) /\ Len(rs \o q) = Len(rs) + Len(texts)
      /\ \A s \in 1..Len(rs) : (rs \o q)[s] = rs[s]
      /\ \A s \in 1..Len(texts) : (rs \o q)[Len(rs) + s] = q[s]
  <2>1. /\ rs \o q \in Seq(RunRecord) /\ Len(rs \o q) = Len(rs) + Len(q)
        /\ \A i \in 1..Len(rs) + Len(q) :
               (rs \o q)[i] = IF i <= Len(rs) THEN rs[i] ELSE q[i - Len(rs)]
    BY <1>1, ConcatProperties
  <2>2. Len(rs) \in Nat /\ Len(texts) \in Nat
    OBVIOUS
  <2>3. ASSUME NEW s \in 1..Len(rs) PROVE (rs \o q)[s] = rs[s]
    <3>1. s \in 1..Len(rs) + Len(q) /\ s <= Len(rs)
      BY <1>1, <2>2
    <3> QED BY <2>1, <3>1, Zenon
  <2>4. ASSUME NEW s \in 1..Len(texts) PROVE (rs \o q)[Len(rs) + s] = q[s]
    <3> DEFINE i == Len(rs) + s
    <3>1. i \in 1..Len(rs) + Len(q) /\ ~(i <= Len(rs)) /\ i - Len(rs) = s
      BY <1>1, <2>2
    <3> HIDE DEF i
    <3>2. (rs \o q)[i] = q[s]
      BY <2>1, <3>1, Zenon
    <3> QED BY <3>2 DEF i
  <2> QED BY <1>1, <2>1, <2>3, <2>4
<1> QED BY <1>2, <1>3, <1>4

(* What an answer or a denial does to the runs: the one that asked goes on.*)
LEMMA AnsweredRuns ==
    ASSUME NEW rs \in Seq(RunRecord)
    PROVE  /\ T!Answered(rs) \in Seq(RunRecord) /\ Len(T!Answered(rs)) = Len(rs)
           /\ \A s \in 1..Len(rs) :
                /\ T!Answered(rs)[s].text = rs[s].text
                /\ T!Answered(rs)[s].pc = IF s = askSlot /\ rs[s].pc = "asking"
                                            THEN "running" ELSE rs[s].pc
<1> DEFINE q == T!Answered(rs)
<1>1. \A s \in 1..Len(rs) : rs[s] \in RunRecord
  OBVIOUS
<1>2. \A s \in 1..Len(rs) : q[s] = IF s = askSlot /\ rs[s].pc = "asking"
                                     THEN [rs[s] EXCEPT !.pc = "running"] ELSE rs[s]
  BY DEF T!Answered
<1>3. \A s \in 1..Len(rs) : /\ [rs[s] EXCEPT !.pc = "running"] \in RunRecord
                            /\ [rs[s] EXCEPT !.pc = "running"].pc = "running"
                            /\ [rs[s] EXCEPT !.pc = "running"].text = rs[s].text
  BY <1>1 DEF RunRecord, RunPcs
<1>4. q \in [1..Len(rs) -> RunRecord]
  BY <1>1, <1>3 DEF T!Answered
<1>5. q \in Seq(RunRecord) /\ Len(q) = Len(rs)
  BY <1>4
<1> HIDE DEF q
<1> QED BY <1>2, <1>3, <1>5 DEF q

(* What cancelling the run in the handle does to the runs.                 *)
LEMMA CancelledRuns ==
    ASSUME runs \in Seq(RunRecord)
    PROVE  /\ T!Cancelled \in Seq(RunRecord) /\ Len(T!Cancelled) = Len(runs)
           /\ \A s \in 1..Len(runs) :
                /\ T!Cancelled[s].text = runs[s].text
                /\ T!Cancelled[s].pc =
                     IF s = agentTask \/ (runs[agentTask].pc = "mcp" /\ runs[s].pc = "mcp")
                       THEN IF runs[s].pc \in {"running", "asking", "finally"}
                              THEN "finally" ELSE "done"
                       ELSE runs[s].pc
<1> DEFINE q == T!Cancelled
           Stops(s) == s = agentTask \/ (runs[agentTask].pc = "mcp" /\ runs[s].pc = "mcp")
           next(s) == IF runs[s].pc \in {"running", "asking", "finally"}
                        THEN "finally" ELSE "done"
<1>1. \A s \in 1..Len(runs) : runs[s] \in RunRecord
  OBVIOUS
<1>2. \A s \in 1..Len(runs) : q[s] = IF Stops(s) THEN [runs[s] EXCEPT !.pc = next(s)] ELSE runs[s]
  BY DEF T!Cancelled
<1>3. \A s \in 1..Len(runs) : /\ [runs[s] EXCEPT !.pc = next(s)] \in RunRecord
                              /\ [runs[s] EXCEPT !.pc = next(s)].pc = next(s)
                              /\ [runs[s] EXCEPT !.pc = next(s)].text = runs[s].text
  BY <1>1 DEF RunRecord, RunPcs
<1>4. q \in [1..Len(runs) -> RunRecord]
  BY <1>1, <1>3 DEF T!Cancelled
<1>5. q \in Seq(RunRecord) /\ Len(q) = Len(runs)
  BY <1>4
<1> HIDE DEF q
<1> QED BY <1>2, <1>3, <1>5 DEF q

-----------------------------------------------------------------------------
(* Permission prompts.                                                     *)

PromptInv ==
    /\ perm \in [T!Askers -> {"none", "waiting", "shown"}]
    /\ PromptAnswerable

(* Denying the prompt on display leaves none on display.                   *)
LEMMA NothingShown ==
    ASSUME PromptInv, NEW waiting \in [T!Askers -> {"none", "waiting", "shown"}],
           \A a \in T!Askers : waiting[a] = "shown" => perm[a] = "shown",
           T!FinishStreaming(waiting)
    PROVE  PromptInv'
<1>1. /\ perm' \in [T!Askers -> {"none", "waiting", "shown"}]
      /\ \A a \in T!Askers : perm'[a] = IF a = slot THEN "none" ELSE waiting[a]
  BY DEF T!FinishStreaming, T!Denied
<1>2. \A a \in T!Askers : perm'[a] # "shown"
  BY <1>1 DEF PromptInv, PromptAnswerable, T!PromptAnswerable
<1>3. T!Askers' = T!Askers
  BY DEF T!Askers, T!Runs, T!Background
<1> QED BY <1>1, <1>2, <1>3 DEF PromptInv, PromptAnswerable, T!PromptAnswerable

(* No step of the terminal interface shows a prompt an answer would miss;  *)
(* one case per action that touches the prompts.                           *)
LEMMA PromptStep ==
    ASSUME PromptInv, T!Next
    PROVE  PromptInv'
<1> USE DEF PromptInv, PromptAnswerable, T!PromptAnswerable
<1>0. 0 \notin T!Askers
  BY SurfacesAssumption DEF T!Askers, T!Runs, T!Background
<1>1. ASSUME NEW a \in T!Askers, T!AskPermission(a) PROVE PromptInv'
  BY <1>1 DEF T!AskPermission
<1>2. ASSUME NEW a \in T!Askers, T!ShowPermission(a) PROVE PromptInv'
  BY <1>0, <1>2 DEF T!ShowPermission, T!LockFree
<1>3. CASE T!AnswerPermission
  BY <1>3 DEF T!AnswerPermission
<1>4. CASE T!Escape
  BY <1>4 DEF T!Escape, T!Withdrawn, T!Released
<1>5. CASE T!Interrupt
  <2>1. T!Withdrawn \in [T!Askers -> {"none", "waiting", "shown"}]
        /\ \A a \in T!Askers : T!Withdrawn[a] = "shown" => perm[a] = "shown"
    BY DEF T!Withdrawn
  <2>2. T!FinishStreaming(T!Withdrawn) \/ T!FinishStreaming(perm)
    BY <1>5 DEF T!Interrupt
  <2> QED BY <2>1, <2>2, NothingShown
<1>6. ASSUME NEW r \in DOMAIN runs, T!Finally(r) PROVE PromptInv'
  BY <1>6, NothingShown DEF T!Finally
<1>7. CASE T!Type \/ T!Poll \/ T!Notice \/ T!McpConnected \/ T!AnswerAsk
  BY <1>7 DEF T!Type, T!Poll, T!Notice, T!McpConnected, T!AnswerAsk, T!prompts
<1>8. ASSUME NEW r \in DOMAIN runs,
             \/ T!WaitMcp(r) \/ T!RaiseFlag(r) \/ T!AddMessage(r) \/ T!EnterTry(r)
             \/ T!Inject(r) \/ T!EndRun(r) \/ T!AskUser(r) \/ T!AskTimeout(r)
      PROVE  PromptInv'
  BY <1>8 DEF T!WaitMcp, T!RaiseFlag, T!AddMessage, T!EnterTry, T!Inject, T!EndRun,
       T!AskUser, T!AskTimeout, T!prompts
<1> QED BY <1>1, <1>2, <1>3, <1>4, <1>5, <1>6, <1>7, <1>8 DEF T!Next

(* A permission prompt on display is the one an answer goes to, whatever   *)
(* happens to the runs and to the background tasks that ask.               *)
THEOREM PromptsAnswerable == Spec => []PromptAnswerable
<1>1. Init => PromptInv
  BY DEF Init, T!Init, PromptInv, PromptAnswerable, T!PromptAnswerable
<1>2. PromptInv /\ [Next]_<<focus, tui, remote, headless>> => PromptInv'
  <2>1. PromptInv /\ UNCHANGED tui => PromptInv'
    BY DEF tui, PromptInv, PromptAnswerable, T!PromptAnswerable
  <2>2. [Next]_<<focus, tui, remote, headless>> => T!Next \/ UNCHANGED tui
    BY DEF Next
  <2> QED BY <2>1, <2>2, PromptStep
<1>3. PromptInv => PromptAnswerable
  BY DEF PromptInv
<1> QED BY <1>1, <1>2, <1>3, PTL DEF Spec

-----------------------------------------------------------------------------
(* The flag, the handle and the question slot.                             *)

(* Without one of the races that break it, at most one run has not ended,  *)
(* the handle is its, and the flag is up once it has raised it.            *)
Tracked ==
    /\ \A r \in 1..Len(runs) : runs[r].pc # "done" => agentTask = r
    /\ streaming <=> \E r \in 1..Len(runs) : runs[r].pc \in ActivePcs
    /\ \A r \in 1..Len(runs) : runs[r].pc = "asking" => askSlot = r

TrackInv ==
    /\ runs \in Seq(RunRecord) /\ agentTask \in 0..Len(runs) /\ streaming \in BOOLEAN
    /\ typed \in Nat
    /\ hurt \subseteq {"stranded"} => Tracked

(* Runs created while the flag is down: one if no other waits to begin,    *)
(* otherwise the race "early" has happened.                                *)
LEMMA StartTracked ==
    ASSUME TrackInv, NEW texts \in Seq(Nat), Len(texts) > 0, T!StartRuns(texts),
           streaming = FALSE, streaming' = FALSE, askSlot' = askSlot, typed' \in Nat
    PROVE  TrackInv'
<1> DEFINE new == T!Create(runs, texts)
<1>1. /\ new \in Seq(RunRecord) /\ Len(new) = Len(runs) + Len(texts)
      /\ \A s \in 1..Len(runs) : new[s] = runs[s]
      /\ \A s \in 1..Len(texts) :
           new[Len(runs) + s] = [pc |-> "created", text |-> texts[s]]
  BY CreatedRuns DEF TrackInv
<1> HIDE DEF new
<1>2. /\ runs' = new /\ agentTask' = Len(new)
      /\ hurt' = hurt \cup T!Hurt("early", T!Crowded(new))
  BY DEF T!StartRuns, new
<1>3. agentTask' \in 0..Len(runs')
  BY <1>1, <1>2
<1>4. ASSUME hurt' \subseteq {"stranded"}
      PROVE  Tracked'
  <2>1. Tracked /\ ~T!Crowded(new)
    BY <1>2, <1>4 DEF TrackInv, T!Hurt
  <2>2. \A s \in 1..Len(runs) : runs[s].pc \in {"created", "mcp", "done"}
    <3> TAKE s \in 1..Len(runs)
    <3>1. runs[s] \in RunRecord
      BY DEF TrackInv
    <3>2. runs[s].pc \notin ActivePcs
      BY <2>1 DEF Tracked
    <3> QED BY <3>1, <3>2 DEF RunRecord, RunPcs, ActivePcs
  <2>3. \A s \in 1..Len(new) : new[s].pc \in {"created", "mcp", "done"}
    <3> TAKE s \in 1..Len(new)
    <3>1. CASE s \in 1..Len(runs)
      BY <3>1, <2>2, <1>1
    <3>2. CASE s \notin 1..Len(runs)
      <4>1. s - Len(runs) \in 1..Len(texts) /\ Len(runs) + (s - Len(runs)) = s
        BY <3>2, <1>1 DEF TrackInv
      <4>2. new[Len(runs) + (s - Len(runs))]
              = [pc |-> "created", text |-> texts[s - Len(runs)]]
        BY <4>1, <1>1, Zenon
      <4> QED BY <4>1, <4>2
    <3> QED BY <3>1, <3>2
  <2>4. Len(new) \in 1..Len(new) /\ new[Len(new)].pc = "created"
    <3>1. Len(texts) \in 1..Len(texts) /\ Len(new) \in 1..Len(new)
      BY <1>1 DEF TrackInv
    <3>2. new[Len(runs) + Len(texts)] = [pc |-> "created", text |-> texts[Len(texts)]]
      BY <3>1, <1>1, Zenon
    <3> QED BY <3>1, <3>2, <1>1
  <2>5. ASSUME NEW r \in 1..Len(new), new[r].pc # "done"
        PROVE  Len(new) = r
    <3>1. DOMAIN new = 1..Len(new)
      BY <1>1
    <3>2. new[r].pc \in {"created", "mcp"} /\ new[Len(new)].pc \in {"created", "mcp"}
      BY <2>3, <2>4, <2>5
    <3> QED BY <3>1, <3>2, <2>1, <2>4 DEF T!Crowded
  <2> QED BY <1>2, <2>3, <2>5 DEF Tracked, ActivePcs
<1> QED BY <1>1, <1>2, <1>3, <1>4 DEF TrackInv

(* A run that moves on within the waiting states, into the active ones, or *)
(* within them.                                                            *)
LEMMA MoveTracked ==
    ASSUME TrackInv, NEW r \in DOMAIN runs, NEW from, NEW to \in RunPcs \ {"done"},
           T!Goto(r, from, to), "done" \notin from,
           UNCHANGED <<agentTask, hurt, typed>>, streaming' \in BOOLEAN,
           \/ streaming' = TRUE /\ to \in ActivePcs
           \/ streaming' = streaming /\ (to \in ActivePcs <=> runs[r].pc \in ActivePcs),
           askSlot' = IF to = "asking" THEN r ELSE askSlot
    PROVE  TrackInv'
<1>1. /\ runs' \in Seq(RunRecord) /\ Len(runs') = Len(runs)
      /\ \A s \in 1..Len(runs) : runs'[s].pc = IF s = r THEN to ELSE runs[s].pc
  BY MovedRun DEF T!Goto, TrackInv
<1>2. r \in 1..Len(runs) /\ runs[r].pc \in from
  BY DEF T!Goto, TrackInv
<1>3. ASSUME hurt' \subseteq {"stranded"}
      PROVE  Tracked'
  <2>1. Tracked
    BY <1>3 DEF TrackInv
  <2>2. \A s \in 1..Len(runs) : s # r => runs[s].pc = "done"
    BY <1>2, <2>1 DEF Tracked
  <2>3. agentTask' = r
    BY <1>2, <2>1 DEF Tracked
  <2>4. \A s \in 1..Len(runs') : runs'[s].pc # "done" => s = r
    BY <1>1, <2>2
  <2>5. streaming' <=> \E s \in 1..Len(runs') : runs'[s].pc \in ActivePcs
    <3>1. CASE to \in ActivePcs
      <4>1. streaming'
        BY <3>1, <1>2, <2>1 DEF Tracked
      <4> QED BY <3>1, <4>1, <1>1, <1>2
    <3>2. CASE to \notin ActivePcs
      <4>1. runs[r].pc \notin ActivePcs /\ streaming' = streaming
        BY <3>2
      <4>2. ~streaming
        BY <4>1, <2>1, <2>2 DEF Tracked, ActivePcs
      <4>3. \A s \in 1..Len(runs') : runs'[s].pc \in {to, "done"}
        BY <1>1, <2>2
      <4>4. \A s \in 1..Len(runs') : runs'[s].pc \notin ActivePcs
        BY <3>2, <4>3 DEF ActivePcs
      <4> QED BY <4>1, <4>2, <4>4
    <3> QED BY <3>1, <3>2
  <2>6. \A s \in 1..Len(runs') : runs'[s].pc = "asking" => askSlot' = s
    BY <1>1, <1>2, <2>1, <2>2, <2>4 DEF Tracked
  <2> QED BY <2>3, <2>4, <2>5, <2>6 DEF Tracked
<1> QED BY <1>1, <1>3 DEF TrackInv

(* The runs behind the finally clause of r, before one is created.         *)
LEMMA EndedRuns ==
    ASSUME runs \in Seq(RunRecord), NEW r \in DOMAIN runs
    PROVE  LET ended == [T!Answered(runs) EXCEPT ![r].pc = "done"]
           IN  /\ ended \in Seq(RunRecord) /\ Len(ended) = Len(runs)
               /\ \A s \in 1..Len(runs) :
                    ended[s].pc = IF s = r THEN "done"
                                  ELSE IF s = askSlot /\ runs[s].pc = "asking" THEN "running"
                                  ELSE runs[s].pc
<1> DEFINE ended == [T!Answered(runs) EXCEPT ![r].pc = "done"]
<1>1. /\ T!Answered(runs) \in Seq(RunRecord) /\ Len(T!Answered(runs)) = Len(runs)
      /\ \A s \in 1..Len(runs) :
           T!Answered(runs)[s].pc = IF s = askSlot /\ runs[s].pc = "asking"
                                      THEN "running" ELSE runs[s].pc
  BY AnsweredRuns
<1>2. r \in DOMAIN T!Answered(runs) /\ "done" \in RunPcs
  BY <1>1 DEF RunPcs
<1>3. /\ ended \in Seq(RunRecord) /\ Len(ended) = Len(T!Answered(runs))
      /\ \A s \in 1..Len(T!Answered(runs)) :
           ended[s].pc = IF s = r THEN "done" ELSE T!Answered(runs)[s].pc
  BY <1>1, <1>2, MovedRun
<1> QED BY <1>1, <1>3

(* The end of a run, in its finally clause: nothing is active behind it,   *)
(* and a run for ended tasks is the only one that waits.                   *)
LEMMA FinallyTracked ==
    ASSUME TrackInv, NEW r \in DOMAIN runs, T!Finally(r)
    PROVE  TrackInv'
<1> DEFINE ended == [T!Answered(runs) EXCEPT ![r].pc = "done"]
           texts == T!Notified(completed)
           new == T!Create(ended, texts)
<1>1. /\ ended \in Seq(RunRecord) /\ Len(ended) = Len(runs)
      /\ \A s \in 1..Len(runs) :
           ended[s].pc = IF s = r THEN "done"
                         ELSE IF s = askSlot /\ runs[s].pc = "asking" THEN "running"
                         ELSE runs[s].pc
  BY EndedRuns DEF TrackInv
<1>2. texts \in Seq(Nat) /\ Len(texts) \in {0, 1} /\ (Len(texts) = 1 <=> completed)
  BY DEF T!Notified
<1> HIDE DEF ended, texts
<1>3. /\ new \in Seq(RunRecord) /\ Len(new) = Len(runs) + Len(texts)
      /\ \A s \in 1..Len(runs) : new[s] = ended[s]
      /\ \A s \in 1..Len(texts) :
           new[Len(runs) + s] = [pc |-> "created", text |-> texts[s]]
  <2>1. /\ new \in Seq(RunRecord) /\ Len(new) = Len(ended) + Len(texts)
        /\ \A s \in 1..Len(ended) : new[s] = ended[s]
        /\ \A s \in 1..Len(texts) :
             new[Len(ended) + s] = [pc |-> "created", text |-> texts[s]]
    BY <1>1, <1>2, CreatedRuns, Zenon
  <2> HIDE DEF new
  <2> QED BY <1>1, <2>1
<1> HIDE DEF new
<1>4. /\ runs' = new /\ agentTask' = IF completed THEN Len(new) ELSE 0
      /\ streaming' = FALSE /\ typed' = typed
      /\ hurt \subseteq hurt' /\ runs[r].pc = "finally"
  BY DEF T!Finally, T!FinishStreaming, T!texts, new, ended, texts
<1>5. agentTask' \in 0..Len(runs')
  BY <1>3, <1>4
<1>6. ASSUME hurt' \subseteq {"stranded"}
      PROVE  Tracked'
  <2>1. Tracked
    BY <1>4, <1>6 DEF TrackInv
  <2>2. \A s \in 1..Len(runs) : new[s].pc = "done"
    <3>1. r \in 1..Len(runs)
      BY DEF TrackInv
    <3>2. \A s \in 1..Len(runs) : s # r => runs[s].pc = "done"
      BY <3>1, <2>1, <1>4 DEF Tracked
    <3> QED BY <3>2, <1>1, <1>3
  <2>3. \A s \in 1..Len(new) :
          new[s].pc = "done" \/ (completed /\ s = Len(new) /\ new[s].pc = "created")
    <3> TAKE s \in 1..Len(new)
    <3>1. CASE s \in 1..Len(runs)
      BY <3>1, <2>2
    <3>2. CASE s \notin 1..Len(runs)
      <4>1. s = Len(runs) + 1 /\ Len(texts) = 1 /\ 1 \in 1..Len(texts)
        <5>1. Len(runs) \in Nat
          BY DEF TrackInv
        <5>2. Len(new) = Len(runs) + Len(texts) /\ Len(texts) \in {0, 1}
          BY <1>2, <1>3
        <5>3. CASE Len(texts) = 0
          BY <5>1, <5>2, <5>3, <3>2
        <5>4. CASE Len(texts) = 1
          BY <5>1, <5>2, <5>4, <3>2
        <5> QED BY <5>2, <5>3, <5>4
      <4>2. new[Len(runs) + 1] = [pc |-> "created", text |-> texts[1]]
        BY <4>1, <1>3, Zenon
      <4> QED BY <4>1, <4>2, <1>2, <1>3
    <3> QED BY <3>1, <3>2
  <2> QED BY <1>4, <2>3 DEF Tracked, ActivePcs
<1> QED BY <1>3, <1>4, <1>5, <1>6 DEF TrackInv

(* Escape without the race "abandoned" finds a run in its try statement,   *)
(* and no other that has not ended.                                        *)
LEMMA EscapedRun ==
    ASSUME TrackInv, T!Escape, hurt' \subseteq {"stranded"}
    PROVE  /\ Tracked /\ agentTask \in 1..Len(runs)
           /\ runs[agentTask].pc \in {"running", "asking", "finally"}
           /\ \A s \in 1..Len(runs) : s # agentTask => runs[s].pc = "done"
<1>1. \A s \in 1..Len(runs) :
        T!Cancelled[s].pc = IF s = agentTask \/ (runs[agentTask].pc = "mcp" /\ runs[s].pc = "mcp")
                              THEN IF runs[s].pc \in {"running", "asking", "finally"}
                                     THEN "finally" ELSE "done"
                              ELSE runs[s].pc
  BY CancelledRuns DEF TrackInv
<1>2. /\ hurt' = hurt \cup T!Hurt("abandoned", T!Abandons)
      /\ agentTask # 0 /\ runs[agentTask].pc # "done"
  BY DEF T!Escape, T!Stoppable
<1>3. Tracked /\ ~T!Abandons
  BY <1>2 DEF TrackInv, T!Hurt
<1>4. agentTask \in 1..Len(runs) /\ runs[agentTask].pc \in RunPcs
  <2>1. agentTask \in 1..Len(runs)
    BY <1>2 DEF TrackInv
  <2>2. runs[agentTask] \in RunRecord
    BY <2>1 DEF TrackInv
  <2> QED BY <2>1, <2>2 DEF RunRecord
<1>5. ASSUME runs[agentTask].pc \in {"created", "mcp", "setup", "entering"}
      PROVE  FALSE
  <2>1. agentTask \in T!At({"created", "mcp", "setup", "entering"})
    BY <1>5, <1>4 DEF T!At, TrackInv
  <2>2. T!Cancelled[agentTask].pc = "done"
    BY <1>5, <1>1, <1>4
  <2> QED BY <2>1, <2>2, <1>3 DEF T!Abandons
<1>6. runs[agentTask].pc \in {"running", "asking", "finally"}
  BY <1>2, <1>4, <1>5 DEF RunPcs
<1> QED BY <1>3, <1>4, <1>6 DEF Tracked

(* The runs behind an Escape that is no race.                              *)
LEMMA EscapedRuns ==
    ASSUME TrackInv, T!Escape, hurt' \subseteq {"stranded"}
    PROVE  /\ runs' \in Seq(RunRecord) /\ Len(runs') = Len(runs)
           /\ \A s \in 1..Len(runs) :
                runs'[s].pc = IF s = agentTask THEN "finally" ELSE "done"
<1>1. /\ runs' \in Seq(RunRecord) /\ Len(runs') = Len(runs)
      /\ \A s \in 1..Len(runs) :
           runs'[s].pc = IF s = agentTask \/ (runs[agentTask].pc = "mcp" /\ runs[s].pc = "mcp")
                           THEN IF runs[s].pc \in {"running", "asking", "finally"}
                                  THEN "finally" ELSE "done"
                           ELSE runs[s].pc
  BY CancelledRuns DEF T!Escape, TrackInv
<1>2. /\ runs[agentTask].pc \in {"running", "asking", "finally"}
      /\ \A s \in 1..Len(runs) : s # agentTask => runs[s].pc = "done"
  BY EscapedRun
<1> QED BY <1>1, <1>2

(* Escape keeps track of the run, or is the race "abandoned".              *)
LEMMA EscapeTracked ==
    ASSUME TrackInv, T!Escape
    PROVE  TrackInv'
<1>1. runs' \in Seq(RunRecord) /\ Len(runs') = Len(runs)
  BY CancelledRuns DEF T!Escape, TrackInv
<1>2. UNCHANGED <<streaming, agentTask, typed, askSlot>>
  BY DEF T!Escape, T!texts
<1>3. ASSUME hurt' \subseteq {"stranded"}
      PROVE  Tracked'
  <2>1. /\ Tracked /\ agentTask \in 1..Len(runs)
        /\ runs[agentTask].pc \in {"running", "asking", "finally"}
    BY <1>3, EscapedRun
  <2>2. \A s \in 1..Len(runs) : runs'[s].pc = IF s = agentTask THEN "finally" ELSE "done"
    BY <1>3, EscapedRuns
  <2>3. streaming
    BY <2>1 DEF Tracked, ActivePcs
  <2> QED BY <1>1, <1>2, <2>1, <2>2, <2>3 DEF Tracked, ActivePcs
<1> QED BY <1>1, <1>2, <1>3 DEF TrackInv

(* Control-C during a run is always the race "interrupted", unless some    *)
(* other race has happened before it.                                      *)
LEMMA InterruptHurts ==
    ASSUME TrackInv, T!Interrupt
    PROVE  ~(hurt' \subseteq {"stranded"})
<1>1. CASE T!Stoppable
  <2>1. "interrupted" \in hurt'
    BY <1>1 DEF T!Interrupt
  <2> QED BY <2>1
<1>2. CASE ~T!Stoppable
  <2>1. streaming /\ hurt' = hurt
    BY <1>2 DEF T!Interrupt
  <2> SUFFICES ASSUME hurt \subseteq {"stranded"} PROVE FALSE
    BY <2>1
  <2>2. PICK r \in 1..Len(runs) : runs[r].pc \in ActivePcs
    BY <2>1 DEF TrackInv, Tracked
  <2>3. runs[r].pc # "done" /\ agentTask = r
    BY <2>2 DEF TrackInv, Tracked, ActivePcs
  <2> QED BY <2>2, <2>3, <1>2 DEF T!Stoppable
<1> QED BY <1>1, <1>2

(* So there is nothing to track behind it.                                 *)
LEMMA InterruptTracked ==
    ASSUME TrackInv, T!Interrupt
    PROVE  TrackInv'
<1>1. streaming' = FALSE /\ agentTask' = 0 /\ typed' = typed
  BY DEF T!Interrupt, T!FinishStreaming, T!texts
<1>2. T!Answered(runs) \in Seq(RunRecord) /\ Len(T!Answered(runs)) = Len(runs)
  BY AnsweredRuns DEF TrackInv
<1>3. runs' \in Seq(RunRecord)
  <2>1. CASE T!Stoppable
    <3>1. runs' = [T!Answered(runs) EXCEPT ![agentTask] = T!Cancelled[agentTask]]
      BY <2>1 DEF T!Interrupt
    <3>2. agentTask \in 1..Len(runs)
      BY <2>1 DEF T!Stoppable, TrackInv
    <3>3. T!Cancelled[agentTask] \in RunRecord
      BY <3>2, CancelledRuns DEF TrackInv
    <3> QED BY <1>2, <3>1, <3>2, <3>3, ExceptSeq
  <2>2. CASE ~T!Stoppable
    BY <1>2, <2>2 DEF T!Interrupt
  <2> QED BY <2>1, <2>2
<1>4. 0 \in 0..Len(runs') /\ typed' \in Nat
  BY <1>1, <1>3 DEF TrackInv
<1> QED BY <1>1, <1>3, <1>4, InterruptHurts DEF TrackInv

(* An answer lets the run that asked go on, or only closes the dialog.     *)
LEMMA AnswerTracked ==
    ASSUME TrackInv, T!AnswerAsk
    PROVE  TrackInv'
<1>1. /\ runs' \in Seq(RunRecord) /\ Len(runs') = Len(runs)
      /\ \A s \in 1..Len(runs) :
           runs'[s].pc = IF s = askSlot /\ runs[s].pc = "asking" THEN "running" ELSE runs[s].pc
  BY AnsweredRuns DEF T!AnswerAsk, TrackInv
<1>2. /\ UNCHANGED <<streaming, agentTask, typed, hurt>>
      /\ askSlot' = IF runs[askSlot].pc = "asking" THEN 0 ELSE askSlot
  BY DEF T!AnswerAsk, T!texts
<1>3. ASSUME Tracked
      PROVE  Tracked'
  <2>1. \A s \in 1..Len(runs) : runs'[s].pc # "done" <=> runs[s].pc # "done"
    BY <1>1
  <2>2. \A s \in 1..Len(runs) : runs'[s].pc \in ActivePcs <=> runs[s].pc \in ActivePcs
    BY <1>1 DEF ActivePcs
  <2>3. \A s \in 1..Len(runs) : runs'[s].pc = "asking" => askSlot' = s
    BY <1>1, <1>2, <1>3 DEF Tracked
  <2> QED BY <1>1, <1>2, <1>3, <2>1, <2>2, <2>3 DEF Tracked
<1> QED BY <1>1, <1>2, <1>3 DEF TrackInv

(* Steps of the terminal interface that have nothing to do with runs.      *)
LEMMA QuietTracked ==
    ASSUME TrackInv, UNCHANGED <<streaming, agentTask, runs, typed, askSlot, hurt>>
    PROVE  TrackInv'
BY DEF TrackInv, Tracked

(* No step of the terminal interface loses track of the active run without *)
(* one of the races; one case per action.                                  *)
LEMMA TrackStep ==
    ASSUME TrackInv, T!Next
    PROVE  TrackInv'
<1>1. CASE T!Type
  <2>1. typed' \in Nat /\ typed' = typed + 1 /\ streaming' = streaming /\ askSlot' = askSlot
    BY <1>1 DEF T!Type, TrackInv, T!prompts
  <2>2. CASE streaming
    <3>1. UNCHANGED <<agentTask, runs, hurt>>
      BY <1>1, <2>2 DEF T!Type
    <3> QED BY <2>1, <3>1 DEF TrackInv, Tracked
  <2>3. CASE ~streaming
    <3>1. T!StartRuns(<<typed'>>) /\ streaming = FALSE
      BY <1>1, <2>3 DEF T!Type, TrackInv
    <3>2. <<typed'>> \in Seq(Nat) /\ Len(<<typed'>>) > 0
      BY <2>1
    <3> QED BY <2>1, <3>1, <3>2, StartTracked
  <2> QED BY <2>2, <2>3
<1>2. CASE T!Poll
  <2> DEFINE texts == T!Notified(completed) \o T!Notified(notes)
  <2>1. texts \in Seq(Nat) /\ Len(texts) > 0
    BY <1>2 DEF T!Poll, T!Notified
  <2>2. /\ T!StartRuns(texts) /\ streaming = FALSE /\ streaming' = FALSE
        /\ askSlot' = askSlot /\ typed' \in Nat
    BY <1>2 DEF T!Poll, T!MayWake, T!prompts, T!texts, TrackInv
  <2> HIDE DEF texts
  <2> QED BY <2>1, <2>2, StartTracked
<1>3. CASE T!Notice \/ T!McpConnected \/ T!AnswerPermission
  BY <1>3, QuietTracked DEF T!Notice, T!McpConnected, T!AnswerPermission, T!texts, T!prompts
<1>4. ASSUME NEW a \in T!Askers, T!AskPermission(a) \/ T!ShowPermission(a) PROVE TrackInv'
  BY <1>4, QuietTracked DEF T!AskPermission, T!ShowPermission, T!texts
<1>5. ASSUME NEW r \in DOMAIN runs, T!Inject(r) PROVE TrackInv'
  BY <1>5, QuietTracked DEF T!Inject, T!prompts
<1>6. ASSUME NEW r \in DOMAIN runs, T!WaitMcp(r) PROVE TrackInv'
  <2>1. /\ T!Goto(r, {"created"}, "mcp") /\ UNCHANGED <<streaming, agentTask, typed, hurt, askSlot>>
        /\ runs[r].pc = "created"
    BY <1>6 DEF T!WaitMcp, T!Goto, T!texts, T!prompts
  <2> QED BY <2>1, MoveTracked DEF TrackInv, RunPcs, ActivePcs
<1>7. ASSUME NEW r \in DOMAIN runs, T!RaiseFlag(r) PROVE TrackInv'
  <2>1. /\ T!Goto(r, {"created", "mcp"}, "setup") /\ streaming' = TRUE
        /\ UNCHANGED <<agentTask, typed, hurt, askSlot>>
    BY <1>7 DEF T!RaiseFlag, T!texts, T!prompts
  <2> QED BY <2>1, MoveTracked DEF RunPcs, ActivePcs
<1>8. ASSUME NEW r \in DOMAIN runs, T!AddMessage(r) PROVE TrackInv'
  <2>1. /\ T!Goto(r, {"setup"}, "entering") /\ runs[r].pc = "setup"
        /\ UNCHANGED <<streaming, agentTask, typed, hurt, askSlot>>
    BY <1>8 DEF T!AddMessage, T!Goto, T!prompts
  <2> QED BY <2>1, MoveTracked DEF TrackInv, RunPcs, ActivePcs
<1>9. ASSUME NEW r \in DOMAIN runs, T!EnterTry(r) PROVE TrackInv'
  <2>1. /\ T!Goto(r, {"entering"}, "running") /\ runs[r].pc = "entering"
        /\ UNCHANGED <<streaming, agentTask, typed, hurt, askSlot>>
    BY <1>9 DEF T!EnterTry, T!Goto, T!texts, T!prompts
  <2> QED BY <2>1, MoveTracked DEF TrackInv, RunPcs, ActivePcs
<1>10. ASSUME NEW r \in DOMAIN runs, T!EndRun(r) PROVE TrackInv'
  <2>1. /\ T!Goto(r, {"running"}, "finally") /\ runs[r].pc = "running"
        /\ UNCHANGED <<streaming, agentTask, typed, hurt, askSlot>>
    BY <1>10 DEF T!EndRun, T!Goto, T!texts, T!prompts
  <2> QED BY <2>1, MoveTracked DEF TrackInv, RunPcs, ActivePcs
<1>11. ASSUME NEW r \in DOMAIN runs, T!AskUser(r) PROVE TrackInv'
  <2>1. /\ T!Goto(r, {"running"}, "asking") /\ runs[r].pc = "running" /\ askSlot' = r
        /\ UNCHANGED <<streaming, agentTask, typed, hurt>>
    BY <1>11 DEF T!AskUser, T!Goto, T!texts
  <2> QED BY <2>1, MoveTracked DEF TrackInv, RunPcs, ActivePcs
<1>12. ASSUME NEW r \in DOMAIN runs, T!AskTimeout(r) PROVE TrackInv'
  <2>1. /\ T!Goto(r, {"asking"}, "running") /\ runs[r].pc = "asking"
        /\ UNCHANGED <<streaming, agentTask, typed, hurt, askSlot>>
    BY <1>12 DEF T!AskTimeout, T!Goto, T!texts, T!prompts
  <2> QED BY <2>1, MoveTracked DEF TrackInv, RunPcs, ActivePcs
<1> QED
  BY <1>1, <1>2, <1>3, <1>4, <1>5, <1>6, <1>7, <1>8, <1>9, <1>10, <1>11, <1>12,
     FinallyTracked, EscapeTracked, InterruptTracked, AnswerTracked DEF T!Next

(* The invariant holds in every state.                                     *)
LEMMA TrackInvariance == Spec => []TrackInv
<1>1. Init => TrackInv
  <2>1. ASSUME Init
        PROVE  runs = <<>> /\ agentTask = 0 /\ streaming = FALSE /\ typed = 0
    BY <2>1 DEF Init, T!Init
  <2>2. ASSUME runs = <<>>, agentTask = 0, streaming = FALSE, typed = 0
        PROVE  TrackInv
    <3>1. runs \in Seq(RunRecord) /\ agentTask \in 0..Len(runs) /\ typed \in Nat
      BY <2>2
    <3>2. \A r : r \notin 1..Len(runs)
      BY <2>2
    <3>3. Tracked
      BY <2>2, <3>2 DEF Tracked
    <3> QED BY <2>2, <3>1, <3>3 DEF TrackInv
  <2> QED BY <2>1, <2>2
<1>2. TrackInv /\ [Next]_<<focus, tui, remote, headless>> => TrackInv'
  <2>1. TrackInv /\ UNCHANGED tui => TrackInv'
    BY QuietTracked DEF tui
  <2>2. [Next]_<<focus, tui, remote, headless>> => T!Next \/ UNCHANGED tui
    BY DEF Next
  <2> QED BY <2>1, <2>2, TrackStep
<1> QED BY <1>1, <1>2, PTL DEF Spec

(* The flag of the terminal interface says whether a run is active, and    *)
(* the handle and the question slot belong to that run, unless one of the  *)
(* three races SurfaceTracksRun names has happened.                        *)
THEOREM TerminalTracksRun == Spec => []SurfaceTracksRun
<1>1. ASSUME TrackInv, hurt \subseteq {"stranded"}
      PROVE  /\ streaming = (T!Active # {})
             /\ \A r \in T!Active : agentTask = r
             /\ \A r \in T!At({"asking"}) : askSlot = r
  <2>1. Tracked /\ streaming \in BOOLEAN /\ DOMAIN runs = 1..Len(runs)
    BY <1>1 DEF TrackInv
  <2>2. T!Active = {r \in 1..Len(runs) : runs[r].pc \in ActivePcs}
    BY <2>1 DEF T!Active, T!At, ActivePcs
  <2>3. streaming <=> T!Active # {}
    BY <2>1, <2>2 DEF Tracked
  <2>4. \A r \in T!Active : agentTask = r
    BY <2>1, <2>2 DEF Tracked, ActivePcs
  <2>5. \A r \in T!At({"asking"}) : askSlot = r
    BY <2>1 DEF Tracked, T!At
  <2> QED BY <2>1, <2>3, <2>4, <2>5
<1>2. TrackInv => SurfaceTracksRun
  BY <1>1 DEF SurfaceTracksRun, T!SurfaceTracksRun
<1> QED BY <1>2, TrackInvariance, PTL

-----------------------------------------------------------------------------
(* The messages typed.                                                     *)

(* The messages 1..n in the order typed.                                   *)
Upto(n) == [i \in 1..n |-> i]

(* What is in the conversation, in the run that starts and in the queue.   *)
InOrder ==
    \/ T!Starting = {} /\ conv \o queue = Upto(typed)
    \/ \E r \in T!Starting :
        T!Starting = {r} /\ conv \o <<runs[r].text>> \o queue = Upto(typed)

(* Without any race the queue is empty while the flag is down, so that a   *)
(* message that starts a run comes after all the others.                   *)
TextInv ==
    /\ conv \in Seq(Nat) /\ queue \in Seq(Nat)
    /\ hurt = {} => (~streaming => queue = <<>>) /\ InOrder

(* One message more, at the end.                                           *)
LEMMA UptoGrows ==
    ASSUME NEW s \in Seq(Nat), NEW n \in Nat, s = Upto(n)
    PROVE  s \o <<n + 1>> = Upto(n + 1)
<1>1. Upto(n) \in Seq(Nat) /\ Len(Upto(n)) = n /\ \A i \in 1..n : Upto(n)[i] = i
  BY DEF Upto
<1>2. Upto(n + 1) \in Seq(Nat) /\ Len(Upto(n + 1)) = n + 1 /\ \A i \in 1..(n + 1) : Upto(n + 1)[i] = i
  BY DEF Upto
<1> DEFINE t == s \o <<n + 1>>
<1>3. t \in Seq(Nat) /\ Len(t) = n + 1
  BY <1>1
<1>4. \A i \in 1..(n + 1) : t[i] = i
  BY <1>1
<1> HIDE DEF t
<1>5. \A i \in 1..Len(t) : t[i] = Upto(n + 1)[i]
  BY <1>2, <1>3, <1>4
<1>6. t = Upto(n + 1)
  BY <1>2, <1>3, <1>5, SeqEqual
<1> QED BY <1>6 DEF t

(* Sequences of messages are put together in any grouping.                 *)
LEMMA Regrouped ==
    ASSUME NEW c \in Seq(Nat), NEW q \in Seq(Nat), NEW u \in Seq(Nat)
    PROVE  (c \o q) \o u = c \o (q \o u)
<1>1. (c \o q) \o u \in Seq(Nat) /\ c \o (q \o u) \in Seq(Nat)
  OBVIOUS
<1>2. Len((c \o q) \o u) = Len(c \o (q \o u))
  OBVIOUS
<1>3. \A i \in 1..Len((c \o q) \o u) : ((c \o q) \o u)[i] = (c \o (q \o u))[i]
  OBVIOUS
<1> QED BY <1>1, <1>2, <1>3, SeqEqual

(* A message queued at the end, with or without a run that starts.         *)
LEMMA QueueGrows ==
    ASSUME NEW c \in Seq(Nat), NEW q \in Seq(Nat), NEW n \in Nat, c \o q = Upto(n)
    PROVE  c \o Append(q, n + 1) = Upto(n + 1)
<1>0. n + 1 \in Nat /\ <<n + 1>> \in Seq(Nat)
  OBVIOUS
<1>1. Append(q, n + 1) = q \o <<n + 1>> /\ <<n + 1>> \in Seq(Nat)
  BY <1>0, AppendIsConcat, Zenon
<1>2. c \o (q \o <<n + 1>>) = (c \o q) \o <<n + 1>>
  BY <1>1, Regrouped
<1>3. c \o q \in Seq(Nat)
  BY ConcatProperties
<1> QED BY <1>1, <1>2, <1>3, UptoGrows

(* When TrackInv holds after runs were created, the runs before them have  *)
(* ended and the last one is the only one that can be starting.            *)
LEMMA StartedRuns ==
    ASSUME TrackInv, TrackInv', NEW texts \in Seq(Nat), Len(texts) > 0, T!StartRuns(texts),
           hurt' = {}
    PROVE  /\ T!Starting = {}
           /\ T!Starting' = IF texts[Len(texts)] = 0 THEN {} ELSE {Len(runs')}
           /\ runs'[Len(runs')].text = texts[Len(texts)]
<1> DEFINE new == T!Create(runs, texts)
<1>1. /\ new \in Seq(RunRecord) /\ Len(new) = Len(runs) + Len(texts)
      /\ \A s \in 1..Len(runs) : new[s] = runs[s]
      /\ \A s \in 1..Len(texts) :
           new[Len(runs) + s] = [pc |-> "created", text |-> texts[s]]
  BY CreatedRuns DEF TrackInv
<1> HIDE DEF new
<1>2. runs' = new /\ agentTask' = Len(new)
  BY DEF T!StartRuns, new
<1>3. \A r \in 1..Len(new) : new[r].pc # "done" => Len(new) = r
  BY <1>2 DEF TrackInv, Tracked
<1>4. Len(runs) \in Nat /\ Len(texts) \in Nat
  BY DEF TrackInv
<1>5. \A r \in 1..Len(runs) : runs[r].pc = "done"
  <2> TAKE r \in 1..Len(runs)
  <2>1. r \in 1..Len(new) /\ r # Len(new)
    BY <1>1, <1>4
  <2>2. new[r].pc = "done"
    BY <2>1, <1>3
  <2> QED BY <2>2, <1>1
<1>6. T!Starting = {}
  BY <1>5 DEF T!Starting, T!At
<1>7. new[Len(new)] = [pc |-> "created", text |-> texts[Len(texts)]] /\ Len(new) \in 1..Len(new)
  <2>1. Len(texts) \in 1..Len(texts) /\ Len(new) \in 1..Len(new)
    BY <1>1, <1>4
  <2>2. new[Len(runs) + Len(texts)] = [pc |-> "created", text |-> texts[Len(texts)]]
    BY <2>1, <1>1, Zenon
  <2> QED BY <2>1, <2>2, <1>1
<1>8. T!Starting' = {r \in 1..Len(new) : new[r].pc \in {"created", "mcp", "setup"} /\ new[r].text # 0}
  BY <1>1, <1>2 DEF T!Starting, T!At
<1>9. \A r \in 1..Len(new) : new[r].pc \in {"created", "mcp", "setup"} => r = Len(new)
  BY <1>3
<1> QED BY <1>2, <1>6, <1>7, <1>8, <1>9

(* Where no run begins or stops starting, the messages stay in order.      *)
LEMMA SameStarting ==
    ASSUME TrackInv, TextInv, UNCHANGED <<conv, queue, typed, hurt>>, streaming => streaming',
           runs' \in Seq(RunRecord), Len(runs') = Len(runs),
           \A s \in 1..Len(runs) :
              /\ runs'[s].text = runs[s].text
              /\ runs'[s].pc \in {"created", "mcp", "setup"}
                    <=> runs[s].pc \in {"created", "mcp", "setup"}
    PROVE  TextInv'
<1>1. T!Starting = {s \in 1..Len(runs) : runs[s].pc \in {"created", "mcp", "setup"} /\ runs[s].text # 0}
  BY DEF T!Starting, T!At, TrackInv
<1>2. T!Starting' = {s \in 1..Len(runs) : runs'[s].pc \in {"created", "mcp", "setup"} /\ runs'[s].text # 0}
  BY DEF T!Starting, T!At
<1>3. T!Starting' = T!Starting /\ \A s \in T!Starting : runs'[s].text = runs[s].text
  BY <1>1, <1>2
<1>4. InOrder => InOrder'
  BY <1>3 DEF InOrder
<1> QED BY <1>4 DEF TextInv

(* A run that moves within the starting states, or outside them, starts no *)
(* more and no less than before.                                           *)
LEMMA MovedStarting ==
    ASSUME TrackInv, NEW r \in DOMAIN runs, NEW from, NEW to \in RunPcs, T!Goto(r, from, to),
           to \in {"created", "mcp", "setup"} <=> runs[r].pc \in {"created", "mcp", "setup"},
           TextInv, UNCHANGED <<conv, queue, typed, hurt>>, streaming => streaming'
    PROVE  TextInv'
<1>1. /\ runs' \in Seq(RunRecord) /\ Len(runs') = Len(runs)
      /\ \A s \in 1..Len(runs) : /\ runs'[s].text = runs[s].text
                                 /\ runs'[s].pc = IF s = r THEN to ELSE runs[s].pc
  BY MovedRun DEF T!Goto, TrackInv
<1>2. \A s \in 1..Len(runs) : runs'[s].pc \in {"created", "mcp", "setup"}
                                <=> runs[s].pc \in {"created", "mcp", "setup"}
  BY <1>1
<1> QED BY <1>1, <1>2, SameStarting

(* Where no run is starting before or after, the messages stay in order.   *)
LEMMA NoneStarting ==
    ASSUME TextInv, UNCHANGED <<conv, queue, typed>>,
           hurt' = {} => /\ hurt = {} /\ T!Starting = {} /\ T!Starting' = {}
                         /\ ~streaming' => queue = <<>>
    PROVE  TextInv'
BY DEF TextInv, InOrder

(* A message typed: it joins the queue of the run that is active, or       *)
(* starts a run behind all the others.                                     *)
LEMMA TypeInOrder ==
    ASSUME TrackInv, TrackInv', TextInv, T!Type
    PROVE  TextInv'
<1>1. /\ conv \in Seq(Nat) /\ queue \in Seq(Nat) /\ typed \in Nat
      /\ typed' = typed + 1 /\ conv' = conv /\ streaming' = streaming
  BY DEF T!Type, TextInv, TrackInv
<1>2. CASE streaming
  <2>1. queue' = Append(queue, typed + 1) /\ UNCHANGED <<runs, hurt>>
    BY <1>1, <1>2 DEF T!Type
  <2>2. queue' \in Seq(Nat)
    BY <1>1, <2>1
  <2>3. ASSUME InOrder
        PROVE  InOrder'
    <3>1. T!Starting' = T!Starting
      BY <2>1 DEF T!Starting, T!At
    <3>2. CASE T!Starting = {} /\ conv \o queue = Upto(typed)
      <4>1. conv' \o queue' = Upto(typed')
        BY <1>1, <2>1, <3>2, QueueGrows
      <4> QED BY <3>1, <3>2, <4>1 DEF InOrder
    <3>3. ASSUME NEW r \in T!Starting, T!Starting = {r},
                 conv \o <<runs[r].text>> \o queue = Upto(typed)
          PROVE  InOrder'
      <4>1. runs[r].text \in Nat
        <5>1. runs[r] \in RunRecord
          BY DEF T!Starting, T!At, TrackInv
        <5> QED BY <5>1 DEF RunRecord
      <4>2. conv \o <<runs[r].text>> \in Seq(Nat)
        BY <1>1, <4>1
      <4>3. (conv \o <<runs[r].text>>) \o Append(queue, typed + 1) = Upto(typed + 1)
        BY <1>1, <3>3, <4>2, QueueGrows
      <4>4. conv' \o <<runs'[r].text>> \o queue' = Upto(typed')
        BY <1>1, <2>1, <4>3
      <4> QED BY <3>1, <3>3, <4>4 DEF InOrder
    <3> QED BY <2>3, <3>2, <3>3 DEF InOrder
  <2> QED BY <1>1, <1>2, <2>1, <2>2, <2>3 DEF TextInv
<1>3. CASE ~streaming
  <2>1. T!StartRuns(<<typed + 1>>) /\ queue' = queue
    BY <1>1, <1>3 DEF T!Type
  <2>2. ASSUME hurt' = {}
        PROVE  queue = <<>> /\ InOrder'
    <3>1. hurt = {}
      BY <2>1, <2>2 DEF T!StartRuns
    <3>2. queue = <<>> /\ InOrder
      BY <1>3, <3>1 DEF TextInv
    <3> DEFINE texts == <<typed + 1>>
    <3>3. /\ texts \in Seq(Nat) /\ Len(texts) = 1 /\ Len(texts) > 0
          /\ texts[Len(texts)] = typed + 1
      BY <1>1
    <3>4. T!StartRuns(texts)
      BY <2>1
    <3> HIDE DEF texts
    <3>5. /\ T!Starting = {}
          /\ T!Starting' = IF texts[Len(texts)] = 0 THEN {} ELSE {Len(runs')}
          /\ runs'[Len(runs')].text = texts[Len(texts)]
      BY <2>2, <3>3, <3>4, StartedRuns, Zenon
    <3>6. typed + 1 # 0
      BY <1>1
    <3>7. T!Starting' = {Len(runs')} /\ runs'[Len(runs')].text = typed + 1
      BY <3>3, <3>5, <3>6
    <3>8. conv \o queue = Upto(typed) /\ conv \o queue = conv
      BY <3>2, <3>5, <1>1 DEF InOrder
    <3>9. conv \o <<typed + 1>> = Upto(typed + 1)
      BY <3>8, <1>1, UptoGrows
    <3>10. (conv \o <<typed + 1>>) \o queue' = Upto(typed')
      <4>1. conv \o <<typed + 1>> \in Seq(Nat)
        BY <1>1
      <4> QED BY <4>1, <3>2, <3>9, <1>1, <2>1
    <3> QED BY <3>2, <3>7, <3>10, <1>1 DEF InOrder
  <2> QED BY <1>1, <1>3, <2>1, <2>2 DEF TextInv
<1> QED BY <1>2, <1>3

(* Runs for notifications bring no message of the user.                    *)
LEMMA PollInOrder ==
    ASSUME TrackInv, TrackInv', TextInv, T!Poll
    PROVE  TextInv'
<1> DEFINE texts == T!Notified(completed) \o T!Notified(notes)
<1>1. texts \in Seq(Nat) /\ Len(texts) > 0 /\ texts[Len(texts)] = 0
  BY DEF T!Poll, T!Notified
<1>2. T!StartRuns(texts) /\ UNCHANGED <<conv, queue, typed, streaming>>
  BY DEF T!Poll, T!texts
<1> HIDE DEF texts
<1>3. ASSUME hurt' = {}
      PROVE  hurt = {} /\ T!Starting = {} /\ T!Starting' = {}
  BY <1>1, <1>2, <1>3, StartedRuns DEF T!StartRuns
<1>4. hurt = {} => (~streaming => queue = <<>>)
  BY DEF TextInv
<1> QED BY <1>2, <1>3, <1>4, NoneStarting

(* The message of a run goes into the conversation when the run begins.    *)
LEMMA AddInOrder ==
    ASSUME TrackInv, TextInv, NEW r \in DOMAIN runs, T!AddMessage(r)
    PROVE  TextInv'
<1>1. /\ runs' \in Seq(RunRecord) /\ Len(runs') = Len(runs)
      /\ \A s \in 1..Len(runs) : /\ runs'[s].text = runs[s].text
                                 /\ runs'[s].pc = IF s = r THEN "entering" ELSE runs[s].pc
  <2>1. runs' = [runs EXCEPT ![r].pc = "entering"] /\ runs \in Seq(RunRecord)
    BY DEF T!AddMessage, T!Goto, TrackInv
  <2>2. "entering" \in RunPcs
    BY DEF RunPcs
  <2> QED BY <2>1, <2>2, MovedRun
<1>2. /\ r \in 1..Len(runs) /\ runs[r].pc = "setup" /\ runs[r].text \in Nat
      /\ conv' = IF runs[r].text = 0 THEN conv ELSE Append(conv, runs[r].text)
      /\ UNCHANGED <<queue, typed, streaming, hurt>>
  <2>1. runs[r] \in RunRecord /\ r \in 1..Len(runs)
    BY DEF TrackInv
  <2> QED BY <2>1 DEF T!AddMessage, T!Goto, RunRecord
<1>3. conv \in Seq(Nat) /\ queue \in Seq(Nat) /\ conv' \in Seq(Nat)
  BY <1>2 DEF TextInv
<1>4. T!Starting = {s \in 1..Len(runs) : runs[s].pc \in {"created", "mcp", "setup"} /\ runs[s].text # 0}
  BY DEF T!Starting, T!At, TrackInv
<1>5. T!Starting' = {s \in 1..Len(runs) : runs'[s].pc \in {"created", "mcp", "setup"} /\ runs'[s].text # 0}
  BY <1>1 DEF T!Starting, T!At
<1>6. T!Starting' = T!Starting \ {r}
  BY <1>1, <1>4, <1>5
<1>7. ASSUME InOrder
      PROVE  InOrder'
  <2>1. CASE runs[r].text = 0
    <3>1. r \notin T!Starting
      BY <2>1, <1>4
    <3>2. T!Starting' = T!Starting /\ \A s \in T!Starting : runs'[s].text = runs[s].text
      BY <3>1, <1>1, <1>4, <1>6
    <3> QED BY <2>1, <3>2, <1>2, <1>7 DEF InOrder
  <2>2. CASE runs[r].text # 0
    <3>1. r \in T!Starting
      BY <2>2, <1>2, <1>4
    <3>2. T!Starting = {r} /\ conv \o <<runs[r].text>> \o queue = Upto(typed)
      BY <3>1, <1>7 DEF InOrder
    <3>3. T!Starting' = {} /\ conv' = conv \o <<runs[r].text>>
      BY <2>2, <3>2, <1>2, <1>3, <1>6, AppendIsConcat
    <3> QED BY <3>2, <3>3, <1>2 DEF InOrder
  <2> QED BY <2>1, <2>2
<1> QED BY <1>2, <1>3, <1>7 DEF TextInv

(* Taking in the queue moves its messages behind those of the conversation,*)
(* and nothing waits in a run that starts meanwhile.                       *)
LEMMA InjectInOrder ==
    ASSUME TrackInv, TextInv, NEW r \in DOMAIN runs, T!Inject(r)
    PROVE  TextInv'
<1>1. /\ runs[r].pc = "running" /\ conv' = conv \o queue /\ queue' = <<>>
      /\ UNCHANGED <<runs, hurt, typed, streaming>>
  BY DEF T!Inject
<1>2. conv \in Seq(Nat) /\ queue \in Seq(Nat) /\ conv' \in Seq(Nat) /\ conv' \o queue' = conv \o queue
  BY <1>1 DEF TextInv
<1>3. ASSUME hurt = {}
      PROVE  T!Starting = {}
  <2>1. r \in 1..Len(runs) /\ Tracked
    BY <1>3 DEF TrackInv
  <2>2. \A s \in 1..Len(runs) : s = r \/ runs[s].pc = "done"
    BY <1>1, <2>1 DEF Tracked
  <2> QED BY <1>1, <2>2 DEF T!Starting, T!At, TrackInv
<1>4. T!Starting' = T!Starting
  BY <1>1 DEF T!Starting, T!At
<1> QED BY <1>1, <1>2, <1>3, <1>4 DEF TextInv, InOrder

(* The end of a run that leaves no message in the queue.                   *)
LEMMA FinallyInOrder ==
    ASSUME TrackInv, TrackInv', TextInv, NEW r \in DOMAIN runs, T!Finally(r)
    PROVE  TextInv'
<1> DEFINE ended == [T!Answered(runs) EXCEPT ![r].pc = "done"]
           texts == T!Notified(completed)
           new == T!Create(ended, texts)
<1>1. ended \in Seq(RunRecord)
  BY EndedRuns DEF TrackInv
<1>2. /\ texts \in Seq(Nat)
      /\ completed => Len(texts) = 1 /\ texts[1] = 0
  BY DEF T!Notified
<1>3. /\ runs[r].pc = "finally" /\ runs' = new
      /\ agentTask' = IF completed THEN Len(runs') ELSE 0
      /\ hurt \subseteq hurt' /\ T!Hurt("stranded", queue # <<>>) \subseteq hurt'
      /\ UNCHANGED <<conv, queue, typed>>
  BY DEF T!Finally, T!texts, new, ended, texts
<1> HIDE DEF ended, texts
<1>4. ASSUME completed
      PROVE  runs'[Len(runs')].text = 0
  <2>1. /\ new \in Seq(RunRecord) /\ Len(new) = Len(ended) + Len(texts)
        /\ \A s \in 1..Len(texts) :
             new[Len(ended) + s] = [pc |-> "created", text |-> texts[s]]
    BY <1>1, <1>2, CreatedRuns, Zenon
  <2> HIDE DEF new
  <2>0. Len(texts) = 1 /\ texts[1] = 0
    BY <1>2, <1>4, Zenon
  <2>2. 1 \in 1..Len(texts) /\ Len(new) = Len(ended) + 1
    BY <2>0, <2>1
  <2>3. new[Len(ended) + 1] = [pc |-> "created", text |-> texts[1]]
    BY <2>1, <2>2, Zenon
  <2> QED BY <1>3, <2>0, <2>2, <2>3
<1> HIDE DEF new
<1>5. ASSUME hurt' = {}
      PROVE  hurt = {} /\ queue = <<>> /\ T!Starting = {} /\ T!Starting' = {}
  <2>1. hurt = {} /\ queue = <<>>
    BY <1>3, <1>5 DEF T!Hurt
  <2>2. \A s \in 1..Len(runs) : s # r => runs[s].pc = "done"
    BY <2>1, <1>3 DEF TrackInv, Tracked
  <2>3. T!Starting = {}
    BY <2>2, <1>3 DEF T!Starting, T!At, TrackInv
  <2>4. \A s \in 1..Len(runs') : runs'[s].pc # "done" => agentTask' = s
    BY <1>5 DEF TrackInv, Tracked
  <2>5. T!Starting' = {s \in 1..Len(runs') : runs'[s].pc \in {"created", "mcp", "setup"}
                                               /\ runs'[s].text # 0}
    BY DEF T!Starting, T!At, TrackInv
  <2>6. \A s \in T!Starting' : completed /\ s = Len(runs')
    BY <1>3, <2>4, <2>5
  <2>7. T!Starting' = {}
    BY <1>4, <2>5, <2>6
  <2> QED BY <2>1, <2>3, <2>7
<1> QED BY <1>3, <1>5, NoneStarting

(* Escape stops no run whose message is not in the conversation yet.       *)
LEMMA EscapeInOrder ==
    ASSUME TrackInv, TextInv, T!Escape
    PROVE  TextInv'
<1>1. hurt \subseteq hurt' /\ UNCHANGED <<conv, queue, typed, streaming>>
  BY DEF T!Escape, T!texts
<1>2. ASSUME hurt' = {}
      PROVE  hurt = {} /\ T!Starting = {} /\ T!Starting' = {}
  <2>1. hurt' \subseteq {"stranded"}
    BY <1>2
  <2>2. /\ runs[agentTask].pc \in {"running", "asking", "finally"}
        /\ \A s \in 1..Len(runs) : s # agentTask => runs[s].pc = "done"
    BY <2>1, EscapedRun
  <2>3. T!Starting = {}
    BY <2>2 DEF T!Starting, T!At, TrackInv
  <2>4. /\ runs' \in Seq(RunRecord) /\ Len(runs') = Len(runs)
        /\ \A s \in 1..Len(runs) : runs'[s].pc \in {"finally", "done"}
    BY <2>1, EscapedRuns
  <2>5. T!Starting' = {}
    BY <2>4 DEF T!Starting, T!At
  <2> QED BY <1>1, <1>2, <2>3, <2>5
<1>3. hurt = {} => (~streaming => queue = <<>>)
  BY DEF TextInv
<1> QED BY <1>1, <1>2, <1>3, NoneStarting

(* Every step of the terminal interface keeps the messages in order, or is *)
(* one of the races; one case per action.                                  *)
LEMMA TextStep ==
    ASSUME TrackInv, TrackInv', TextInv, T!Next
    PROVE  TextInv'
<1>1. CASE T!Notice \/ T!McpConnected \/ T!AnswerPermission
  BY <1>1 DEF T!Notice, T!McpConnected, T!AnswerPermission, T!texts, TextInv, InOrder,
     T!Starting, T!At
<1>2. ASSUME NEW a \in T!Askers, T!AskPermission(a) \/ T!ShowPermission(a) PROVE TextInv'
  BY <1>2 DEF T!AskPermission, T!ShowPermission, T!texts, TextInv, InOrder, T!Starting, T!At
<1>3. CASE T!Interrupt
  <2>1. hurt' # {} /\ UNCHANGED <<conv, queue>>
    BY <1>3, InterruptHurts DEF T!Interrupt, T!texts
  <2> QED BY <2>1 DEF TextInv
<1>4. CASE T!AnswerAsk
  <2>1. /\ runs' \in Seq(RunRecord) /\ Len(runs') = Len(runs)
        /\ \A s \in 1..Len(runs) :
             /\ runs'[s].text = runs[s].text
             /\ runs'[s].pc = IF s = askSlot /\ runs[s].pc = "asking" THEN "running"
                              ELSE runs[s].pc
    BY <1>4, AnsweredRuns DEF T!AnswerAsk, TrackInv
  <2>2. \A s \in 1..Len(runs) : runs'[s].pc \in {"created", "mcp", "setup"}
                                  <=> runs[s].pc \in {"created", "mcp", "setup"}
    BY <2>1
  <2>3. UNCHANGED <<conv, queue, typed, hurt, streaming>>
    BY <1>4 DEF T!AnswerAsk, T!texts
  <2> QED BY <2>1, <2>2, <2>3, SameStarting
<1>5. ASSUME NEW r \in DOMAIN runs, T!WaitMcp(r) PROVE TextInv'
  <2>1. /\ T!Goto(r, {"created"}, "mcp") /\ runs[r].pc = "created"
        /\ UNCHANGED <<conv, queue, typed, hurt, streaming>>
    BY <1>5 DEF T!WaitMcp, T!Goto, T!texts
  <2> QED BY <2>1, MovedStarting DEF RunPcs
<1>6. ASSUME NEW r \in DOMAIN runs, T!RaiseFlag(r) PROVE TextInv'
  <2>1. /\ T!Goto(r, {"created", "mcp"}, "setup") /\ runs[r].pc \in {"created", "mcp"}
        /\ UNCHANGED <<conv, queue, typed, hurt>> /\ streaming'
    BY <1>6 DEF T!RaiseFlag, T!Goto, T!texts
  <2> QED BY <2>1, MovedStarting DEF RunPcs
<1>7. ASSUME NEW r \in DOMAIN runs, T!EnterTry(r) PROVE TextInv'
  <2>1. /\ T!Goto(r, {"entering"}, "running") /\ runs[r].pc = "entering"
        /\ UNCHANGED <<conv, queue, typed, hurt, streaming>>
    BY <1>7 DEF T!EnterTry, T!Goto, T!texts
  <2> QED BY <2>1, MovedStarting DEF RunPcs
<1>8. ASSUME NEW r \in DOMAIN runs, T!EndRun(r) PROVE TextInv'
  <2>1. /\ T!Goto(r, {"running"}, "finally") /\ runs[r].pc = "running"
        /\ UNCHANGED <<conv, queue, typed, hurt, streaming>>
    BY <1>8 DEF T!EndRun, T!Goto, T!texts
  <2> QED BY <2>1, MovedStarting DEF RunPcs
<1>9. ASSUME NEW r \in DOMAIN runs, T!AskUser(r) PROVE TextInv'
  <2>1. /\ T!Goto(r, {"running"}, "asking") /\ runs[r].pc = "running"
        /\ UNCHANGED <<conv, queue, typed, hurt, streaming>>
    BY <1>9 DEF T!AskUser, T!Goto, T!texts
  <2> QED BY <2>1, MovedStarting DEF RunPcs
<1>10. ASSUME NEW r \in DOMAIN runs, T!AskTimeout(r) PROVE TextInv'
  <2>1. /\ T!Goto(r, {"asking"}, "running") /\ runs[r].pc = "asking"
        /\ UNCHANGED <<conv, queue, typed, hurt, streaming>>
    BY <1>10 DEF T!AskTimeout, T!Goto, T!texts
  <2> QED BY <2>1, MovedStarting DEF RunPcs
<1> QED
  BY <1>1, <1>2, <1>3, <1>4, <1>5, <1>6, <1>7, <1>8, <1>9, <1>10, TypeInOrder, PollInOrder,
     AddInOrder, InjectInOrder, FinallyInOrder, EscapeInOrder DEF T!Next

(* Every message typed in the terminal reaches the conversation once and   *)
(* in the order typed, or waits for it, unless one of the races            *)
(* TypedInOrder names has happened.                                        *)
THEOREM TypedMessagesInOrder == Spec => []TypedInOrder
<1>1. Init => TextInv
  <2>1. ASSUME Init
        PROVE  conv = <<>> /\ queue = <<>> /\ typed = 0 /\ runs = <<>>
    BY <2>1 DEF Init, T!Init
  <2>2. ASSUME conv = <<>>, queue = <<>>, typed = 0, runs = <<>>
        PROVE  TextInv
    <3>1. T!Starting = {}
      BY <2>2 DEF T!Starting, T!At
    <3>2. conv \o queue = Upto(typed)
      BY <2>2 DEF Upto
    <3> QED BY <2>2, <3>1, <3>2 DEF TextInv, InOrder
  <2> QED BY <2>1, <2>2
<1>2. TrackInv /\ TrackInv' /\ TextInv /\ [Next]_<<focus, tui, remote, headless>> => TextInv'
  <2>1. TextInv /\ UNCHANGED tui => TextInv'
    <3>1. UNCHANGED tui => UNCHANGED <<runs, conv, queue, typed, hurt, streaming>>
      BY DEF tui
    <3> QED BY <3>1 DEF TextInv, InOrder, T!Starting, T!At
  <2>2. [Next]_<<focus, tui, remote, headless>> => T!Next \/ UNCHANGED tui
    BY DEF Next
  <2> QED BY <2>1, <2>2, TextStep
<1>3. TextInv => TypedInOrder
  BY DEF TextInv, InOrder, Upto, TypedInOrder, T!TypedInOrder
<1> QED BY <1>1, <1>2, <1>3, TrackInvariance, PTL DEF Spec
=============================================================================
