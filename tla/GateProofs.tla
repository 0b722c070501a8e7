----------------------------- MODULE GateProofs -----------------------------
(***************************************************************************)
(* Proofs about the verification gate inside Agent.run: a run completes    *)
(* unverified only after a refusal, and "passed" rests on something that   *)
(* was observed.  The inductive invariant GateOK says what the refusal     *)
(* count means while an answer is on its way out.                          *)
(***************************************************************************)
EXTENDS AgentLoopProofs

(* The answer has been accepted, or the run has completed with it.         *)
Leaving == pc = "finish" \/ (pc = "turnend" /\ ~again) \/ outcome = "complete"

(* A refusal since the last write has warned the model, and an answer gets *)
(* past the gate only when it does not refuse any more.                    *)
GateOK ==
    /\ gate.blocks > 0 => warned
    /\ Leaving => ~Blocked(gate)
    /\ outcome = "complete" => pc = "idle"
    /\ PassedOnEvidence

(* Steps that neither touch the gate nor bring an answer on its way.       *)
LEMMA OnTheWay ==
    ASSUME GateOK, UNCHANGED gateVars, outcome' # "complete", pc' # "finish",
           pc' # "turnend" \/ again'
    PROVE  GateOK'
BY DEF GateOK, Leaving, gateVars, PassedOnEvidence, Unverified

(* Steps that change neither the gate nor the place of the coroutine.      *)
LEMMA OnTheSpot ==
    ASSUME GateOK, UNCHANGED <<pc, again, outcome, gate, warned, evidence>>
    PROVE  GateOK'
BY DEF GateOK, Leaving, PassedOnEvidence, Blocked, BlockLimit, Unverified

(* A running coroutine has not completed its run.                          *)
LEMMA NotComplete ==
    ASSUME GateOK, pc # "idle"
    PROVE  outcome # "complete"
BY DEF GateOK

(* What an observation makes of the gate and of the evidence.              *)
LEMMA ObservedGate ==
    ASSUME gate \in Gate, GateOK, ObserveResult
    PROVE  GateOK'
<1> DEFINE kind == resp.calls[next]
           value == results[next]
<1>1. pc = "observe" /\ pc' = pc /\ outcome' = outcome /\ outcome # "complete"
  BY NotComplete DEF ObserveResult
<1>2. gate' = Observe(gate, kind, value) /\ evidence' = Evidence(kind, value)
  BY Zenon DEF ObserveResult
<1>3. warned' = (warned /\ ~(kind = "write" /\ value # "error"))
  BY Zenon DEF ObserveResult
<1>4. gate.blocks \in Nat
  BY DEF Gate
<1> HIDE DEF kind, value
<1>5. CASE kind = "write" /\ value # "error"
  <2>1. gate'.blocks = 0 /\ (gate'.status = "passed" => value = "clean")
    BY <1>2, <1>5 DEF Observe, ObserveWrite
  <2>2. value = "clean" => evidence' = "good"
    BY <1>2, <1>5 DEF Evidence
  <2> QED BY <1>1, <2>1, <2>2 DEF GateOK, Leaving, PassedOnEvidence
<1>6. CASE kind = "check"
  <2>1. warned => warned'
    BY <1>3, <1>6
  <2>2. CASE value \in {"ok", "background"}
    <3>1. gate'.blocks = 0
      BY <1>2, <1>6, <2>2 DEF Observe, ObserveCheck, Gate
    <3>2. evidence' # "none"
      BY <1>2, <1>6, <2>2 DEF Evidence
    <3> QED BY <1>1, <3>1, <3>2 DEF GateOK, Leaving, PassedOnEvidence
  <2>3. CASE value \notin {"ok", "background"}
    <3>1. gate'.blocks = gate.blocks /\ gate'.status = "failed"
      BY <1>2, <1>6, <2>3 DEF Observe, ObserveCheck, Gate
    <3> QED BY <1>1, <2>1, <3>1 DEF GateOK, Leaving, PassedOnEvidence
  <2> QED BY <2>2, <2>3
<1>7. CASE kind # "check" /\ (kind = "write" => value = "error")
  <2>1. gate' = gate
    BY <1>2, <1>7 DEF Observe, ObserveWrite
  <2>2. evidence' = evidence
    BY <1>2, <1>7 DEF Evidence
  <2>3. warned => warned'
    BY <1>3, <1>7
  <2> QED BY <1>1, <2>1, <2>2, <2>3 DEF GateOK, Leaving, PassedOnEvidence
<1> QED BY <1>5, <1>6, <1>7

(* A new message starts a task: the refusals of the last one are forgotten *)
(* and its verdict is kept only if it is bad.                              *)
LEMMA StartedGate ==
    ASSUME gate \in Gate, GateOK, Start
    PROVE  GateOK'
<1>1. pc' = "top" /\ outcome' = "none" /\ gate' = StartTask(gate)
  BY DEF Start
<1>2. gate'.blocks = 0 /\ gate'.status # "passed"
  BY <1>1 DEF StartTask, NewGate, Unverified, Gate
<1> QED BY <1>1, <1>2 DEF GateOK, Leaving, PassedOnEvidence

(* A waiver, given while a batch runs, forgets the refusals.               *)
LEMMA WaivedGate ==
    ASSUME gate \in Gate, GateOK, FinishCall
    PROVE  GateOK'
<1>1. pc = "tools" /\ UNCHANGED <<pc, again, outcome, warned, evidence>>
  BY DEF FinishCall, Finished
<1>2. PICK value : gate' = gate \/ gate' = Waive(gate, value)
  BY DEF FinishCall
<1>3. CASE gate' = gate
  BY <1>1, <1>3, OnTheSpot
<1>4. CASE gate' = Waive(gate, value) /\ gate' # gate
  <2>1. gate'.blocks = 0 /\ gate'.status = "waived"
    BY <1>4 DEF Waive, Gate
  <2> QED BY <1>1, <2>1, NotComplete DEF GateOK, Leaving, PassedOnEvidence
<1> QED BY <1>2, <1>3, <1>4

(* A refusal warns the model.                                              *)
LEMMA RefusedGate ==
    ASSUME gate \in Gate, GateOK, AnswerRefused
    PROVE  GateOK'
<1>1. /\ pc # "idle" /\ pc' = "top" /\ outcome' = outcome /\ warned' = TRUE
      /\ evidence' = evidence /\ gate' = Refuse(gate)
  BY DEF AnswerRefused, Usable
<1>2. gate'.status = gate.status
  BY <1>1 DEF Refuse, Gate
<1> QED BY <1>1, <1>2, NotComplete DEF GateOK, Leaving, PassedOnEvidence

(* What is accepted has passed the gate.                                   *)
LEMMA AcceptedGate ==
    ASSUME GateOK, AnswerAccepted
    PROVE  GateOK'
<1>1. pc # "idle" /\ pc' = "finish" /\ ~Blocked(gate)
  BY DEF AnswerAccepted, Usable
<1>2. UNCHANGED <<outcome, gate, warned, evidence>>
  BY DEF AnswerAccepted, gateVars
<1>3. outcome # "complete"
  BY <1>1, NotComplete
<1> QED BY <1>1, <1>2, <1>3 DEF GateOK, Leaving, PassedOnEvidence, Blocked, BlockLimit, Unverified

(* Every step of the loop preserves GateOK, in the order of AgentLoop.     *)
LEMMA GateOKStep ==
    ASSUME gate \in Gate, GateOK, [Next]_vars
    PROVE  GateOK'
<1>1. ASSUME Start PROVE GateOK'
  BY <1>1, StartedGate
<1>2. ASSUME QueueUserMessage PROVE GateOK'
  BY <1>2, OnTheSpot DEF QueueUserMessage, gateVars
<1>3. ASSUME Cancel PROVE GateOK'
  BY <1>3, OnTheWay DEF Cancel, EndRun
<1>4. ASSUME Expire PROVE GateOK'
  BY <1>4, OnTheSpot DEF Expire, gateVars
<1>5. ASSUME OrphanEnds PROVE GateOK'
  BY <1>5, OnTheSpot DEF OrphanEnds, gateVars
<1>6. ASSUME TimesOut PROVE GateOK'
  BY <1>6, OnTheWay DEF TimesOut, EndRun
<1>7. ASSUME TopLimit PROVE GateOK'
  BY <1>7, OnTheWay DEF TopLimit, EndRun
<1>8. ASSUME TopProceed PROVE GateOK'
  BY <1>8, OnTheWay, NotComplete DEF TopProceed
<1>9. ASSUME PreSend PROVE GateOK'
  BY <1>9, OnTheWay, NotComplete DEF PreSend
<1>10. ASSUME StreamEvent PROVE GateOK'
  BY <1>10, OnTheSpot DEF StreamEvent, gateVars
<1>11. ASSUME TransientError PROVE GateOK'
  BY <1>11, OnTheWay, NotComplete DEF TransientError
<1>12. ASSUME Resend PROVE GateOK'
  BY <1>12, OnTheWay, NotComplete DEF Resend
<1>13. ASSUME Overflow PROVE GateOK'
  BY <1>13, OnTheWay, NotComplete DEF Overflow
<1>14. ASSUME Recovered PROVE GateOK'
  BY <1>14, OnTheWay, NotComplete DEF Recovered
<1>15. ASSUME RequestFails PROVE GateOK'
  BY <1>15, OnTheWay DEF RequestFails, EndRun
<1>16. ASSUME Receive PROVE GateOK'
  BY <1>16, OnTheWay, NotComplete DEF Receive
<1>17. ASSUME OverLimit PROVE GateOK'
  BY <1>17, OnTheWay DEF OverLimit, EndRun
<1>18. ASSUME Escalate PROVE GateOK'
  BY <1>18, OnTheWay, NotComplete DEF Escalate
<1>19. ASSUME RecoverOutput PROVE GateOK'
  BY <1>19, OnTheWay, NotComplete DEF RecoverOutput
<1>20. ASSUME Rejected PROVE GateOK'
  BY <1>20, OnTheWay DEF Rejected, EndRun
<1>21. ASSUME AnswerRefused PROVE GateOK'
  BY <1>21, RefusedGate
<1>22. ASSUME AnswerAccepted PROVE GateOK'
  BY <1>22, AcceptedGate
<1>23. ASSUME Finish PROVE GateOK'
  <2>1. pc = "finish" /\ pc' = "turnend" /\ UNCHANGED <<outcome, gate, warned, evidence>>
    BY <1>23 DEF Finish, gateVars
  <2> QED
    BY <2>1, NotComplete
       DEF GateOK, Leaving, PassedOnEvidence, Blocked, BlockLimit, Unverified
<1>24. ASSUME NextTurn PROVE GateOK'
  BY <1>24, OnTheWay, NotComplete DEF NextTurn
<1>25. ASSUME Complete PROVE GateOK'
  <2>1. pc = "turnend" /\ ~again /\ pc' = "idle" /\ UNCHANGED <<gate, warned, evidence>>
    BY <1>25 DEF Complete, EndRun, gateVars
  <2> QED BY <2>1 DEF GateOK, Leaving, PassedOnEvidence, Blocked, BlockLimit, Unverified
<1>26. ASSUME CallTools PROVE GateOK'
  BY <1>26, OnTheWay, NotComplete DEF CallTools, Usable
<1>27. ASSUME StartBatch PROVE GateOK'
  BY <1>27, OnTheSpot DEF StartBatch, gateVars
<1>28. ASSUME SkipCall PROVE GateOK'
  BY <1>28, OnTheWay, NotComplete DEF SkipCall, AtSerial, NotRun
<1>29. ASSUME Ask PROVE GateOK'
  BY <1>29, OnTheWay, NotComplete DEF Ask
<1>30. ASSUME Deny PROVE GateOK'
  BY <1>30, OnTheWay, NotComplete DEF Deny, AtSerial, NotRun
<1>31. ASSUME StartCall PROVE GateOK'
  BY <1>31, OnTheWay, NotComplete DEF StartCall, AtSerial
<1>32. ASSUME FinishCall PROVE GateOK'
  BY <1>32, WaivedGate
<1>33. ASSUME InterruptCall PROVE GateOK'
  BY <1>33, OnTheSpot DEF InterruptCall, Finished
<1>34. ASSUME ExpireCall PROVE GateOK'
  BY <1>34, OnTheSpot DEF ExpireCall, Finished
<1>35. ASSUME ToolsDone PROVE GateOK'
  BY <1>35, OnTheWay, NotComplete DEF ToolsDone
<1>36. ASSUME ObserveResult PROVE GateOK'
  BY <1>36, ObservedGate
<1>37. ASSUME TooManyUnknown PROVE GateOK'
  BY <1>37, OnTheWay DEF TooManyUnknown, EndRun
<1>38. ASSUME RecordResults PROVE GateOK'
  BY <1>38, OnTheWay, NotComplete DEF RecordResults, Observed
<1>39. ASSUME ExitPlanMode PROVE GateOK'
  BY <1>39, OnTheWay DEF ExitPlanMode, EndRun
<1>40. ASSUME UNCHANGED vars PROVE GateOK'
  BY <1>40, OnTheSpot DEF vars, gateVars
<1> QED
  BY <1>1, <1>2, <1>3, <1>4, <1>5, <1>6, <1>7, <1>8, <1>9, <1>10, <1>11, <1>12, <1>13,
     <1>14, <1>15, <1>16, <1>17, <1>18, <1>19, <1>20, <1>21, <1>22, <1>23, <1>24, <1>25,
     <1>26, <1>27, <1>28, <1>29, <1>30, <1>31, <1>32, <1>33, <1>34, <1>35, <1>36,
     <1>37, <1>38, <1>39, <1>40
     DEF Next, Step, Surroundings

(* A modified task that is reported complete while it is unverified was    *)
(* refused at least once since its last write, if refusals are allowed at  *)
(* all, or was ended by ExitPlanMode, which asks no gate.                  *)
THEOREM WarnedFirst ==
    ASSUME MaxPendingBlocks > 0, MaxFailedBlocks > 0
    PROVE  Spec => []WarnedBeforeFinish
<1>1. Init => GateOK
  BY DEF Init, GateOK, Leaving, NewGate, PassedOnEvidence
<1>2. TypeOK /\ GateOK /\ [Next]_vars => GateOK'
  BY GateOKStep DEF TypeOK
<1>3. TypeOK /\ GateOK => WarnedBeforeFinish
  BY BlocksAssumption
     DEF TypeOK, Gate, GateOK, Leaving, Blocked, BlockLimit, Completed, WarnedBeforeFinish
<1> QED BY <1>1, <1>2, <1>3, TypeCorrect, PTL DEF Spec

(* The status "passed" of the gate rests on a check or on clean            *)
(* diagnostics observed since the last write.                              *)
THEOREM PassedRestsOnEvidence == Spec => []PassedOnEvidence
<1>1. Init => GateOK
  BY DEF Init, GateOK, Leaving, NewGate, PassedOnEvidence
<1>2. TypeOK /\ GateOK /\ [Next]_vars => GateOK'
  BY GateOKStep DEF TypeOK
<1>3. GateOK => PassedOnEvidence
  BY DEF GateOK
<1> QED BY <1>1, <1>2, <1>3, TypeCorrect, PTL DEF Spec
=============================================================================
