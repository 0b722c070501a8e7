--------------------------- MODULE AgentLoopProofs ---------------------------
(***************************************************************************)
(* Proofs about AgentLoop, for all values of its constants.  The inductive *)
(* invariant IInv is preserved part by part: the types (FlagsStep,         *)
(* RunStep, ToolsTypeStep, GateStep), the batch bookkeeping (ToolsStep),   *)
(* the pairing of the conversation (ConvStep) and what has been shown      *)
(* (ShownStep).  Each of these lemmas has one case per action of Next, in  *)
(* the order in which AgentLoop defines them.                              *)
(***************************************************************************)
EXTENDS AgentLoop, TLAPS

(* A message that neither makes nor answers tool calls.                    *)
Plain(m) == m.kind # "tool" /\ (m.kind = "assistant" => m.ids = {})

(* Appending messages without tool calls or results keeps a conversation   *)
(* paired.                                                                 *)
LEMMA PlainKeepsPaired ==
    ASSUME NEW c \in Seq(Message), NEW q \in Seq(Message), NEW ids,
           Paired(c, ids, FALSE), \A i \in 1..Len(q) : Plain(q[i])
    PROVE  Paired(c \o q, ids, FALSE)
<1> DEFINE d == c \o q
<1>1. Len(d) = Len(c) + Len(q) /\ d \in Seq(Message)
  OBVIOUS
<1>2. \A i \in 1..Len(c) : d[i] = c[i]
  OBVIOUS
<1>3. \A i \in 1..Len(q) : d[Len(c) + i] = q[i]
  OBVIOUS
<1>4. \A i \in 1..Len(d) : i \in 1..Len(c) \/ (i - Len(c) \in 1..Len(q) /\ d[i] = q[i - Len(c)])
  BY <1>1, <1>3
<1> HIDE DEF d
<1>5. ASSUME NEW i \in 1..Len(d), d[i].kind = "assistant", d[i].ids # {}
      PROVE  Answered(d, i) \/ d[i].ids \subseteq ids
  <2>1. i \in 1..Len(c)
    BY <1>4, <1>5 DEF Plain
  <2>2. Answered(c, i) \/ c[i].ids \subseteq ids
    BY <2>1, <1>2, <1>5 DEF Paired
  <2> QED BY <2>1, <2>2, <1>1, <1>2 DEF Answered
<1>6. ASSUME NEW i \in 1..Len(d), d[i].kind = "tool"
      PROVE  /\ d[i].ids # {}
             /\ i > 1 /\ d[i - 1].kind = "assistant" /\ d[i - 1].ids = d[i].ids
  <2>1. i \in 1..Len(c)
    BY <1>4, <1>6 DEF Plain
  <2> QED BY <2>1, <1>2, <1>6 DEF Paired
<1> QED BY <1>5, <1>6 DEF Paired, d

(* Appending the calls of a response leaves only that last message open.   *)
LEMMA CallsOpenTail ==
    ASSUME NEW c \in Seq(Message), NEW ids, NEW new \in SUBSET Nat, Paired(c, ids, FALSE)
    PROVE  /\ Paired(Append(c, Assistant(new)), ids, TRUE)
           /\ Append(c, Assistant(new)) \in Seq(Message)
           /\ Append(c, Assistant(new))[Len(c) + 1] = Assistant(new)
<1> DEFINE d == Append(c, Assistant(new))
<1>1. Assistant(new) \in Message
  BY DEF Assistant, Message
<1>2. d \in Seq(Message) /\ Len(d) = Len(c) + 1 /\ d[Len(c) + 1] = Assistant(new)
  BY <1>1
<1>3. \A i \in 1..Len(c) : d[i] = c[i]
  OBVIOUS
<1> HIDE DEF d
<1>4. ASSUME NEW i \in 1..Len(d), i # Len(d)
      PROVE  i \in 1..Len(c)
  BY <1>2, <1>4
<1>5. ASSUME NEW i \in 1..Len(d), d[i].kind = "assistant", d[i].ids # {}
      PROVE  Answered(d, i) \/ d[i].ids \subseteq ids \/ i = Len(d)
  BY <1>2, <1>3, <1>4, <1>5 DEF Paired, Answered
<1>6. ASSUME NEW i \in 1..Len(d), d[i].kind = "tool"
      PROVE  /\ d[i].ids # {}
             /\ i > 1 /\ d[i - 1].kind = "assistant" /\ d[i - 1].ids = d[i].ids
  <2>1. i \in 1..Len(c)
    BY <1>2, <1>4, <1>6 DEF Assistant
  <2> QED BY <2>1, <1>3, <1>6 DEF Paired
<1> QED BY <1>2, <1>5, <1>6 DEF Paired, d

(* Appending the results of the open calls closes the conversation again.  *)
LEMMA ResultsCloseTail ==
    ASSUME NEW c \in Seq(Message), NEW ids, NEW new \in SUBSET Nat, Paired(c, ids, TRUE),
           new # {}, Len(c) > 0, c[Len(c)] = Assistant(new)
    PROVE  /\ Paired(Append(c, ToolResults(new)), ids, FALSE)
           /\ Append(c, ToolResults(new)) \in Seq(Message)
<1> DEFINE d == Append(c, ToolResults(new))
<1>1. ToolResults(new) \in Message
  BY DEF ToolResults, Message
<1>2. d \in Seq(Message) /\ Len(d) = Len(c) + 1 /\ d[Len(c) + 1] = ToolResults(new)
  BY <1>1
<1>3. \A i \in 1..Len(c) : d[i] = c[i]
  OBVIOUS
<1> HIDE DEF d
<1>4. ASSUME NEW i \in 1..Len(d), d[i].kind = "assistant", d[i].ids # {}
      PROVE  Answered(d, i) \/ d[i].ids \subseteq ids
  <2>1. i \in 1..Len(c)
    BY <1>2, <1>4 DEF ToolResults
  <2>2. CASE i = Len(c)
    BY <2>2, <1>2, <1>3 DEF Answered, Assistant, ToolResults
  <2>3. CASE i # Len(c)
    BY <2>1, <2>3, <1>2, <1>3, <1>4 DEF Answered, Paired
  <2> QED BY <2>2, <2>3
<1>5. ASSUME NEW i \in 1..Len(d), d[i].kind = "tool"
      PROVE  /\ d[i].ids # {}
             /\ i > 1 /\ d[i - 1].kind = "assistant" /\ d[i - 1].ids = d[i].ids
  <2>1. CASE i = Len(d)
    BY <2>1, <1>2, <1>3 DEF Assistant, ToolResults
  <2>2. CASE i # Len(d)
    <3>1. i \in 1..Len(c)
      BY <2>2, <1>2
    <3> QED BY <3>1, <1>3, <1>5 DEF Paired
  <2> QED BY <2>1, <2>2
<1> QED BY <1>2, <1>4, <1>5 DEF Paired, d

(* A compaction keeps the conversation paired: the kept tail never starts  *)
(* with results, because the cut is moved in front of their calls.         *)
LEMMA CompactionKeepsPaired ==
    ASSUME NEW c \in Seq(Message), NEW ids, Paired(c, ids, FALSE), NEW d \in Compactions(c)
    PROVE  Paired(d, ids, FALSE) /\ d \in Seq(Message)
<1>1. PICK k \in 2..Len(c) : Align(c, k) > 1 /\ d = CompactAt(c, Align(c, k))
  BY DEF Compactions
<1> DEFINE a == Align(c, k)
<1>2. a \in 2..Len(c) /\ (a = k \/ a = k - 1)
  BY <1>1 DEF Align
<1>3. c[a].kind # "tool"
  <2>1. CASE c[k].kind = "tool"
    <3>1. c[k - 1].ids # {} /\ c[k - 1].kind = "assistant"
      BY <2>1 DEF Paired
    <3> QED BY <3>1, <2>1 DEF Align
  <2>2. CASE c[k].kind # "tool"
    BY <2>2 DEF Align
  <2> QED BY <2>1, <2>2
<1> DEFINE s == Summary(UNION {c[i].msgs : i \in 1..(a - 1)})
           t == SubSeq(c, a, Len(c))
<1>4. d = <<s>> \o t
  BY <1>1 DEF CompactAt
<1> HIDE DEF a
<1>5. t \in Seq(Message) /\ Len(t) = Len(c) - a + 1
  BY <1>2
<1>6. \A i \in 1..Len(t) : t[i] = c[a + i - 1]
  BY <1>2
<1>7. s \in Message
  <2>1. \A i \in 1..Len(c) : c[i].msgs \subseteq Nat
    <3> TAKE i \in 1..Len(c)
    <3>1. c[i] \in Message
      OBVIOUS
    <3> QED BY <3>1 DEF Message
  <2>2. UNION {c[i].msgs : i \in 1..(a - 1)} \subseteq Nat
    BY <2>1, <1>2
  <2> QED BY <2>2 DEF Summary, Message
<1>8. s.kind = "summary"
  BY DEF Summary
<1> HIDE DEF s, t
<1>9. d \in Seq(Message) /\ Len(d) = Len(t) + 1 /\ d[1] = s
  BY <1>4, <1>5, <1>7
<1>10. \A i \in 1..Len(t) : d[i + 1] = t[i]
  BY <1>4, <1>5, <1>7
<1>11. \A i \in 2..Len(d) : i + a - 2 \in 1..Len(c) /\ d[i] = c[i + a - 2]
  <2> TAKE i \in 2..Len(d)
  <2>1. i - 1 \in 1..Len(t)
    BY <1>9, <1>5, <1>2
  <2>2. d[(i - 1) + 1] = t[i - 1] /\ t[i - 1] = c[a + (i - 1) - 1]
    BY <2>1, <1>6, <1>10
  <2>3. (i - 1) + 1 = i /\ a + (i - 1) - 1 = i + a - 2 /\ i + a - 2 \in 1..Len(c)
    BY <2>1, <1>2, <1>5
  <2> QED BY <2>2, <2>3
<1>12. ASSUME NEW i \in 1..Len(d), d[i].kind = "assistant", d[i].ids # {}
       PROVE  Answered(d, i) \/ d[i].ids \subseteq ids
  <2>1. i \in 2..Len(d)
    BY <1>8, <1>9, <1>12
  <2> DEFINE j == i + a - 2
  <2>2. j \in 1..Len(c) /\ d[i] = c[j]
    BY <2>1, <1>11
  <2>3. Answered(c, j) \/ c[j].ids \subseteq ids
    BY <2>2, <1>12 DEF Paired
  <2>4. ASSUME Answered(c, j) PROVE Answered(d, i)
    <3>1. i + 1 \in 2..Len(d)
      BY <2>4, <2>1, <2>2, <1>9, <1>5, <1>2 DEF Answered
    <3>2. d[i + 1] = c[j + 1]
      BY <3>1, <1>11, <1>2, <2>1
    <3> QED BY <3>1, <3>2, <2>2, <2>4 DEF Answered
  <2> QED BY <2>2, <2>3, <2>4
<1>13. ASSUME NEW i \in 1..Len(d), d[i].kind = "tool"
       PROVE  /\ d[i].ids # {}
              /\ i > 1 /\ d[i - 1].kind = "assistant" /\ d[i - 1].ids = d[i].ids
  <2>1. i \in 2..Len(d)
    BY <1>8, <1>9, <1>13
  <2>2. i + a - 2 \in 1..Len(c) /\ d[i] = c[i + a - 2]
    BY <2>1, <1>11
  <2>3. i # 2
    BY <2>2, <1>3, <1>13, <1>2
  <2>4. d[i - 1] = c[(i + a - 2) - 1]
    BY <2>1, <2>3, <1>11, <1>2
  <2> QED BY <2>1, <2>2, <2>4, <1>13 DEF Paired
<1> QED BY <1>9, <1>12, <1>13 DEF Paired

(* Giving up the open calls closes the conversation, at the price of their *)
(* ids.                                                                    *)
LEMMA AbandonedClosesTail ==
    ASSUME NEW c \in Seq(Message), NEW ids, NEW more, NEW open \in BOOLEAN,
           Paired(c, ids, open), open => Len(c) > 0 /\ c[Len(c)].ids \subseteq more
    PROVE  Paired(c, ids \cup more, FALSE)
BY DEF Paired

(* No step puts anything but a Boolean into a flag; one case per action.   *)
LEMMA FlagsStep ==
    ASSUME FlagsTyped, [Next]_vars
    PROVE  FlagsTyped'
<1> USE DEF FlagsTyped, inputVars, loopVars, requestVars, toolVars, gateVars
<1>1. ASSUME Start PROVE FlagsTyped'
  BY <1>1, Zenon DEF Start
<1>2. ASSUME QueueUserMessage PROVE FlagsTyped'
  BY <1>2, Zenon DEF QueueUserMessage
<1>3. ASSUME Cancel PROVE FlagsTyped'
  BY <1>3, Zenon DEF Cancel, EndRun
<1>4. ASSUME Expire PROVE FlagsTyped'
  BY <1>4, Zenon DEF Expire
<1>5. ASSUME OrphanEnds PROVE FlagsTyped'
  BY <1>5, Zenon DEF OrphanEnds
<1>6. ASSUME TimesOut PROVE FlagsTyped'
  BY <1>6, Zenon DEF TimesOut, EndRun
<1>7. ASSUME TopLimit PROVE FlagsTyped'
  BY <1>7, Zenon DEF TopLimit, EndRun
<1>8. ASSUME TopProceed PROVE FlagsTyped'
  BY <1>8, Zenon DEF TopProceed, InjectQueue
<1>9. ASSUME PreSend PROVE FlagsTyped'
  BY <1>9, Zenon DEF PreSend
<1>10. ASSUME StreamEvent PROVE FlagsTyped'
  BY <1>10, Zenon DEF StreamEvent
<1>11. ASSUME TransientError PROVE FlagsTyped'
  BY <1>11, Zenon DEF TransientError
<1>12. ASSUME Resend PROVE FlagsTyped'
  BY <1>12, Zenon DEF Resend
<1>13. ASSUME Overflow PROVE FlagsTyped'
  BY <1>13, Zenon DEF Overflow
<1>14. ASSUME Recovered PROVE FlagsTyped'
  BY <1>14, Zenon DEF Recovered
<1>15. ASSUME RequestFails PROVE FlagsTyped'
  BY <1>15, Zenon DEF RequestFails, EndRun
<1>16. ASSUME Receive PROVE FlagsTyped'
  BY <1>16, Zenon DEF Receive
<1>17. ASSUME OverLimit PROVE FlagsTyped'
  BY <1>17, Zenon DEF OverLimit, EndRun
<1>18. ASSUME Escalate PROVE FlagsTyped'
  BY <1>18, Zenon DEF Escalate
<1>19. ASSUME RecoverOutput PROVE FlagsTyped'
  BY <1>19, Zenon DEF RecoverOutput
<1>20. ASSUME Rejected PROVE FlagsTyped'
  BY <1>20, Zenon DEF Rejected, EndRun
<1>21. ASSUME AnswerRefused PROVE FlagsTyped'
  BY <1>21, Zenon DEF AnswerRefused
<1>22. ASSUME AnswerAccepted PROVE FlagsTyped'
  BY <1>22, Zenon DEF AnswerAccepted
<1>23. ASSUME Finish PROVE FlagsTyped'
  BY <1>23, Zenon DEF Finish, InjectQueue, MoreQueued
<1>24. ASSUME NextTurn PROVE FlagsTyped'
  BY <1>24, Zenon DEF NextTurn
<1>25. ASSUME Complete PROVE FlagsTyped'
  BY <1>25, Zenon DEF Complete, EndRun
<1>26. ASSUME CallTools PROVE FlagsTyped'
  BY <1>26, Zenon DEF CallTools
<1>27. ASSUME StartBatch PROVE FlagsTyped'
  BY <1>27, Zenon DEF StartBatch
<1>28. ASSUME SkipCall PROVE FlagsTyped'
  BY <1>28, Zenon DEF SkipCall, NotRun
<1>29. ASSUME Ask PROVE FlagsTyped'
  BY <1>29, Zenon DEF Ask
<1>30. ASSUME Deny PROVE FlagsTyped'
  BY <1>30, Zenon DEF Deny, NotRun
<1>31. ASSUME StartCall PROVE FlagsTyped'
  BY <1>31, Zenon DEF StartCall
<1>32. ASSUME FinishCall PROVE FlagsTyped'
  BY <1>32, Zenon DEF FinishCall, Finished
<1>33. ASSUME InterruptCall PROVE FlagsTyped'
  BY <1>33, Zenon DEF InterruptCall, Finished
<1>34. ASSUME ExpireCall PROVE FlagsTyped'
  BY <1>34, Zenon DEF ExpireCall, Finished
<1>35. ASSUME ToolsDone PROVE FlagsTyped'
  BY <1>35, Zenon DEF ToolsDone
<1>36. ASSUME ObserveResult PROVE FlagsTyped'
  BY <1>36, Zenon DEF ObserveResult
<1>37. ASSUME TooManyUnknown PROVE FlagsTyped'
  BY <1>37, Zenon DEF TooManyUnknown, EndRun
<1>38. ASSUME RecordResults PROVE FlagsTyped'
  BY <1>38, Zenon DEF RecordResults, InjectQueue
<1>39. ASSUME ExitPlanMode PROVE FlagsTyped'
  BY <1>39, Zenon DEF ExitPlanMode, InjectQueue, EndRun
<1>40. ASSUME UNCHANGED vars PROVE FlagsTyped'
  BY <1>40, Zenon DEF vars
<1> QED
  BY <1>1, <1>2, <1>3, <1>4, <1>5, <1>6, <1>7, <1>8, <1>9, <1>10, <1>11, <1>12,
     <1>13, <1>14, <1>15, <1>16, <1>17, <1>18, <1>19, <1>20, <1>21, <1>22, <1>23, <1>24,
     <1>25, <1>26, <1>27, <1>28, <1>29, <1>30, <1>31, <1>32, <1>33, <1>34, <1>35,
     <1>36, <1>37, <1>38, <1>39, <1>40, Zenon
     DEF Next, Step, Surroundings

(* The response a run starts and ends with is a response.                  *)
LEMMA EmptyResponse == NoResponse \in Response
<1>1. <<>> \in Seq(Kinds)
  OBVIOUS
<1> QED BY <1>1 DEF NoResponse, Response, Stops

(* The counters and control variables of run() keep their types; one case  *)
(* per action.                                                             *)
LEMMA RunStep ==
    ASSUME RunTyped, [Next]_vars
    PROVE  RunTyped'
<1> USE LoopAssumption, EmptyResponse DEF RunTyped, inputVars, loopVars, requestVars, toolVars, gateVars
<1>1. ASSUME Start PROVE RunTyped'
  BY <1>1 DEF Start
<1>2. ASSUME QueueUserMessage PROVE RunTyped'
  BY <1>2 DEF QueueUserMessage
<1>3. ASSUME Cancel PROVE RunTyped'
  BY <1>3 DEF Cancel, EndRun
<1>4. ASSUME Expire PROVE RunTyped'
  BY <1>4 DEF Expire
<1>5. ASSUME OrphanEnds PROVE RunTyped'
  BY <1>5 DEF OrphanEnds
<1>6. ASSUME TimesOut PROVE RunTyped'
  BY <1>6 DEF TimesOut, EndRun
<1>7. ASSUME TopLimit PROVE RunTyped'
  BY <1>7 DEF TopLimit, EndRun
<1>8. ASSUME TopProceed PROVE RunTyped'
  BY <1>8 DEF TopProceed, InjectQueue
<1>9. ASSUME PreSend PROVE RunTyped'
  BY <1>9 DEF PreSend
<1>10. ASSUME StreamEvent PROVE RunTyped'
  BY <1>10 DEF StreamEvent
<1>11. ASSUME TransientError PROVE RunTyped'
  BY <1>11 DEF TransientError, MayRetry
<1>12. ASSUME Resend PROVE RunTyped'
  BY <1>12 DEF Resend
<1>13. ASSUME Overflow PROVE RunTyped'
  BY <1>13 DEF Overflow
<1>14. ASSUME Recovered PROVE RunTyped'
  BY <1>14 DEF Recovered
<1>15. ASSUME RequestFails PROVE RunTyped'
  BY <1>15 DEF RequestFails, EndRun
<1>16. ASSUME Receive PROVE RunTyped'
  BY <1>16 DEF Receive
<1>17. ASSUME OverLimit PROVE RunTyped'
  BY <1>17 DEF OverLimit, EndRun
<1>18. ASSUME Escalate PROVE RunTyped'
  BY <1>18 DEF Escalate
<1>19. ASSUME RecoverOutput PROVE RunTyped'
  BY <1>19 DEF RecoverOutput
<1>20. ASSUME Rejected PROVE RunTyped'
  BY <1>20 DEF Rejected, EndRun
<1>21. ASSUME AnswerRefused PROVE RunTyped'
  BY <1>21 DEF AnswerRefused
<1>22. ASSUME AnswerAccepted PROVE RunTyped'
  BY <1>22 DEF AnswerAccepted
<1>23. ASSUME Finish PROVE RunTyped'
  BY <1>23 DEF Finish, InjectQueue, MoreQueued
<1>24. ASSUME NextTurn PROVE RunTyped'
  BY <1>24 DEF NextTurn
<1>25. ASSUME Complete PROVE RunTyped'
  BY <1>25 DEF Complete, EndRun
<1>26. ASSUME CallTools PROVE RunTyped'
  BY <1>26 DEF CallTools, Usable, Response
<1>27. ASSUME StartBatch PROVE RunTyped'
  BY <1>27 DEF StartBatch
<1>28. ASSUME SkipCall PROVE RunTyped'
  BY <1>28 DEF SkipCall, NotRun
<1>29. ASSUME Ask PROVE RunTyped'
  BY <1>29 DEF Ask
<1>30. ASSUME Deny PROVE RunTyped'
  BY <1>30 DEF Deny, NotRun
<1>31. ASSUME StartCall PROVE RunTyped'
  BY <1>31 DEF StartCall
<1>32. ASSUME FinishCall PROVE RunTyped'
  BY <1>32 DEF FinishCall, Finished
<1>33. ASSUME InterruptCall PROVE RunTyped'
  BY <1>33 DEF InterruptCall, Finished
<1>34. ASSUME ExpireCall PROVE RunTyped'
  BY <1>34 DEF ExpireCall, Finished
<1>35. ASSUME ToolsDone PROVE RunTyped'
  BY <1>35 DEF ToolsDone
<1>36. ASSUME ObserveResult PROVE RunTyped'
  BY <1>36, SMTT(40) DEF ObserveResult, CountUnknown, Evidence
<1>37. ASSUME TooManyUnknown PROVE RunTyped'
  BY <1>37 DEF TooManyUnknown, EndRun
<1>38. ASSUME RecordResults PROVE RunTyped'
  BY <1>38 DEF RecordResults, InjectQueue
<1>39. ASSUME ExitPlanMode PROVE RunTyped'
  BY <1>39 DEF ExitPlanMode, InjectQueue, EndRun
<1>40. ASSUME UNCHANGED vars PROVE RunTyped'
  BY <1>40 DEF vars
<1> QED
  BY <1>1, <1>2, <1>3, <1>4, <1>5, <1>6, <1>7, <1>8, <1>9, <1>10, <1>11, <1>12,
     <1>13, <1>14, <1>15, <1>16, <1>17, <1>18, <1>19, <1>20, <1>21, <1>22, <1>23, <1>24,
     <1>25, <1>26, <1>27, <1>28, <1>29, <1>30, <1>31, <1>32, <1>33, <1>34, <1>35,
     <1>36, <1>37, <1>38, <1>39, <1>40
     DEF Next, Step, Surroundings

(* Setting one result leaves the others and their number alone.            *)
LEMMA ReplacedResult ==
    ASSUME NEW s \in Seq(Results), NEW i, NEW v \in Results
    PROVE  /\ [s EXCEPT ![i] = v] \in Seq(Results)
           /\ Len([s EXCEPT ![i] = v]) = Len(s)
           /\ \A j \in 1..Len(s) : [s EXCEPT ![i] = v][j] = IF j = i THEN v ELSE s[j]
<1>1. s \in [1..Len(s) -> Results] /\ Len(s) \in Nat
  OBVIOUS
<1> DEFINE t == [s EXCEPT ![i] = v]
<1>2. t \in [1..Len(s) -> Results]
  BY <1>1, Zenon
<1>3. t \in Seq(Results)
  BY <1>1, <1>2
<1>4. Len(t) = Len(s)
  <2>1. DOMAIN t = 1..Len(s)
    BY <1>2
  <2>2. DOMAIN t = 1..Len(t)
    BY <1>3
  <2> QED BY <2>1, <2>2, <1>3, <1>1
<1>5. \A j \in 1..Len(s) : t[j] = IF j = i THEN v ELSE s[j]
  BY <1>1
<1> QED BY <1>3, <1>4, <1>5

(* The values of calls that did not run are results.                       *)
LEMMA ErrorTyped == {"error", "unknown"} \subseteq Results
BY DEF Results

(* The tool calls of the current response are a sequence of kinds.         *)
LEMMA CallsTyped ==
    ASSUME RunTyped
    PROVE  resp.calls \in Seq(Kinds)
BY DEF RunTyped, Response

(* While tools run, the ids of the current calls are numbers.              *)
LEMMA IdsTyped ==
    ASSUME RunTyped, ToolsOK, pc \in ToolPcs, NEW I, I \subseteq 1..Len(resp.calls)
    PROVE  CallIds(I) \subseteq Nat /\ Survivors(I) \subseteq Nat \X Kinds
<1>1. resp.calls \in Seq(Kinds) /\ Len(resp.calls) <= calls /\ calls \in Nat
  BY CallsTyped DEF ToolsOK, RunTyped
<1>2. \A i \in I : CallId(i) \in Nat /\ resp.calls[i] \in Kinds
  BY <1>1 DEF CallId
<1> QED BY <1>2 DEF CallIds, Survivors

(* Only calls of the current response run, and only while run() waits for  *)
(* tools.                                                                  *)
LEMMA RunningTyped ==
    ASSUME RunTyped, ToolsTyped, ToolsOK
    PROVE  /\ running \subseteq 1..Len(resp.calls)
           /\ running # {} => pc = "tools"
<1>1. resp.calls \in Seq(Kinds)
  BY CallsTyped
<1>2. CASE running = {}
  BY <1>2
<1>3. CASE running # {}
  BY <1>1, <1>3 DEF ToolsOK, ToolsTyped, ToolPcs
<1> QED BY <1>2, <1>3

(* An execution that ends has a result.                                    *)
LEMMA OutcomesTyped ==
    ASSUME NEW kind
    PROVE  Outcomes(kind) \subseteq Results \ {"none"}
BY DEF Outcomes, Results

(* Skipping a call keeps the types of the batch bookkeeping.               *)
LEMMA NotRunTyped ==
    ASSUME ToolsTyped, NEW v \in {"error", "unknown"}, NotRun(v)
    PROVE  ToolsTyped'
<1>1. results' \in Seq(Results)
  BY ReplacedResult, ErrorTyped DEF ToolsTyped, NotRun
<1>2. next' \in Nat
  BY DEF ToolsTyped, NotRun
<1> QED BY <1>1, <1>2 DEF ToolsTyped, NotRun

(* The end of an execution keeps the types of the batch bookkeeping.       *)
LEMMA FinishedTyped ==
    ASSUME ToolsTyped, NEW i, NEW v \in Results, Finished(i, v),
           orphans' \subseteq Nat \X Kinds
    PROVE  ToolsTyped'
<1>1. results' \in Seq(Results)
  BY ReplacedResult DEF ToolsTyped, Finished
<1>2. next + 1 \in Nat /\ batchEnd + 1 \in Nat /\ next \in Nat
  BY DEF ToolsTyped
<1>3. next' \in Nat
  BY <1>2, Zenon DEF Finished
<1>4. running' \subseteq Nat
  BY DEF ToolsTyped, Finished
<1> QED BY <1>1, <1>3, <1>4, Zenon DEF ToolsTyped, Finished

(* The bookkeeping of tool calls keeps its types; one case per action.     *)
LEMMA ToolsTypeStep ==
    ASSUME RunTyped, ToolsTyped, ToolsOK, [Next]_vars
    PROVE  ToolsTyped'
<1> USE DEF ToolsTyped, inputVars, loopVars, requestVars, toolVars, gateVars
<1>1. ASSUME Start PROVE ToolsTyped'
  BY <1>1 DEF Start
<1>2. ASSUME QueueUserMessage PROVE ToolsTyped'
  BY <1>2 DEF QueueUserMessage
<1>3. ASSUME Cancel PROVE ToolsTyped'
  <2>1. resp.calls \in Seq(Kinds)
    BY CallsTyped
  <2>2. Survivors(running) \subseteq Nat \X Kinds
    <3>1. CASE running = {}
      BY <3>1 DEF Survivors
    <3>2. CASE running # {}
      BY <3>2, RunningTyped, IdsTyped DEF ToolPcs
    <3> QED BY <3>1, <3>2
  <2>3. pc \in ToolPcs => CallIds(DOMAIN resp.calls) \subseteq Nat
    BY <2>1, IdsTyped
  <2>4. orphans' \subseteq Nat \X Kinds
    BY <1>3, <2>2 DEF Cancel
  <2>5. abandoned' \subseteq Nat
    BY <1>3, <2>3 DEF Cancel, ToolPcs
  <2> QED BY <1>3, <2>4, <2>5 DEF Cancel, EndRun
<1>4. ASSUME Expire PROVE ToolsTyped'
  BY <1>4 DEF Expire
<1>5. ASSUME OrphanEnds PROVE ToolsTyped'
  BY <1>5 DEF OrphanEnds
<1>6. ASSUME TimesOut PROVE ToolsTyped'
  BY <1>6 DEF TimesOut, EndRun
<1>7. ASSUME TopLimit PROVE ToolsTyped'
  BY <1>7 DEF TopLimit, EndRun
<1>8. ASSUME TopProceed PROVE ToolsTyped'
  BY <1>8 DEF TopProceed
<1>9. ASSUME PreSend PROVE ToolsTyped'
  BY <1>9 DEF PreSend
<1>10. ASSUME StreamEvent PROVE ToolsTyped'
  BY <1>10 DEF StreamEvent
<1>11. ASSUME TransientError PROVE ToolsTyped'
  BY <1>11 DEF TransientError
<1>12. ASSUME Resend PROVE ToolsTyped'
  BY <1>12 DEF Resend
<1>13. ASSUME Overflow PROVE ToolsTyped'
  BY <1>13 DEF Overflow
<1>14. ASSUME Recovered PROVE ToolsTyped'
  BY <1>14 DEF Recovered
<1>15. ASSUME RequestFails PROVE ToolsTyped'
  BY <1>15 DEF RequestFails, EndRun
<1>16. ASSUME Receive PROVE ToolsTyped'
  BY <1>16 DEF Receive
<1>17. ASSUME OverLimit PROVE ToolsTyped'
  BY <1>17 DEF OverLimit, EndRun
<1>18. ASSUME Escalate PROVE ToolsTyped'
  BY <1>18 DEF Escalate
<1>19. ASSUME RecoverOutput PROVE ToolsTyped'
  BY <1>19 DEF RecoverOutput
<1>20. ASSUME Rejected PROVE ToolsTyped'
  BY <1>20 DEF Rejected, EndRun
<1>21. ASSUME AnswerRefused PROVE ToolsTyped'
  BY <1>21 DEF AnswerRefused
<1>22. ASSUME AnswerAccepted PROVE ToolsTyped'
  BY <1>22 DEF AnswerAccepted
<1>23. ASSUME Finish PROVE ToolsTyped'
  BY <1>23 DEF Finish, MoreQueued
<1>24. ASSUME NextTurn PROVE ToolsTyped'
  BY <1>24 DEF NextTurn
<1>25. ASSUME Complete PROVE ToolsTyped'
  BY <1>25 DEF Complete, EndRun
<1>26. ASSUME CallTools PROVE ToolsTyped'
  BY <1>26, CallsTyped DEF CallTools, Results
<1>27. ASSUME StartBatch PROVE ToolsTyped'
  BY <1>27 DEF StartBatch, SafeCall
<1>28. ASSUME SkipCall PROVE ToolsTyped'
  BY <1>28, NotRunTyped DEF SkipCall
<1>29. ASSUME Ask PROVE ToolsTyped'
  BY <1>29 DEF Ask
<1>30. ASSUME Deny PROVE ToolsTyped'
  BY <1>30, NotRunTyped DEF Deny
<1>31. ASSUME StartCall PROVE ToolsTyped'
  BY <1>31 DEF StartCall
<1>32. ASSUME FinishCall PROVE ToolsTyped'
  <2>1. PICK i \in running : \E v \in Outcomes(resp.calls[i]) : Finished(i, v)
    BY <1>32 DEF FinishCall
  <2> QED BY <1>32, <2>1, OutcomesTyped, FinishedTyped DEF FinishCall
<1>33. ASSUME InterruptCall PROVE ToolsTyped'
  <2>1. PICK i \in running : Finished(i, "error")
    BY <1>33 DEF InterruptCall
  <2> QED BY <1>33, <2>1, ErrorTyped, FinishedTyped DEF InterruptCall
<1>34. ASSUME ExpireCall PROVE ToolsTyped'
  <2>1. PICK i \in running :
            /\ Finished(i, "error")
            /\ orphans' = orphans \cup (IF resp.calls[i] = "write" THEN Survivors({i}) ELSE {})
    BY <1>34 DEF ExpireCall
  <2>2. Survivors({i}) \subseteq Nat \X Kinds
    BY <1>34, <2>1, RunningTyped, IdsTyped DEF ExpireCall, ToolPcs
  <2>3. orphans' \subseteq Nat \X Kinds
    BY <2>1, <2>2
  <2> QED BY <2>1, <2>3, ErrorTyped, FinishedTyped
<1>35. ASSUME ToolsDone PROVE ToolsTyped'
  BY <1>35 DEF ToolsDone
<1>36. ASSUME ObserveResult PROVE ToolsTyped'
  BY <1>36 DEF ObserveResult
<1>37. ASSUME TooManyUnknown PROVE ToolsTyped'
  <2>1. resp.calls \in Seq(Kinds)
    BY CallsTyped
  <2>2. CallIds(DOMAIN resp.calls) \subseteq Nat
    BY <1>37, <2>1, IdsTyped DEF TooManyUnknown, Observed, ToolPcs
  <2>3. abandoned' \subseteq Nat
    BY <1>37, <2>2 DEF TooManyUnknown
  <2> QED BY <1>37, <2>3 DEF TooManyUnknown, EndRun
<1>38. ASSUME RecordResults PROVE ToolsTyped'
  BY <1>38 DEF RecordResults
<1>39. ASSUME ExitPlanMode PROVE ToolsTyped'
  BY <1>39 DEF ExitPlanMode, EndRun
<1>40. ASSUME UNCHANGED vars PROVE ToolsTyped'
  BY <1>40 DEF vars
<1> QED
  BY <1>1, <1>2, <1>3, <1>4, <1>5, <1>6, <1>7, <1>8, <1>9, <1>10, <1>11, <1>12,
     <1>13, <1>14, <1>15, <1>16, <1>17, <1>18, <1>19, <1>20, <1>21, <1>22, <1>23, <1>24,
     <1>25, <1>26, <1>27, <1>28, <1>29, <1>30, <1>31, <1>32, <1>33, <1>34, <1>35,
     <1>36, <1>37, <1>38, <1>39, <1>40
     DEF Next, Step, Surroundings

(* Away from the tool phase the batch invariant only says that nothing     *)
(* runs.                                                                   *)
LEMMA OutsideTools ==
    ASSUME pc' \notin ToolPcs, running' = {}
    PROVE  ToolsOK'
BY DEF ToolsOK, ToolPcs

(* Nothing executes unless run() waits for tools.                          *)
LEMMA NothingRuns ==
    ASSUME ToolsOK, pc # "tools"
    PROVE  running = {}
BY DEF ToolsOK

(* Skipping or denying a call keeps the batch invariant.                   *)
LEMMA NotRunKeepsTools ==
    ASSUME RunTyped, ToolsTyped, ToolsOK, AtSerial,
           NEW v \in {"error", "unknown"}, NotRun(v)
    PROVE  ToolsOK'
<1>1. resp.calls \in Seq(Kinds) /\ next \in Nat /\ batchEnd \in Nat /\ results \in Seq(Results)
  BY CallsTyped DEF ToolsTyped
<1>2. /\ pc \in {"tools", "asking"} /\ serial /\ running = {} /\ next <= batchEnd
      /\ next >= 1 /\ batchEnd <= Len(results)
      /\ \A j \in 1..(next - 1) : results[j] # "none"
      /\ resp.calls # <<>> /\ Len(resp.calls) <= calls /\ Len(results) = Len(resp.calls)
  BY DEF AtSerial, ToolsOK, ToolPcs
<1>3. /\ pc' = "tools" /\ serial' = serial /\ running' = {} /\ next' = next + 1
      /\ batchEnd' = batchEnd /\ resp' = resp /\ calls' = calls
      /\ results' = [results EXCEPT ![next] = v]
  BY <1>2 DEF NotRun
<1>4. /\ Len(results') = Len(results)
      /\ \A j \in 1..Len(results) : results'[j] = IF j = next THEN v ELSE results[j]
  BY <1>1, <1>3, ErrorTyped, ReplacedResult
<1>5. \A j \in 1..(next' - 1) : results'[j] # "none"
  BY <1>1, <1>2, <1>3, <1>4
<1> QED BY <1>1, <1>2, <1>3, <1>4, <1>5 DEF ToolsOK, ToolPcs

(* The end of one execution of a batch keeps the batch invariant.          *)
LEMMA FinishedKeepsTools ==
    ASSUME RunTyped, ToolsTyped, ToolsOK, pc = "tools",
           NEW i \in running, NEW v \in Results \ {"none"}, Finished(i, v)
    PROVE  ToolsOK'
<1>1. resp.calls \in Seq(Kinds) /\ next \in Nat /\ batchEnd \in Nat /\ results \in Seq(Results)
  BY CallsTyped DEF ToolsTyped
<1>2. /\ batchEnd <= Len(results) /\ next >= 1 /\ next <= batchEnd + 1
      /\ running \subseteq next..batchEnd
      /\ \A j \in 1..(next - 1) : results[j] # "none"
      /\ resp.calls # <<>> /\ Len(resp.calls) <= calls /\ Len(results) = Len(resp.calls)
  BY DEF ToolsOK, ToolPcs
<1>3. /\ pc' = "tools" /\ serial' = serial /\ running' = running \ {i}
      /\ batchEnd' = batchEnd /\ resp' = resp /\ calls' = calls
      /\ results' = [results EXCEPT ![i] = v]
  BY DEF Finished
<1>4. /\ Len(results') = Len(results)
      /\ \A j \in 1..Len(results) : results'[j] = IF j = i THEN v ELSE results[j]
  BY <1>1, <1>3, ReplacedResult
<1>5. CASE serial
  <2>1. running = {i} /\ i = next
    BY <1>5 DEF ToolsOK
  <2>2. running' = {} /\ next' = next + 1
    BY <2>1, <1>3, <1>5, Zenon DEF Finished
  <2>3. \A j \in 1..(next' - 1) : results'[j] # "none"
    BY <2>1, <2>2, <1>1, <1>2, <1>4
  <2> QED BY <2>1, <2>2, <2>3, <1>1, <1>2, <1>3, <1>4, <1>5 DEF ToolsOK, ToolPcs
<1>6. CASE ~serial
  <2>1. \A j \in next..batchEnd : j \in running \/ results[j] # "none"
    BY <1>6 DEF ToolsOK
  <2>2. \A j \in next..batchEnd : j \in running' \/ results'[j] # "none"
    BY <2>1, <1>1, <1>2, <1>3, <1>4
  <2>3. \A j \in 1..(next - 1) : results'[j] # "none"
    BY <1>1, <1>2, <1>4
  <2>4. CASE running = {i}
    <3>1. next' = batchEnd + 1 /\ running' = {}
      BY <2>4, <1>3, <1>6, Zenon DEF Finished
    <3>2. \A j \in 1..(next' - 1) : results'[j] # "none"
      BY <3>1, <2>2, <2>3, <1>1, <1>2
    <3> QED BY <3>1, <3>2, <1>1, <1>2, <1>3, <1>4, <1>6 DEF ToolsOK, ToolPcs
  <2>5. CASE running # {i}
    <3>1. next' = next
      BY <2>5, Zenon DEF Finished
    <3>2. running' # {}
      BY <2>5, <1>3
    <3> QED BY <3>1, <3>2, <2>2, <2>3, <1>1, <1>2, <1>3, <1>4, <1>6 DEF ToolsOK, ToolPcs
  <2> QED BY <2>4, <2>5
<1> QED BY <1>5, <1>6

(* The batch invariant is preserved; one case per action.                  *)
LEMMA ToolsStep ==
    ASSUME RunTyped, ToolsTyped, ToolsOK, [Next]_vars
    PROVE  ToolsOK'
<1> USE DEF inputVars, loopVars, requestVars, toolVars, gateVars
<1>1. ASSUME Start PROVE ToolsOK'
  BY <1>1, OutsideTools, NothingRuns DEF Start, ToolPcs
<1>2. ASSUME QueueUserMessage PROVE ToolsOK'
  BY <1>2 DEF QueueUserMessage, ToolsOK, ToolPcs
<1>3. ASSUME Cancel PROVE ToolsOK'
  BY <1>3, OutsideTools DEF Cancel, EndRun, ToolPcs
<1>4. ASSUME Expire PROVE ToolsOK'
  BY <1>4 DEF Expire, ToolsOK, ToolPcs
<1>5. ASSUME OrphanEnds PROVE ToolsOK'
  BY <1>5 DEF OrphanEnds, ToolsOK, ToolPcs
<1>6. ASSUME TimesOut PROVE ToolsOK'
  BY <1>6, OutsideTools DEF TimesOut, EndRun, ToolPcs
<1>7. ASSUME TopLimit PROVE ToolsOK'
  BY <1>7, OutsideTools DEF TopLimit, EndRun, ToolPcs
<1>8. ASSUME TopProceed PROVE ToolsOK'
  BY <1>8, OutsideTools, NothingRuns DEF TopProceed, ToolPcs
<1>9. ASSUME PreSend PROVE ToolsOK'
  BY <1>9, OutsideTools, NothingRuns DEF PreSend, ToolPcs
<1>10. ASSUME StreamEvent PROVE ToolsOK'
  BY <1>10, OutsideTools, NothingRuns DEF StreamEvent, ToolPcs
<1>11. ASSUME TransientError PROVE ToolsOK'
  BY <1>11, OutsideTools, NothingRuns DEF TransientError, ToolPcs
<1>12. ASSUME Resend PROVE ToolsOK'
  BY <1>12, OutsideTools, NothingRuns DEF Resend, ToolPcs
<1>13. ASSUME Overflow PROVE ToolsOK'
  BY <1>13, OutsideTools, NothingRuns DEF Overflow, ToolPcs
<1>14. ASSUME Recovered PROVE ToolsOK'
  BY <1>14, OutsideTools, NothingRuns DEF Recovered, ToolPcs
<1>15. ASSUME RequestFails PROVE ToolsOK'
  BY <1>15, OutsideTools DEF RequestFails, EndRun, ToolPcs
<1>16. ASSUME Receive PROVE ToolsOK'
  BY <1>16, OutsideTools, NothingRuns DEF Receive, ToolPcs
<1>17. ASSUME OverLimit PROVE ToolsOK'
  BY <1>17, OutsideTools DEF OverLimit, EndRun, ToolPcs
<1>18. ASSUME Escalate PROVE ToolsOK'
  BY <1>18, OutsideTools, NothingRuns DEF Escalate, ToolPcs
<1>19. ASSUME RecoverOutput PROVE ToolsOK'
  BY <1>19, OutsideTools, NothingRuns DEF RecoverOutput, ToolPcs
<1>20. ASSUME Rejected PROVE ToolsOK'
  BY <1>20, OutsideTools DEF Rejected, EndRun, ToolPcs
<1>21. ASSUME AnswerRefused PROVE ToolsOK'
  BY <1>21, OutsideTools, NothingRuns DEF AnswerRefused, Usable, ToolPcs
<1>22. ASSUME AnswerAccepted PROVE ToolsOK'
  BY <1>22, OutsideTools, NothingRuns DEF AnswerAccepted, Usable, ToolPcs
<1>23. ASSUME Finish PROVE ToolsOK'
  BY <1>23, OutsideTools, NothingRuns DEF Finish, ToolPcs
<1>24. ASSUME NextTurn PROVE ToolsOK'
  BY <1>24, OutsideTools, NothingRuns DEF NextTurn, ToolPcs
<1>25. ASSUME Complete PROVE ToolsOK'
  BY <1>25, OutsideTools DEF Complete, EndRun, ToolPcs
<1>26. ASSUME CallTools PROVE ToolsOK'
  <2>1. resp.calls \in Seq(Kinds) /\ calls \in Nat
    BY CallsTyped DEF RunTyped
  <2>2. pc # "tools" /\ resp.calls # <<>>
    BY <1>26 DEF CallTools, Usable
  <2>3. running' = {}
    BY <1>26, <2>2, NothingRuns DEF CallTools
  <2>4. Len(results') = Len(resp.calls) /\ results' \in Seq({"none"})
    BY <1>26, <2>1 DEF CallTools
  <2> QED BY <1>26, <2>1, <2>2, <2>3, <2>4 DEF CallTools, ToolsOK, ToolPcs
<1>27. ASSUME StartBatch PROVE ToolsOK'
  <2>1. PICK e \in next..Len(resp.calls) :
            /\ batchEnd' = e
            /\ \/ serial' = TRUE /\ running' = {}
               \/ serial' = FALSE /\ running' = next..e
    BY <1>27 DEF StartBatch
  <2>2. next \in Nat /\ Len(resp.calls) \in Nat
    BY CallsTyped DEF ToolsTyped
  <2>3. /\ pc = "tools" /\ next > batchEnd /\ pc' = pc
        /\ next' = next /\ results' = results /\ resp' = resp /\ calls' = calls
    BY <1>27 DEF StartBatch
  <2>4. /\ resp.calls # <<>> /\ Len(resp.calls) <= calls /\ Len(results) = Len(resp.calls)
        /\ next >= 1 /\ \A j \in 1..(next - 1) : results[j] # "none"
    BY <2>3 DEF ToolsOK, ToolPcs
  <2>5. CASE serial' = TRUE /\ running' = {}
    BY <2>1, <2>2, <2>3, <2>4, <2>5 DEF ToolsOK, ToolPcs
  <2>6. CASE serial' = FALSE /\ running' = next..e
    <3>1. ~serial' /\ next \in running'
      BY <2>1, <2>2, <2>6
    <3>2. running' = next..e
      BY <2>6
    <3>3. /\ batchEnd' <= Len(results') /\ next' >= 1 /\ next' <= batchEnd' + 1
          /\ next' <= Len(results') + 1 /\ running' \subseteq next'..batchEnd'
          /\ \A j \in next'..batchEnd' : j \in running'
          /\ running' # {}
      BY <2>1, <2>2, <2>3, <2>4, <3>1, <3>2
    <3> QED BY <2>3, <2>4, <3>1, <3>3 DEF ToolsOK, ToolPcs
  <2> QED BY <2>1, <2>5, <2>6
<1>28. ASSUME SkipCall PROVE ToolsOK'
  BY <1>28, NotRunKeepsTools DEF SkipCall
<1>29. ASSUME Ask PROVE ToolsOK'
  BY <1>29 DEF Ask, AtSerial, ToolsOK, ToolPcs
<1>30. ASSUME Deny PROVE ToolsOK'
  BY <1>30, NotRunKeepsTools DEF Deny
<1>31. ASSUME StartCall PROVE ToolsOK'
  <2>1. next \in Nat /\ batchEnd \in Nat /\ results \in Seq(Results)
    BY DEF ToolsTyped
  <2>2. /\ serial /\ pc \in {"tools", "asking"} /\ next <= batchEnd
        /\ running' = {next} /\ pc' = "tools" /\ serial' = serial
        /\ next' = next /\ batchEnd' = batchEnd /\ results' = results
        /\ resp' = resp /\ calls' = calls
    BY <1>31, Zenon DEF StartCall, AtSerial
  <2>3. /\ resp.calls # <<>> /\ Len(resp.calls) <= calls /\ Len(results) = Len(resp.calls)
        /\ batchEnd <= Len(results) /\ next >= 1
        /\ \A j \in 1..(next - 1) : results[j] # "none"
    BY <2>2 DEF ToolsOK, ToolPcs
  <2>4. /\ next \in next..batchEnd /\ next <= Len(results) + 1 /\ next <= batchEnd + 1
    BY <2>1, <2>2, <2>3
  <2>5. pc' # "observe" /\ running' # {} /\ serial'
    BY <2>2
  <2> QED BY <2>2, <2>3, <2>4, <2>5 DEF ToolsOK, ToolPcs
<1>32. ASSUME FinishCall PROVE ToolsOK'
  <2>1. PICK i \in running : \E v \in Outcomes(resp.calls[i]) : Finished(i, v)
    BY <1>32 DEF FinishCall
  <2>2. PICK v \in Outcomes(resp.calls[i]) : Finished(i, v)
    BY <2>1
  <2>3. v \in Results \ {"none"}
    BY <2>2, OutcomesTyped
  <2> QED BY <1>32, <2>2, <2>3, FinishedKeepsTools DEF FinishCall
<1>33. ASSUME InterruptCall PROVE ToolsOK'
  <2>1. PICK i \in running : Finished(i, "error")
    BY <1>33 DEF InterruptCall
  <2> QED BY <1>33, <2>1, ErrorTyped, FinishedKeepsTools DEF InterruptCall
<1>34. ASSUME ExpireCall PROVE ToolsOK'
  <2>1. PICK i \in running : Finished(i, "error")
    BY <1>34 DEF ExpireCall
  <2> QED BY <1>34, <2>1, ErrorTyped, FinishedKeepsTools DEF ExpireCall
<1>35. ASSUME ToolsDone PROVE ToolsOK'
  <2>1. resp.calls \in Seq(Kinds) /\ next \in Nat /\ batchEnd \in Nat
    BY CallsTyped DEF ToolsTyped
  <2>2. running = {}
    BY <1>35, <2>1 DEF ToolsDone, ToolsOK, ToolPcs
  <2>3. \A j \in 1..Len(results) : results[j] # "none"
    BY <1>35, <2>1 DEF ToolsDone, ToolsOK, ToolPcs
  <2> QED BY <1>35, <2>2, <2>3 DEF ToolsDone, ToolsOK, ToolPcs
<1>36. ASSUME ObserveResult PROVE ToolsOK'
  BY <1>36 DEF ObserveResult, ToolsOK, ToolPcs
<1>37. ASSUME TooManyUnknown PROVE ToolsOK'
  BY <1>37, OutsideTools DEF TooManyUnknown, EndRun, ToolPcs
<1>38. ASSUME RecordResults PROVE ToolsOK'
  BY <1>38, OutsideTools DEF RecordResults, ToolPcs
<1>39. ASSUME ExitPlanMode PROVE ToolsOK'
  BY <1>39, OutsideTools DEF ExitPlanMode, EndRun, ToolPcs
<1>40. ASSUME UNCHANGED vars PROVE ToolsOK'
  BY <1>40 DEF vars, ToolsOK, ToolPcs
<1> QED
  BY <1>1, <1>2, <1>3, <1>4, <1>5, <1>6, <1>7, <1>8, <1>9, <1>10, <1>11, <1>12,
     <1>13, <1>14, <1>15, <1>16, <1>17, <1>18, <1>19, <1>20, <1>21, <1>22, <1>23, <1>24,
     <1>25, <1>26, <1>27, <1>28, <1>29, <1>30, <1>31, <1>32, <1>33, <1>34, <1>35,
     <1>36, <1>37, <1>38, <1>39, <1>40
     DEF Next, Step, Surroundings

(* Output shown by an earlier request of the turn is never followed by     *)
(* another request; one case per action.                                   *)
LEMMA ShownStep ==
    ASSUME RunTyped, ShownOK, [Next]_vars
    PROVE  ShownOK'
<1> USE DEF inputVars, loopVars, requestVars, toolVars, gateVars, ShownOK, RunTyped
<1>1. ASSUME Start PROVE ShownOK'
  BY <1>1 DEF Start
<1>2. ASSUME QueueUserMessage PROVE ShownOK'
  BY <1>2 DEF QueueUserMessage
<1>3. ASSUME Cancel PROVE ShownOK'
  BY <1>3 DEF Cancel, EndRun
<1>4. ASSUME Expire PROVE ShownOK'
  BY <1>4 DEF Expire
<1>5. ASSUME OrphanEnds PROVE ShownOK'
  BY <1>5 DEF OrphanEnds
<1>6. ASSUME TimesOut PROVE ShownOK'
  BY <1>6 DEF TimesOut, EndRun
<1>7. ASSUME TopLimit PROVE ShownOK'
  BY <1>7 DEF TopLimit, EndRun
<1>8. ASSUME TopProceed PROVE ShownOK'
  BY <1>8 DEF TopProceed
<1>9. ASSUME PreSend PROVE ShownOK'
  BY <1>9 DEF PreSend
<1>10. ASSUME StreamEvent PROVE ShownOK'
  BY <1>10 DEF StreamEvent
<1>11. ASSUME TransientError PROVE ShownOK'
  BY <1>11 DEF TransientError, MayRetry
<1>12. ASSUME Resend PROVE ShownOK'
  BY <1>12 DEF Resend
<1>13. ASSUME Overflow PROVE ShownOK'
  BY <1>13 DEF Overflow, MayRecover
<1>14. ASSUME Recovered PROVE ShownOK'
  BY <1>14 DEF Recovered
<1>15. ASSUME RequestFails PROVE ShownOK'
  BY <1>15 DEF RequestFails, EndRun
<1>16. ASSUME Receive PROVE ShownOK'
  BY <1>16 DEF Receive
<1>17. ASSUME OverLimit PROVE ShownOK'
  BY <1>17 DEF OverLimit, EndRun
<1>18. ASSUME Escalate PROVE ShownOK'
  BY <1>18 DEF Escalate
<1>19. ASSUME RecoverOutput PROVE ShownOK'
  BY <1>19 DEF RecoverOutput
<1>20. ASSUME Rejected PROVE ShownOK'
  BY <1>20 DEF Rejected, EndRun
<1>21. ASSUME AnswerRefused PROVE ShownOK'
  BY <1>21 DEF AnswerRefused
<1>22. ASSUME AnswerAccepted PROVE ShownOK'
  BY <1>22 DEF AnswerAccepted
<1>23. ASSUME Finish PROVE ShownOK'
  BY <1>23 DEF Finish
<1>24. ASSUME NextTurn PROVE ShownOK'
  BY <1>24 DEF NextTurn
<1>25. ASSUME Complete PROVE ShownOK'
  BY <1>25 DEF Complete, EndRun
<1>26. ASSUME CallTools PROVE ShownOK'
  BY <1>26 DEF CallTools
<1>27. ASSUME StartBatch PROVE ShownOK'
  BY <1>27 DEF StartBatch
<1>28. ASSUME SkipCall PROVE ShownOK'
  BY <1>28 DEF SkipCall, NotRun
<1>29. ASSUME Ask PROVE ShownOK'
  BY <1>29 DEF Ask
<1>30. ASSUME Deny PROVE ShownOK'
  BY <1>30 DEF Deny, NotRun
<1>31. ASSUME StartCall PROVE ShownOK'
  BY <1>31 DEF StartCall
<1>32. ASSUME FinishCall PROVE ShownOK'
  BY <1>32 DEF FinishCall, Finished
<1>33. ASSUME InterruptCall PROVE ShownOK'
  BY <1>33 DEF InterruptCall, Finished
<1>34. ASSUME ExpireCall PROVE ShownOK'
  BY <1>34 DEF ExpireCall, Finished
<1>35. ASSUME ToolsDone PROVE ShownOK'
  BY <1>35 DEF ToolsDone
<1>36. ASSUME ObserveResult PROVE ShownOK'
  BY <1>36 DEF ObserveResult
<1>37. ASSUME TooManyUnknown PROVE ShownOK'
  BY <1>37 DEF TooManyUnknown, EndRun
<1>38. ASSUME RecordResults PROVE ShownOK'
  BY <1>38 DEF RecordResults, Observed
<1>39. ASSUME ExitPlanMode PROVE ShownOK'
  BY <1>39 DEF ExitPlanMode, EndRun
<1>40. ASSUME UNCHANGED vars PROVE ShownOK'
  BY <1>40 DEF vars
<1> QED
  BY <1>1, <1>2, <1>3, <1>4, <1>5, <1>6, <1>7, <1>8, <1>9, <1>10, <1>11, <1>12,
     <1>13, <1>14, <1>15, <1>16, <1>17, <1>18, <1>19, <1>20, <1>21, <1>22, <1>23, <1>24,
     <1>25, <1>26, <1>27, <1>28, <1>29, <1>30, <1>31, <1>32, <1>33, <1>34, <1>35,
     <1>36, <1>37, <1>38, <1>39, <1>40
     DEF Next, Step, Surroundings

(* Every operation of the gate returns a gate.                             *)
LEMMA GateTyped ==
    ASSUME NEW g \in Gate, NEW kind, NEW value
    PROVE  {StartTask(g), Waive(g, value), Observe(g, kind, value), Refuse(g)} \subseteq Gate
<1>1. StartTask(g) \in Gate
  BY DEF StartTask, NewGate, Gate, GateStatus
<1>2. Waive(g, value) \in Gate
  BY DEF Waive, Gate, GateStatus
<1>3. Refuse(g) \in Gate
  BY DEF Refuse, Gate
<1>4. ObserveWrite(g, value) \in Gate
  BY DEF ObserveWrite, Gate, GateStatus
<1>5. ObserveCheck(g, value) \in Gate
  BY DEF ObserveCheck, Gate, GateStatus
<1>6. Observe(g, kind, value) \in Gate
  BY <1>4, <1>5 DEF Observe
<1> QED BY <1>1, <1>2, <1>3, <1>6

(* The gate keeps its type; one case per action.                           *)
LEMMA GateStep ==
    ASSUME gate \in Gate, [Next]_vars
    PROVE  gate' \in Gate
<1> USE DEF inputVars, loopVars, requestVars, toolVars, gateVars
<1>1. ASSUME Start PROVE gate' \in Gate
  BY <1>1, GateTyped DEF Start
<1>2. ASSUME QueueUserMessage PROVE gate' \in Gate
  BY <1>2 DEF QueueUserMessage
<1>3. ASSUME Cancel PROVE gate' \in Gate
  BY <1>3 DEF Cancel, EndRun
<1>4. ASSUME Expire PROVE gate' \in Gate
  BY <1>4 DEF Expire
<1>5. ASSUME OrphanEnds PROVE gate' \in Gate
  BY <1>5 DEF OrphanEnds
<1>6. ASSUME TimesOut PROVE gate' \in Gate
  BY <1>6 DEF TimesOut, EndRun
<1>7. ASSUME TopLimit PROVE gate' \in Gate
  BY <1>7 DEF TopLimit, EndRun
<1>8. ASSUME TopProceed PROVE gate' \in Gate
  BY <1>8 DEF TopProceed
<1>9. ASSUME PreSend PROVE gate' \in Gate
  BY <1>9 DEF PreSend
<1>10. ASSUME StreamEvent PROVE gate' \in Gate
  BY <1>10 DEF StreamEvent
<1>11. ASSUME TransientError PROVE gate' \in Gate
  BY <1>11 DEF TransientError
<1>12. ASSUME Resend PROVE gate' \in Gate
  BY <1>12 DEF Resend
<1>13. ASSUME Overflow PROVE gate' \in Gate
  BY <1>13 DEF Overflow
<1>14. ASSUME Recovered PROVE gate' \in Gate
  BY <1>14 DEF Recovered
<1>15. ASSUME RequestFails PROVE gate' \in Gate
  BY <1>15 DEF RequestFails, EndRun
<1>16. ASSUME Receive PROVE gate' \in Gate
  BY <1>16 DEF Receive
<1>17. ASSUME OverLimit PROVE gate' \in Gate
  BY <1>17 DEF OverLimit, EndRun
<1>18. ASSUME Escalate PROVE gate' \in Gate
  BY <1>18 DEF Escalate
<1>19. ASSUME RecoverOutput PROVE gate' \in Gate
  BY <1>19 DEF RecoverOutput
<1>20. ASSUME Rejected PROVE gate' \in Gate
  BY <1>20 DEF Rejected, EndRun
<1>21. ASSUME AnswerRefused PROVE gate' \in Gate
  BY <1>21, GateTyped DEF AnswerRefused
<1>22. ASSUME AnswerAccepted PROVE gate' \in Gate
  BY <1>22 DEF AnswerAccepted
<1>23. ASSUME Finish PROVE gate' \in Gate
  BY <1>23 DEF Finish, MoreQueued
<1>24. ASSUME NextTurn PROVE gate' \in Gate
  BY <1>24 DEF NextTurn
<1>25. ASSUME Complete PROVE gate' \in Gate
  BY <1>25 DEF Complete, EndRun
<1>26. ASSUME CallTools PROVE gate' \in Gate
  BY <1>26 DEF CallTools
<1>27. ASSUME StartBatch PROVE gate' \in Gate
  BY <1>27 DEF StartBatch
<1>28. ASSUME SkipCall PROVE gate' \in Gate
  BY <1>28 DEF SkipCall, NotRun
<1>29. ASSUME Ask PROVE gate' \in Gate
  BY <1>29 DEF Ask
<1>30. ASSUME Deny PROVE gate' \in Gate
  BY <1>30 DEF Deny, NotRun
<1>31. ASSUME StartCall PROVE gate' \in Gate
  BY <1>31 DEF StartCall
<1>32. ASSUME FinishCall PROVE gate' \in Gate
  BY <1>32, GateTyped DEF FinishCall, Finished
<1>33. ASSUME InterruptCall PROVE gate' \in Gate
  BY <1>33 DEF InterruptCall, Finished
<1>34. ASSUME ExpireCall PROVE gate' \in Gate
  BY <1>34 DEF ExpireCall, Finished
<1>35. ASSUME ToolsDone PROVE gate' \in Gate
  BY <1>35 DEF ToolsDone
<1>36. ASSUME ObserveResult PROVE gate' \in Gate
  BY <1>36, GateTyped DEF ObserveResult
<1>37. ASSUME TooManyUnknown PROVE gate' \in Gate
  BY <1>37 DEF TooManyUnknown, EndRun
<1>38. ASSUME RecordResults PROVE gate' \in Gate
  BY <1>38 DEF RecordResults
<1>39. ASSUME ExitPlanMode PROVE gate' \in Gate
  BY <1>39 DEF ExitPlanMode, EndRun
<1>40. ASSUME UNCHANGED vars PROVE gate' \in Gate
  BY <1>40 DEF vars
<1> QED
  BY <1>1, <1>2, <1>3, <1>4, <1>5, <1>6, <1>7, <1>8, <1>9, <1>10, <1>11, <1>12,
     <1>13, <1>14, <1>15, <1>16, <1>17, <1>18, <1>19, <1>20, <1>21, <1>22, <1>23, <1>24,
     <1>25, <1>26, <1>27, <1>28, <1>29, <1>30, <1>31, <1>32, <1>33, <1>34, <1>35,
     <1>36, <1>37, <1>38, <1>39, <1>40
     DEF Next, Step, Surroundings

(* The steering flag and the queue change together; one case per action.   *)
LEMMA SteeringStep ==
    ASSUME RunTyped, SteeringMatchesQueue, [Next]_vars
    PROVE  SteeringMatchesQueue'
<1> USE DEF inputVars, loopVars, requestVars, toolVars, gateVars, SteeringMatchesQueue, RunTyped
<1>1. ASSUME Start PROVE SteeringMatchesQueue'
  BY <1>1 DEF Start
<1>2. ASSUME QueueUserMessage PROVE SteeringMatchesQueue'
  <2>1. Append(queue, sent + 1) # <<>>
    <3>1. queue \in Seq(Nat) /\ sent + 1 \in Nat
      BY DEF RunTyped
    <3>2. Len(Append(queue, sent + 1)) > 0
      BY <3>1
    <3> QED BY <3>1, <3>2
  <2>2. steering' = TRUE /\ queue' # <<>>
    BY <1>2, <2>1, Zenon DEF QueueUserMessage
  <2> QED BY <2>2, Zenon DEF SteeringMatchesQueue
<1>3. ASSUME Cancel PROVE SteeringMatchesQueue'
  BY <1>3 DEF Cancel, EndRun
<1>4. ASSUME Expire PROVE SteeringMatchesQueue'
  BY <1>4 DEF Expire
<1>5. ASSUME OrphanEnds PROVE SteeringMatchesQueue'
  BY <1>5 DEF OrphanEnds
<1>6. ASSUME TimesOut PROVE SteeringMatchesQueue'
  BY <1>6 DEF TimesOut, EndRun
<1>7. ASSUME TopLimit PROVE SteeringMatchesQueue'
  BY <1>7 DEF TopLimit, EndRun
<1>8. ASSUME TopProceed PROVE SteeringMatchesQueue'
  BY <1>8 DEF TopProceed, InjectQueue
<1>9. ASSUME PreSend PROVE SteeringMatchesQueue'
  BY <1>9 DEF PreSend
<1>10. ASSUME StreamEvent PROVE SteeringMatchesQueue'
  BY <1>10 DEF StreamEvent
<1>11. ASSUME TransientError PROVE SteeringMatchesQueue'
  BY <1>11 DEF TransientError
<1>12. ASSUME Resend PROVE SteeringMatchesQueue'
  BY <1>12 DEF Resend
<1>13. ASSUME Overflow PROVE SteeringMatchesQueue'
  BY <1>13 DEF Overflow
<1>14. ASSUME Recovered PROVE SteeringMatchesQueue'
  BY <1>14 DEF Recovered
<1>15. ASSUME RequestFails PROVE SteeringMatchesQueue'
  BY <1>15 DEF RequestFails, EndRun
<1>16. ASSUME Receive PROVE SteeringMatchesQueue'
  BY <1>16 DEF Receive
<1>17. ASSUME OverLimit PROVE SteeringMatchesQueue'
  BY <1>17 DEF OverLimit, EndRun
<1>18. ASSUME Escalate PROVE SteeringMatchesQueue'
  BY <1>18 DEF Escalate
<1>19. ASSUME RecoverOutput PROVE SteeringMatchesQueue'
  BY <1>19 DEF RecoverOutput
<1>20. ASSUME Rejected PROVE SteeringMatchesQueue'
  BY <1>20 DEF Rejected, EndRun
<1>21. ASSUME AnswerRefused PROVE SteeringMatchesQueue'
  BY <1>21 DEF AnswerRefused
<1>22. ASSUME AnswerAccepted PROVE SteeringMatchesQueue'
  BY <1>22 DEF AnswerAccepted
<1>23. ASSUME Finish PROVE SteeringMatchesQueue'
  BY <1>23 DEF Finish, InjectQueue, MoreQueued
<1>24. ASSUME NextTurn PROVE SteeringMatchesQueue'
  BY <1>24 DEF NextTurn
<1>25. ASSUME Complete PROVE SteeringMatchesQueue'
  BY <1>25 DEF Complete, EndRun
<1>26. ASSUME CallTools PROVE SteeringMatchesQueue'
  BY <1>26 DEF CallTools
<1>27. ASSUME StartBatch PROVE SteeringMatchesQueue'
  BY <1>27 DEF StartBatch
<1>28. ASSUME SkipCall PROVE SteeringMatchesQueue'
  BY <1>28 DEF SkipCall, NotRun
<1>29. ASSUME Ask PROVE SteeringMatchesQueue'
  BY <1>29 DEF Ask
<1>30. ASSUME Deny PROVE SteeringMatchesQueue'
  BY <1>30 DEF Deny, NotRun
<1>31. ASSUME StartCall PROVE SteeringMatchesQueue'
  BY <1>31 DEF StartCall
<1>32. ASSUME FinishCall PROVE SteeringMatchesQueue'
  BY <1>32 DEF FinishCall, Finished
<1>33. ASSUME InterruptCall PROVE SteeringMatchesQueue'
  BY <1>33 DEF InterruptCall, Finished
<1>34. ASSUME ExpireCall PROVE SteeringMatchesQueue'
  BY <1>34 DEF ExpireCall, Finished
<1>35. ASSUME ToolsDone PROVE SteeringMatchesQueue'
  BY <1>35 DEF ToolsDone
<1>36. ASSUME ObserveResult PROVE SteeringMatchesQueue'
  BY <1>36 DEF ObserveResult
<1>37. ASSUME TooManyUnknown PROVE SteeringMatchesQueue'
  BY <1>37 DEF TooManyUnknown, EndRun
<1>38. ASSUME RecordResults PROVE SteeringMatchesQueue'
  BY <1>38 DEF RecordResults, InjectQueue
<1>39. ASSUME ExitPlanMode PROVE SteeringMatchesQueue'
  BY <1>39 DEF ExitPlanMode, InjectQueue, EndRun
<1>40. ASSUME UNCHANGED vars PROVE SteeringMatchesQueue'
  BY <1>40 DEF vars
<1> QED
  BY <1>1, <1>2, <1>3, <1>4, <1>5, <1>6, <1>7, <1>8, <1>9, <1>10, <1>11, <1>12,
     <1>13, <1>14, <1>15, <1>16, <1>17, <1>18, <1>19, <1>20, <1>21, <1>22, <1>23, <1>24,
     <1>25, <1>26, <1>27, <1>28, <1>29, <1>30, <1>31, <1>32, <1>33, <1>34, <1>35,
     <1>36, <1>37, <1>38, <1>39, <1>40
     DEF Next, Step, Surroundings

(* Away from the tool phase the conversation is paired to its end.         *)
LEMMA ClosedConversation ==
    ASSUME ConvOK, pc \notin ToolPcs
    PROVE  Paired(conv, abandoned, FALSE)
BY DEF ConvOK, Paired

(* ... and to be paired to its end is all that is asked of it there.       *)
LEMMA OutsideConversation ==
    ASSUME Paired(conv', abandoned', FALSE), pc' \notin ToolPcs
    PROVE  ConvOK'
BY DEF ConvOK, Paired

(* Steps inside the tool phase that touch neither the conversation nor the *)
(* calls.                                                                  *)
LEMMA ToolsKeepConversation ==
    ASSUME ConvOK, UNCHANGED <<conv, abandoned, calls, resp>>,
           pc \in ToolPcs <=> pc' \in ToolPcs
    PROVE  ConvOK'
BY DEF ConvOK, CallIds, CallId, Paired, Answered

(* User messages, final answers and reminders carry no tool calls.         *)
LEMMA MessagesTyped ==
    /\ Assistant({}) \in Message /\ Reminder \in Message
    /\ \A m \in Nat : User(m) \in Message
    /\ Plain(Assistant({})) /\ Plain(Reminder) /\ \A m : Plain(User(m))
BY DEF Assistant, Reminder, User, Message, Plain

(* Taking in the queue keeps a closed conversation paired.                 *)
LEMMA InjectedKeepsPaired ==
    ASSUME NEW c \in Seq(Message), queue \in Seq(Nat), NEW ids, Paired(c, ids, FALSE)
    PROVE  Injected(c) \in Seq(Message) /\ Paired(Injected(c), ids, FALSE)
<1> DEFINE q == [i \in 1..Len(queue) |-> User(queue[i])]
<1>1. Len(queue) \in Nat /\ \A i \in 1..Len(queue) : User(queue[i]) \in Message /\ Plain(User(queue[i]))
  BY MessagesTyped
<1>2. q \in Seq(Message) /\ Len(q) = Len(queue)
  BY <1>1
<1>3. \A i \in 1..Len(q) : Plain(q[i])
  BY <1>1, <1>2
<1>4. Injected(c) = c \o q
  BY DEF Injected
<1> HIDE DEF q
<1>5. c \o q \in Seq(Message)
  BY <1>2
<1>6. Paired(c \o q, ids, FALSE)
  BY <1>2, <1>3, PlainKeepsPaired, Zenon
<1> QED BY <1>4, <1>5, <1>6

(* An answer and a reminder behind it keep a closed conversation paired.   *)
LEMMA TwoPlainMessages ==
    ASSUME NEW c \in Seq(Message), NEW ids, Paired(c, ids, FALSE)
    PROVE  /\ c \o <<Assistant({}), Reminder>> \in Seq(Message)
           /\ Paired(c \o <<Assistant({}), Reminder>>, ids, FALSE)
<1> DEFINE q == <<Assistant({}), Reminder>>
<1>1. q \in Seq(Message) /\ Len(q) = 2 /\ q[1] = Assistant({}) /\ q[2] = Reminder
  BY MessagesTyped
<1>2. \A i \in 1..Len(q) : Plain(q[i])
  BY <1>1, MessagesTyped
<1> HIDE DEF q
<1>3. c \o q \in Seq(Message)
  BY <1>1
<1>4. Paired(c \o q, ids, FALSE)
  BY <1>1, <1>2, PlainKeepsPaired, Zenon
<1> QED BY <1>3, <1>4 DEF q

(* So does one message without tool calls.                                 *)
LEMMA OnePlainMessage ==
    ASSUME NEW c \in Seq(Message), NEW ids, Paired(c, ids, FALSE),
           NEW m \in Message, Plain(m)
    PROVE  Append(c, m) \in Seq(Message) /\ Paired(Append(c, m), ids, FALSE)
<1> DEFINE q == <<m>>
<1>1. q \in Seq(Message) /\ Len(q) = 1 /\ q[1] = m
  OBVIOUS
<1>2. \A i \in 1..Len(q) : Plain(q[i])
  BY <1>1
<1>3. Append(c, m) = c \o q
  OBVIOUS
<1> HIDE DEF q
<1>4. c \o q \in Seq(Message)
  BY <1>1
<1>5. Paired(c \o q, ids, FALSE)
  BY <1>1, <1>2, PlainKeepsPaired, Zenon
<1> QED BY <1>3, <1>4, <1>5

(* The ids of a new response: there are some iff it has calls, and they    *)
(* become the current call ids.                                            *)
LEMMA NewIdsTyped ==
    ASSUME RunTyped
    PROVE  /\ NewIds \in SUBSET Nat
           /\ NewIds = {} <=> resp.calls = <<>>
           /\ calls' = calls + Len(resp.calls) /\ resp' = resp
                 => CallIds(1..Len(resp.calls))' = NewIds
<1>1. resp.calls \in Seq(Kinds) /\ calls \in Nat
  BY CallsTyped DEF RunTyped
<1> DEFINE n == Len(resp.calls)
<1>2. n \in Nat /\ (n = 0 <=> resp.calls = <<>>)
  BY <1>1
<1>3. NewIds = (calls + 1)..(calls + n)
  BY DEF NewIds
<1>4. ASSUME calls' = calls + n, resp' = resp
      PROVE  CallIds(1..n)' = NewIds
  <2>1. CallIds(1..n)' = {(calls' - n) + i : i \in 1..n}
    BY <1>4 DEF CallIds, CallId
  <2>2. calls' - n = calls
    BY <1>1, <1>2, <1>4
  <2>3. \A x \in NewIds : x - calls \in 1..n /\ calls + (x - calls) = x
    BY <1>1, <1>2, <1>3
  <2>4. \A i \in 1..n : calls + i \in NewIds
    BY <1>1, <1>2, <1>3
  <2> QED BY <2>1, <2>2, <2>3, <2>4
<1>5. NewIds \in SUBSET Nat
  BY <1>1, <1>2, <1>3
<1>6. NewIds = {} <=> resp.calls = <<>>
  <2>1. n > 0 => calls + 1 \in NewIds
    BY <1>1, <1>2, <1>3
  <2>2. n = 0 => NewIds = {}
    BY <1>1, <1>2, <1>3
  <2> QED BY <1>2, <2>1, <2>2
<1> QED BY <1>4, <1>5, <1>6

(* When all results have been observed, their ids are those of all calls:  *)
(* none is dropped.                                                        *)
LEMMA RecordedIdsAreTheCalls ==
    ASSUME RunTyped, ToolsTyped, ToolsOK, Observed
    PROVE  /\ RecordedIds = CallIds(1..Len(resp.calls))
           /\ RecordedIds \in SUBSET Nat /\ RecordedIds # {}
<1>1. /\ resp.calls \in Seq(Kinds) /\ resp.calls # <<>> /\ results \in Seq(Results)
      /\ Len(results) = Len(resp.calls)
      /\ \A i \in 1..Len(results) : results[i] # "none"
      /\ pc \in ToolPcs
  BY CallsTyped DEF Observed, ToolsOK, ToolPcs, ToolsTyped
<1>2. {i \in DOMAIN results : results[i] # "none"} = 1..Len(resp.calls)
  BY <1>1
<1>3. RecordedIds = CallIds(1..Len(resp.calls))
  BY <1>2 DEF RecordedIds
<1>4. RecordedIds \in SUBSET Nat
  BY <1>1, <1>3, IdsTyped
<1>5. 1 \in 1..Len(resp.calls)
  BY <1>1
<1> QED BY <1>3, <1>4, <1>5 DEF CallIds

(* Recording the results and taking in the queue closes the conversation.  *)
LEMMA ResultsRecorded ==
    ASSUME TypeOK, ToolsOK, ConvOK, Observed
    PROVE  WithResults \in Seq(Message) /\ Paired(WithResults, abandoned, FALSE)
<1>1. conv \in Seq(Message) /\ queue \in Seq(Nat)
  BY DEF TypeOK, RunTyped
<1>2. pc \in ToolPcs
  BY DEF Observed, ToolPcs
<1>3. /\ Paired(conv, abandoned, TRUE) /\ Len(conv) > 0
      /\ conv[Len(conv)] = Assistant(CallIds(1..Len(resp.calls)))
  BY <1>2 DEF ConvOK, Paired
<1>4. /\ RecordedIds = CallIds(1..Len(resp.calls))
      /\ RecordedIds \in SUBSET Nat /\ RecordedIds # {}
  BY RecordedIdsAreTheCalls DEF TypeOK
<1> DEFINE c == Append(conv, ToolResults(RecordedIds))
<1>5. c \in Seq(Message) /\ Paired(c, abandoned, FALSE)
  BY <1>1, <1>3, <1>4, ResultsCloseTail
<1> HIDE DEF c
<1>6. Injected(c) \in Seq(Message) /\ Paired(Injected(c), abandoned, FALSE)
  BY <1>1, <1>5, InjectedKeepsPaired
<1> QED BY <1>6 DEF WithResults, c

(* Ending a run in the tool phase closes the conversation up to its calls. *)
LEMMA AbandonedConversation ==
    ASSUME RunTyped, conv \in Seq(Message), ToolsOK, ConvOK
    PROVE  Paired(conv, abandoned \cup
                    (IF pc \in ToolPcs THEN CallIds(DOMAIN resp.calls) ELSE {}), FALSE)
<1>1. DOMAIN resp.calls = 1..Len(resp.calls)
  BY CallsTyped
<1>2. CASE pc \in ToolPcs
  <2>1. Paired(conv, abandoned, TRUE) /\ Len(conv) > 0
        /\ conv[Len(conv)].ids = CallIds(1..Len(resp.calls))
    BY <1>2 DEF ConvOK, Paired, Assistant
  <2> QED BY <1>1, <1>2, <2>1, AbandonedClosesTail
<1>3. CASE pc \notin ToolPcs
  BY <1>3, ClosedConversation
<1> QED BY <1>2, <1>3

(* Calls recorded together with a "Skipped" result each are paired.        *)
LEMMA SkippedCallsPaired ==
    ASSUME NEW c \in Seq(Message), NEW ids, NEW new \in SUBSET Nat, new # {},
           Paired(c, ids, FALSE)
    PROVE  LET d == Append(c, Assistant(new)) \o <<ToolResults(new)>>
           IN  d \in Seq(Message) /\ Paired(d, ids, FALSE)
<1> DEFINE e == Append(c, Assistant(new))
<1>1. Paired(e, ids, TRUE) /\ e \in Seq(Message) /\ e[Len(c) + 1] = Assistant(new)
  BY CallsOpenTail, Zenon
<1>2. Len(e) = Len(c) + 1
  OBVIOUS
<1>3. ToolResults(new) \in Message
  BY DEF ToolResults, Message
<1> HIDE DEF e
<1>4. Len(e) > 0 /\ e[Len(e)] = Assistant(new)
  BY <1>1, <1>2
<1>5. e \o <<ToolResults(new)>> = Append(e, ToolResults(new))
  BY <1>1, <1>3
<1>6. Paired(Append(e, ToolResults(new)), ids, FALSE) /\ Append(e, ToolResults(new)) \in Seq(Message)
  BY <1>1, <1>4, ResultsCloseTail, Zenon
<1> QED BY <1>5, <1>6 DEF e

(* The pairing invariant is preserved; one case per action.                *)
LEMMA ConvStep ==
    ASSUME TypeOK, ToolsOK, ConvOK, [Next]_vars
    PROVE  conv' \in Seq(Message) /\ ConvOK'
<1> USE DEF TypeOK
<1>1. ASSUME Start PROVE conv' \in Seq(Message) /\ ConvOK'
  <2>1. User(sent + 1) \in Message /\ Plain(User(sent + 1))
    BY MessagesTyped DEF RunTyped
  <2>2. pc \notin ToolPcs /\ pc' \notin ToolPcs /\ abandoned' = abandoned
    BY <1>1 DEF Start, ToolPcs
  <2>3. conv' = Append(conv, User(sent + 1))
    BY <1>1 DEF Start
  <2> QED BY <2>1, <2>2, <2>3, ClosedConversation, OnePlainMessage, OutsideConversation
<1>2. ASSUME QueueUserMessage PROVE conv' \in Seq(Message) /\ ConvOK'
  BY <1>2, ToolsKeepConversation DEF QueueUserMessage
<1>3. ASSUME Cancel PROVE conv' \in Seq(Message) /\ ConvOK'
  <2>1. abandoned' = abandoned \cup (IF pc \in ToolPcs THEN CallIds(DOMAIN resp.calls) ELSE {})
    BY <1>3 DEF Cancel, ToolPcs
  <2>2. conv' = conv /\ pc' \notin ToolPcs
    BY <1>3 DEF Cancel, EndRun, ToolPcs
  <2> QED BY <2>1, <2>2, AbandonedConversation, OutsideConversation
<1>4. ASSUME Expire PROVE conv' \in Seq(Message) /\ ConvOK'
  BY <1>4, ToolsKeepConversation DEF Expire
<1>5. ASSUME OrphanEnds PROVE conv' \in Seq(Message) /\ ConvOK'
  BY <1>5, ToolsKeepConversation DEF OrphanEnds
<1>6. ASSUME TimesOut PROVE conv' \in Seq(Message) /\ ConvOK'
  BY <1>6, ClosedConversation, OutsideConversation DEF TimesOut, EndRun, ToolPcs
<1>7. ASSUME TopLimit PROVE conv' \in Seq(Message) /\ ConvOK'
  BY <1>7, ClosedConversation, OutsideConversation DEF TopLimit, EndRun, ToolPcs
<1>8. ASSUME TopProceed PROVE conv' \in Seq(Message) /\ ConvOK'
  <2>1. pc \notin ToolPcs /\ pc' \notin ToolPcs /\ abandoned' = abandoned /\ conv' = Injected(conv)
    BY <1>8 DEF TopProceed, ToolPcs
  <2> QED BY <2>1, ClosedConversation, InjectedKeepsPaired, OutsideConversation DEF RunTyped
<1>9. ASSUME PreSend PROVE conv' \in Seq(Message) /\ ConvOK'
  <2>1. pc \notin ToolPcs /\ pc' \notin ToolPcs /\ abandoned' = abandoned
    BY <1>9 DEF PreSend, ToolPcs
  <2>2. conv' = conv \/ conv' \in Compactions(conv)
    BY <1>9 DEF PreSend
  <2> QED BY <2>1, <2>2, ClosedConversation, CompactionKeepsPaired, OutsideConversation
<1>10. ASSUME StreamEvent PROVE conv' \in Seq(Message) /\ ConvOK'
  BY <1>10, ClosedConversation, OutsideConversation DEF StreamEvent, ToolPcs
<1>11. ASSUME TransientError PROVE conv' \in Seq(Message) /\ ConvOK'
  BY <1>11, ClosedConversation, OutsideConversation DEF TransientError, ToolPcs
<1>12. ASSUME Resend PROVE conv' \in Seq(Message) /\ ConvOK'
  BY <1>12, ClosedConversation, OutsideConversation DEF Resend, ToolPcs
<1>13. ASSUME Overflow PROVE conv' \in Seq(Message) /\ ConvOK'
  BY <1>13, ClosedConversation, OutsideConversation DEF Overflow, ToolPcs
<1>14. ASSUME Recovered PROVE conv' \in Seq(Message) /\ ConvOK'
  <2>1. pc \notin ToolPcs /\ pc' \notin ToolPcs /\ abandoned' = abandoned
    BY <1>14 DEF Recovered, ToolPcs
  <2>2. conv' \in Compactions(conv)
    BY <1>14 DEF Recovered
  <2> QED BY <2>1, <2>2, ClosedConversation, CompactionKeepsPaired, OutsideConversation
<1>15. ASSUME RequestFails PROVE conv' \in Seq(Message) /\ ConvOK'
  BY <1>15, ClosedConversation, OutsideConversation DEF RequestFails, EndRun, ToolPcs
<1>16. ASSUME Receive PROVE conv' \in Seq(Message) /\ ConvOK'
  BY <1>16, ClosedConversation, OutsideConversation DEF Receive, ToolPcs
<1>17. ASSUME OverLimit PROVE conv' \in Seq(Message) /\ ConvOK'
  <2>1. pc \notin ToolPcs /\ pc' \notin ToolPcs /\ abandoned' = abandoned
    BY <1>17 DEF OverLimit, EndRun, ToolPcs
  <2>2. Paired(conv, abandoned, FALSE)
    BY <2>1, ClosedConversation
  <2> DEFINE c == Append(conv, Assistant(NewIds))
  <2>3. conv' = c \o SkippedResults(NewIds) /\ NewIds \in SUBSET Nat
    BY <1>17, NewIdsTyped DEF OverLimit
  <2>4. CASE NewIds = {}
    <3>1. conv' = Append(conv, Assistant({}))
      BY <2>3, <2>4, OnePlainMessage, MessagesTyped DEF SkippedResults
    <3> QED BY <2>1, <2>2, <3>1, OnePlainMessage, MessagesTyped, OutsideConversation
  <2>5. CASE NewIds # {}
    <3>1. SkippedResults(NewIds) = <<ToolResults(NewIds)>>
      BY <2>5 DEF SkippedResults
    <3>2. conv' \in Seq(Message) /\ Paired(conv', abandoned, FALSE)
      BY <2>2, <2>3, <2>5, <3>1, SkippedCallsPaired
    <3> QED BY <2>1, <3>2, OutsideConversation
  <2> QED BY <2>4, <2>5
<1>18. ASSUME Escalate PROVE conv' \in Seq(Message) /\ ConvOK'
  <2>1. pc \notin ToolPcs /\ pc' \notin ToolPcs /\ abandoned' = abandoned
    BY <1>18 DEF Escalate, ToolPcs
  <2>2. conv' = conv \/ conv' = conv \o <<Assistant({}), Reminder>>
    BY <1>18 DEF Escalate, Resume
  <2> QED BY <2>1, <2>2, ClosedConversation, TwoPlainMessages, OutsideConversation
<1>19. ASSUME RecoverOutput PROVE conv' \in Seq(Message) /\ ConvOK'
  <2>1. pc \notin ToolPcs /\ pc' \notin ToolPcs /\ abandoned' = abandoned
    BY <1>19 DEF RecoverOutput, ToolPcs
  <2>2. conv' = conv \o <<Assistant({}), Reminder>>
    BY <1>19 DEF RecoverOutput, Resume
  <2> QED BY <2>1, <2>2, ClosedConversation, TwoPlainMessages, OutsideConversation
<1>20. ASSUME Rejected PROVE conv' \in Seq(Message) /\ ConvOK'
  BY <1>20, ClosedConversation, OutsideConversation DEF Rejected, EndRun, ToolPcs
<1>21. ASSUME AnswerRefused PROVE conv' \in Seq(Message) /\ ConvOK'
  <2>1. pc \notin ToolPcs /\ pc' \notin ToolPcs /\ abandoned' = abandoned
    BY <1>21 DEF AnswerRefused, Usable, ToolPcs
  <2>2. conv' = conv \o <<Assistant({}), Reminder>>
    BY <1>21 DEF AnswerRefused, Resume
  <2> QED BY <2>1, <2>2, ClosedConversation, TwoPlainMessages, OutsideConversation
<1>22. ASSUME AnswerAccepted PROVE conv' \in Seq(Message) /\ ConvOK'
  <2>1. Assistant({}) \in Message /\ Plain(Assistant({}))
    BY MessagesTyped
  <2>2. pc \notin ToolPcs /\ pc' \notin ToolPcs /\ abandoned' = abandoned
    BY <1>22 DEF AnswerAccepted, Usable, ToolPcs
  <2>3. conv' = Append(conv, Assistant({}))
    BY <1>22 DEF AnswerAccepted
  <2> QED BY <2>1, <2>2, <2>3, ClosedConversation, OnePlainMessage, OutsideConversation
<1>23. ASSUME Finish PROVE conv' \in Seq(Message) /\ ConvOK'
  <2>1. pc \notin ToolPcs /\ pc' \notin ToolPcs /\ abandoned' = abandoned /\ conv' = Injected(conv)
    BY <1>23 DEF Finish, ToolPcs
  <2> QED BY <2>1, ClosedConversation, InjectedKeepsPaired, OutsideConversation DEF RunTyped
<1>24. ASSUME NextTurn PROVE conv' \in Seq(Message) /\ ConvOK'
  BY <1>24, ClosedConversation, OutsideConversation DEF NextTurn, ToolPcs
<1>25. ASSUME Complete PROVE conv' \in Seq(Message) /\ ConvOK'
  BY <1>25, ClosedConversation, OutsideConversation DEF Complete, EndRun, ToolPcs
<1>26. ASSUME CallTools PROVE conv' \in Seq(Message) /\ ConvOK'
  <2>1. /\ pc \notin ToolPcs /\ pc' \in ToolPcs /\ abandoned' = abandoned
        /\ conv' = Append(conv, Assistant(NewIds))
        /\ calls' = calls + Len(resp.calls) /\ resp' = resp
    BY <1>26 DEF CallTools, Usable, ToolPcs
  <2>2. NewIds \in SUBSET Nat /\ CallIds(1..Len(resp.calls))' = NewIds
    BY <2>1, NewIdsTyped
  <2>3. /\ Paired(conv', abandoned, TRUE) /\ conv' \in Seq(Message)
        /\ conv'[Len(conv) + 1] = Assistant(NewIds)
    BY <2>1, <2>2, ClosedConversation, CallsOpenTail
  <2>4. Len(conv') = Len(conv) + 1
    BY <2>1
  <2> QED BY <2>1, <2>2, <2>3, <2>4 DEF ConvOK, Paired
<1>27. ASSUME StartBatch PROVE conv' \in Seq(Message) /\ ConvOK'
  BY <1>27, ToolsKeepConversation DEF StartBatch, AtSerial, ToolPcs
<1>28. ASSUME SkipCall PROVE conv' \in Seq(Message) /\ ConvOK'
  BY <1>28, ToolsKeepConversation DEF SkipCall, NotRun, AtSerial, ToolPcs
<1>29. ASSUME Ask PROVE conv' \in Seq(Message) /\ ConvOK'
  BY <1>29, ToolsKeepConversation DEF Ask, AtSerial, ToolPcs
<1>30. ASSUME Deny PROVE conv' \in Seq(Message) /\ ConvOK'
  BY <1>30, ToolsKeepConversation DEF Deny, NotRun, AtSerial, ToolPcs
<1>31. ASSUME StartCall PROVE conv' \in Seq(Message) /\ ConvOK'
  BY <1>31, ToolsKeepConversation DEF StartCall, AtSerial, ToolPcs
<1>32. ASSUME FinishCall PROVE conv' \in Seq(Message) /\ ConvOK'
  BY <1>32, ToolsKeepConversation DEF FinishCall, Finished
<1>33. ASSUME InterruptCall PROVE conv' \in Seq(Message) /\ ConvOK'
  BY <1>33, ToolsKeepConversation DEF InterruptCall, Finished
<1>34. ASSUME ExpireCall PROVE conv' \in Seq(Message) /\ ConvOK'
  BY <1>34, ToolsKeepConversation DEF ExpireCall, Finished
<1>35. ASSUME ToolsDone PROVE conv' \in Seq(Message) /\ ConvOK'
  BY <1>35, ToolsKeepConversation DEF ToolsDone, AtSerial, ToolPcs
<1>36. ASSUME ObserveResult PROVE conv' \in Seq(Message) /\ ConvOK'
  BY <1>36, ToolsKeepConversation DEF ObserveResult, AtSerial, ToolPcs
<1>37. ASSUME TooManyUnknown PROVE conv' \in Seq(Message) /\ ConvOK'
  <2>1. abandoned' = abandoned \cup (IF pc \in ToolPcs THEN CallIds(DOMAIN resp.calls) ELSE {})
    BY <1>37 DEF TooManyUnknown, ToolPcs, Observed
  <2>2. conv' = conv /\ pc' \notin ToolPcs
    BY <1>37 DEF TooManyUnknown, EndRun, ToolPcs
  <2> QED BY <2>1, <2>2, AbandonedConversation, OutsideConversation
<1>38. ASSUME RecordResults PROVE conv' \in Seq(Message) /\ ConvOK'
  <2>1. /\ Observed /\ pc' \notin ToolPcs /\ abandoned' = abandoned /\ conv' = WithResults
    BY <1>38 DEF RecordResults, EndRun, ToolPcs
  <2> QED BY <2>1, ResultsRecorded, OutsideConversation
<1>39. ASSUME ExitPlanMode PROVE conv' \in Seq(Message) /\ ConvOK'
  <2>1. /\ Observed /\ pc' \notin ToolPcs /\ abandoned' = abandoned /\ conv' = WithResults
    BY <1>39 DEF ExitPlanMode, EndRun, ToolPcs
  <2> QED BY <2>1, ResultsRecorded, OutsideConversation
<1>40. ASSUME UNCHANGED vars PROVE conv' \in Seq(Message) /\ ConvOK'
  BY <1>40, ToolsKeepConversation DEF vars
<1> QED
  BY <1>1, <1>2, <1>3, <1>4, <1>5, <1>6, <1>7, <1>8, <1>9, <1>10, <1>11, <1>12,
     <1>13, <1>14, <1>15, <1>16, <1>17, <1>18, <1>19, <1>20, <1>21, <1>22, <1>23, <1>24,
     <1>25, <1>26, <1>27, <1>28, <1>29, <1>30, <1>31, <1>32, <1>33, <1>34, <1>35,
     <1>36, <1>37, <1>38, <1>39, <1>40
     DEF Next, Step, Surroundings

(* The calls of a concurrent batch stay concurrency-safe; one case per     *)
(* action.                                                                 *)
LEMMA BatchStep ==
    ASSUME ToolsOK, BatchOK, [Next]_vars
    PROVE  BatchOK'
<1> USE DEF BatchOK, inputVars, loopVars, requestVars, toolVars, gateVars
<1>1. ASSUME Start PROVE BatchOK'
  BY <1>1, NothingRuns DEF Start
<1>2. ASSUME QueueUserMessage PROVE BatchOK'
  BY <1>2 DEF QueueUserMessage, SafeCall
<1>3. ASSUME Cancel PROVE BatchOK'
  BY <1>3 DEF Cancel, EndRun
<1>4. ASSUME Expire PROVE BatchOK'
  BY <1>4 DEF Expire, SafeCall
<1>5. ASSUME OrphanEnds PROVE BatchOK'
  BY <1>5 DEF OrphanEnds, SafeCall
<1>6. ASSUME TimesOut PROVE BatchOK'
  BY <1>6 DEF TimesOut, EndRun
<1>7. ASSUME TopLimit PROVE BatchOK'
  BY <1>7 DEF TopLimit, EndRun
<1>8. ASSUME TopProceed PROVE BatchOK'
  BY <1>8, NothingRuns DEF TopProceed
<1>9. ASSUME PreSend PROVE BatchOK'
  BY <1>9, NothingRuns DEF PreSend
<1>10. ASSUME StreamEvent PROVE BatchOK'
  BY <1>10, NothingRuns DEF StreamEvent
<1>11. ASSUME TransientError PROVE BatchOK'
  BY <1>11, NothingRuns DEF TransientError
<1>12. ASSUME Resend PROVE BatchOK'
  BY <1>12, NothingRuns DEF Resend
<1>13. ASSUME Overflow PROVE BatchOK'
  BY <1>13, NothingRuns DEF Overflow
<1>14. ASSUME Recovered PROVE BatchOK'
  BY <1>14, NothingRuns DEF Recovered
<1>15. ASSUME RequestFails PROVE BatchOK'
  BY <1>15 DEF RequestFails, EndRun
<1>16. ASSUME Receive PROVE BatchOK'
  BY <1>16, NothingRuns DEF Receive
<1>17. ASSUME OverLimit PROVE BatchOK'
  BY <1>17 DEF OverLimit, EndRun
<1>18. ASSUME Escalate PROVE BatchOK'
  BY <1>18, NothingRuns DEF Escalate
<1>19. ASSUME RecoverOutput PROVE BatchOK'
  BY <1>19, NothingRuns DEF RecoverOutput
<1>20. ASSUME Rejected PROVE BatchOK'
  BY <1>20 DEF Rejected, EndRun
<1>21. ASSUME AnswerRefused PROVE BatchOK'
  BY <1>21, NothingRuns DEF AnswerRefused, Usable
<1>22. ASSUME AnswerAccepted PROVE BatchOK'
  BY <1>22, NothingRuns DEF AnswerAccepted, Usable
<1>23. ASSUME Finish PROVE BatchOK'
  BY <1>23, NothingRuns DEF Finish
<1>24. ASSUME NextTurn PROVE BatchOK'
  BY <1>24, NothingRuns DEF NextTurn
<1>25. ASSUME Complete PROVE BatchOK'
  BY <1>25 DEF Complete, EndRun
<1>26. ASSUME CallTools PROVE BatchOK'
  BY <1>26, NothingRuns DEF CallTools, Usable
<1>27. ASSUME StartBatch PROVE BatchOK'
  BY <1>27 DEF StartBatch, IsBatch, SafeCall
<1>28. ASSUME SkipCall PROVE BatchOK'
  BY <1>28 DEF SkipCall, AtSerial, NotRun
<1>29. ASSUME Ask PROVE BatchOK'
  BY <1>29 DEF Ask, SafeCall
<1>30. ASSUME Deny PROVE BatchOK'
  BY <1>30 DEF Deny, AtSerial, NotRun
<1>31. ASSUME StartCall PROVE BatchOK'
  BY <1>31, Zenon DEF StartCall, AtSerial
<1>32. ASSUME FinishCall PROVE BatchOK'
  BY <1>32 DEF FinishCall, Finished, SafeCall
<1>33. ASSUME InterruptCall PROVE BatchOK'
  BY <1>33 DEF InterruptCall, Finished, SafeCall
<1>34. ASSUME ExpireCall PROVE BatchOK'
  BY <1>34 DEF ExpireCall, Finished, SafeCall
<1>35. ASSUME ToolsDone PROVE BatchOK'
  BY <1>35 DEF ToolsDone, SafeCall
<1>36. ASSUME ObserveResult PROVE BatchOK'
  BY <1>36 DEF ObserveResult, SafeCall
<1>37. ASSUME TooManyUnknown PROVE BatchOK'
  BY <1>37 DEF TooManyUnknown, EndRun
<1>38. ASSUME RecordResults PROVE BatchOK'
  BY <1>38 DEF RecordResults
<1>39. ASSUME ExitPlanMode PROVE BatchOK'
  BY <1>39 DEF ExitPlanMode, EndRun
<1>40. ASSUME UNCHANGED vars PROVE BatchOK'
  BY <1>40 DEF vars, SafeCall
<1> QED
  BY <1>1, <1>2, <1>3, <1>4, <1>5, <1>6, <1>7, <1>8, <1>9, <1>10, <1>11, <1>12,
     <1>13, <1>14, <1>15, <1>16, <1>17, <1>18, <1>19, <1>20, <1>21, <1>22, <1>23, <1>24,
     <1>25, <1>26, <1>27, <1>28, <1>29, <1>30, <1>31, <1>32, <1>33, <1>34, <1>35,
     <1>36, <1>37, <1>38, <1>39, <1>40
     DEF Next, Step, Surroundings

(* The initial state satisfies every invariant.                            *)
LEMMA InitInvariant ==
    ASSUME Init
    PROVE  IInv /\ BatchOK /\ SteeringMatchesQueue
<1>1. FlagsTyped
  BY Zenon DEF Init, FlagsTyped
<1>2. RunTyped
  BY LoopAssumption, EmptyResponse DEF Init, RunTyped
<1>3. ToolsTyped /\ conv \in Seq(Message)
  BY DEF Init, ToolsTyped
<1>4. gate \in Gate
  BY DEF Init, NewGate, Gate, GateStatus
<1>5. ToolsOK /\ BatchOK
  BY DEF Init, ToolsOK, ToolPcs, BatchOK
<1>6. ConvOK
  BY DEF Init, ConvOK, Paired, ToolPcs
<1>7. ShownOK
  BY DEF Init, ShownOK
<1>8. SteeringMatchesQueue
  BY Zenon DEF Init, SteeringMatchesQueue
<1> QED BY <1>1, <1>2, <1>3, <1>4, <1>5, <1>6, <1>7, <1>8 DEF IInv, TypeOK

(* Every step preserves the inductive invariant.                           *)
LEMMA StepInvariant ==
    ASSUME IInv, [Next]_vars
    PROVE  IInv'
<1>1. FlagsTyped'
  BY FlagsStep DEF IInv, TypeOK
<1>2. RunTyped'
  BY RunStep DEF IInv, TypeOK
<1>3. ToolsTyped' /\ ToolsOK'
  BY ToolsTypeStep, ToolsStep DEF IInv, TypeOK
<1>4. conv' \in Seq(Message) /\ ConvOK'
  BY ConvStep DEF IInv
<1>5. gate' \in Gate
  BY GateStep DEF IInv, TypeOK
<1>6. ShownOK'
  BY ShownStep DEF IInv, TypeOK
<1> QED BY <1>1, <1>2, <1>3, <1>4, <1>5, <1>6 DEF IInv, TypeOK

(* The inductive invariant holds in every reachable state, for every set   *)
(* of responses and every limit.                                           *)
THEOREM Invariance == Spec => []IInv
<1>1. Init => IInv
  BY InitInvariant
<1>2. IInv /\ [Next]_vars => IInv'
  BY StepInvariant
<1> QED BY <1>1, <1>2, PTL DEF Spec

(* Every variable of run() keeps its type; in particular the retry counter *)
(* stays below MAX_REQUEST_RETRIES.                                        *)
THEOREM TypeCorrect == Spec => []TypeOK
<1>1. IInv => TypeOK
  BY DEF IInv
<1> QED BY <1>1, Invariance, PTL

(* Every request that Agent.run sends pairs its tool calls with their      *)
(* results, whatever was queued, compacted, retried, skipped or limited    *)
(* before.                                                                 *)
THEOREM RequestsArePaired == Spec => []RequestPaired
<1>1. ASSUME IInv, pc = "stream"
      PROVE  CallsAnswered(conv, abandoned) /\ ResultsCalledFor(conv)
  <2>1. DOMAIN conv = 1..Len(conv)
    BY <1>1 DEF IInv, TypeOK
  <2>2. Paired(conv, abandoned, FALSE)
    BY <1>1, ClosedConversation DEF IInv, ToolPcs
  <2> QED BY <2>1, <2>2 DEF Paired, CallsAnswered, ResultsCalledFor
<1>2. IInv => RequestPaired
  BY <1>1 DEF RequestPaired
<1> QED BY <1>2, Invariance, PTL

(* Agent.run never shows the beginnings of two answers for one turn: no    *)
(* retry and no recovery after output.                                     *)
THEOREM OneAnswerPerTurn == Spec => []OneAnswerShown
<1>1. IInv => OneAnswerShown
  BY DEF IInv, ShownOK, OneAnswerShown
<1> QED BY <1>1, Invariance, PTL

(* _steering_event is set exactly while _queued_user_messages is not       *)
(* empty.                                                                  *)
THEOREM SteeringFollowsQueue == Spec => []SteeringMatchesQueue
<1>1. Init => SteeringMatchesQueue
  BY InitInvariant
<1>2. TypeOK /\ SteeringMatchesQueue /\ [Next]_vars => SteeringMatchesQueue'
  BY SteeringStep DEF TypeOK
<1> QED BY <1>1, <1>2, TypeCorrect, PTL DEF Spec

(* _execute_batch_parallel never runs a call that is not concurrency-safe  *)
(* beside another call of its run.                                         *)
THEOREM CallsExclusiveInRun == Spec => []ExclusiveInRun
<1>1. Init => BatchOK
  BY InitInvariant
<1>2. IInv /\ BatchOK /\ [Next]_vars => BatchOK'
  BY BatchStep DEF IInv
<1>3. ASSUME IInv, BatchOK, NEW i \in running, ~ConcurrencySafe(resp.calls[i])
      PROVE  running = {i}
  <2>1. serial
    BY <1>3 DEF BatchOK, SafeCall
  <2>2. running \subseteq {next}
    BY <1>3, <2>1 DEF IInv, ToolsOK
  <2> QED BY <2>2
<1>4. IInv /\ BatchOK => ExclusiveInRun
  BY <1>3 DEF ExclusiveInRun
<1> QED BY <1>1, <1>2, <1>4, Invariance, PTL DEF Spec
==============================================================================
