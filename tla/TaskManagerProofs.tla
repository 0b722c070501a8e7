-------------------------- MODULE TaskManagerProofs --------------------------
(***************************************************************************)
(* Proofs about TaskManager, for any sets of tasks and teammates and any   *)
(* bounds.  A plain task at work is registered and says "running"          *)
(* (PlainRegistered), which is what excludes a second coroutine at a       *)
(* resume and makes each end of a coroutine the end of its task's work in  *)
(* TaskLife.  It is inductive once a plain task's coroutine is known never *)
(* to go idle (TeammatesIdle), where it would be at work under a status    *)
(* that lets the task be resumed.                                          *)
(***************************************************************************)
EXTENDS TaskManager, SequenceTheorems, TLAPS

(* Only a teammate's coroutine goes idle.                                  *)
TeammatesIdle ==
    /\ \A t \in Tasks : member[t] => t \in Teammates
    /\ \A r \in DOMAIN co : co[r].pc \in {"idle", "followup"} => co[r].task \in Teammates

IInv == TypeOK /\ PlainRegistered /\ RunningIsAlive /\ ManifestCurrent /\ TeammatesIdle

(* A coroutine is a well-formed record that works for a task.              *)
LEMMA CoroutineOfTask ==
    ASSUME IInv, NEW r \in DOMAIN co
    PROVE  co[r] \in Coroutine /\ co[r].task \in Tasks
<1>1. co \in Seq(Coroutine)
  BY DEF IInv, TypeOK
<1>2. co[r] \in Coroutine
  BY <1>1, ElementOfSeq, LenProperties
<1> QED BY <1>2 DEF Coroutine

(* What a change of a coroutine's place in the code leaves alone.          *)
LEMMA MovesOne ==
    ASSUME co \in Seq(Coroutine), NEW r \in DOMAIN co,
           NEW pc \in {"created", "agent", "idle", "followup", "done"}, Moves(r, pc)
    PROVE  /\ co' \in Seq(Coroutine) /\ Len(co') = Len(co) /\ DOMAIN co' = DOMAIN co
           /\ co'[r] = [co[r] EXCEPT !.pc = pc]
           /\ \A x \in DOMAIN co \ {r} : co'[x] = co[x]
<1>1. co[r] \in Coroutine /\ r \in 1..Len(co)
  BY ElementOfSeq, LenProperties
<1>2. [co[r] EXCEPT !.pc = pc] \in Coroutine
  BY <1>1 DEF Coroutine
<1>3. co' = [co EXCEPT ![r] = [co[r] EXCEPT !.pc = pc]]
  BY DEF Moves
<1> QED BY <1>1, <1>2, <1>3, ExceptSeq

(* A coroutine added at the end.                                           *)
LEMMA AddsOne ==
    ASSUME co \in Seq(Coroutine), NEW c \in Coroutine, co' = Append(co, c)
    PROVE  /\ co' \in Seq(Coroutine) /\ Len(co') = Len(co) + 1
           /\ DOMAIN co = 1..Len(co) /\ DOMAIN co' = 1..(Len(co) + 1) /\ Len(co) \in Nat
           /\ co'[Len(co) + 1] = c
           /\ \A x \in DOMAIN co : co'[x] = co[x]
BY AppendProperties, LenProperties

(* Cancelling changes nothing but the flag.                                *)
LEMMA CancelsSome ==
    ASSUME co \in Seq(Coroutine), NEW R, CancelCoroutines(R)
    PROVE  /\ co' \in Seq(Coroutine) /\ Len(co') = Len(co) /\ DOMAIN co' = DOMAIN co
           /\ \A x \in DOMAIN co : co'[x].task = co[x].task /\ co'[x].pc = co[x].pc
<1>1. Len(co) \in Nat /\ DOMAIN co = 1..Len(co) /\ \A x \in DOMAIN co : co[x] \in Coroutine
  BY ElementOfSeq, LenProperties
<1>2. \A x \in DOMAIN co : co'[x] \in Coroutine
                            /\ co'[x].task = co[x].task /\ co'[x].pc = co[x].pc
  BY <1>1 DEF CancelCoroutines, Coroutine
<1>3. co' \in [1..Len(co) -> Coroutine]
  BY <1>1, <1>2 DEF CancelCoroutines
<1>4. co' \in Seq(Coroutine)
  BY <1>1, <1>3, SeqDef
<1> QED BY <1>1, <1>2, <1>3, <1>4, LenProperties

(* A fresh process satisfies the invariant.                                *)
LEMMA InitInvariant == Init => IInv
BY TasksAssumption
   DEF Init, IInv, TypeOK, PlainRegistered, RunningIsAlive, ManifestCurrent, TeammatesIdle,
       Status, Live, Plain

(* Each group of steps preserves the invariant.                            *)
LEMMA StartStep ==
    ASSUME IInv, NEW t \in Tasks, NEW team \in BOOLEAN, status[t] # "running",
           team => t \in Teammates, StartTask(t, team)
    PROVE  IInv'
<1> DEFINE c == [task |-> t, team |-> team, polls |-> 0, cancelled |-> FALSE,
                 pc |-> "created"]
<1>1. c \in Coroutine /\ co' = Append(co, c)
  BY TasksAssumption DEF Coroutine, StartTask, PersistManifest
<1> HIDE DEF c
<1>2. /\ co' \in Seq(Coroutine) /\ Len(co') = Len(co) + 1
      /\ DOMAIN co = 1..Len(co) /\ DOMAIN co' = 1..(Len(co) + 1) /\ Len(co) \in Nat
      /\ co'[Len(co) + 1] = c
      /\ \A x \in DOMAIN co : co'[x] = co[x]
  BY <1>1, AddsOne DEF IInv, TypeOK
<1>3. /\ status' = [status EXCEPT ![t] = "running"] /\ manifest' = status'
      /\ entry' = [entry EXCEPT ![t] = Len(co) + 1]
      /\ member' = [member EXCEPT ![t] = team]
      /\ UNCHANGED <<notify, mail, mode, restarts, stillborn>>
  BY <1>2 DEF StartTask, PersistManifest
<1>4. TypeOK'
  <2>1. status' \in [Tasks -> Status] /\ manifest' \in [Tasks -> Status]
    BY <1>3 DEF IInv, TypeOK, Status
  <2>2. entry' \in [Tasks -> 0..Len(co')]
    BY <1>2, <1>3 DEF IInv, TypeOK
  <2> QED BY <1>2, <1>3, <2>1, <2>2 DEF IInv, TypeOK
<1>5. PlainRegistered'
  <2> SUFFICES ASSUME NEW x \in DOMAIN co', co'[x].pc # "done", co'[x].task \in Plain
               PROVE  status'[co'[x].task] = "running" /\ entry'[co'[x].task] = x
    BY DEF PlainRegistered, Live, Plain
  <2>1. CASE x = Len(co) + 1
    BY <2>1, <1>2, <1>3 DEF IInv, TypeOK, c
  <2>2. CASE x \in DOMAIN co
    <3>1. status[co[x].task] = "running" /\ entry[co[x].task] = x /\ co[x].task \in Tasks
      BY <2>2, <1>2 DEF IInv, PlainRegistered, Live, Plain
    <3> QED BY <3>1, <2>2, <1>2, <1>3 DEF IInv, TypeOK
  <2> QED BY <2>1, <2>2, <1>2
<1>6. RunningIsAlive'
  <2> SUFFICES ASSUME NEW u \in Tasks, status'[u] = "running", u \notin stillborn
               PROVE  \E x \in DOMAIN co' :
                         co'[x].task = u /\ co'[x].pc \in {"created", "agent"}
    BY <1>3 DEF RunningIsAlive
  <2>1. CASE u = t
    BY <2>1, <1>2 DEF c
  <2>2. CASE u # t
    <3>1. status[u] = "running"
      BY <2>2, <1>3 DEF IInv, TypeOK
    <3>2. PICK x \in DOMAIN co : co[x].task = u /\ co[x].pc \in {"created", "agent"}
      BY <3>1 DEF IInv, RunningIsAlive
    <3> QED BY <3>2, <1>2
  <2> QED BY <2>1, <2>2
<1>7. ManifestCurrent'
  BY <1>3 DEF ManifestCurrent
<1>8. TeammatesIdle'
  <2>1. \A u \in Tasks : member'[u] => u \in Teammates
    BY <1>3 DEF IInv, TeammatesIdle, TypeOK
  <2>2. ASSUME NEW x \in DOMAIN co', co'[x].pc \in {"idle", "followup"}
        PROVE  co'[x].task \in Teammates
    <3>1. x # Len(co) + 1
      BY <2>2, <1>2 DEF c
    <3>2. x \in DOMAIN co
      BY <3>1, <1>2
    <3> QED BY <3>2, <2>2, <1>2 DEF IInv, TeammatesIdle
  <2> QED BY <2>1, <2>2 DEF TeammatesIdle
<1> QED BY <1>4, <1>5, <1>6, <1>7, <1>8 DEF IInv

(* A coroutine goes on without touching the state of its task.             *)
LEMMA MoveStep ==
    ASSUME IInv, NEW r \in DOMAIN co,
           co' \in Seq(Coroutine), Len(co') = Len(co), DOMAIN co' = DOMAIN co,
           \A x \in DOMAIN co \ {r} : co'[x] = co[x],
           co'[r].task = co[r].task, Live(r),
           co[r].pc \in {"created", "agent"} => co'[r].pc \in {"created", "agent"},
           co'[r].pc \in {"idle", "followup"} => co[r].task \in Teammates,
           UNCHANGED <<status, manifest, entry, notify, member, mode, restarts, stillborn>>,
           mail' \in [Tasks -> BOOLEAN]
    PROVE  IInv'
<1>1. \A x \in DOMAIN co : co'[x].task = co[x].task /\ (Live(x)' => Live(x))
  BY DEF Live
<1>2. TypeOK'
  BY DEF IInv, TypeOK
<1>3. PlainRegistered'
  BY <1>1 DEF IInv, PlainRegistered, Plain
<1>4. RunningIsAlive'
  <2> SUFFICES ASSUME NEW u \in Tasks, status[u] = "running", u \notin stillborn
               PROVE  \E x \in DOMAIN co :
                         co'[x].task = u /\ co'[x].pc \in {"created", "agent"}
    BY DEF RunningIsAlive
  <2>1. PICK x \in DOMAIN co : co[x].task = u /\ co[x].pc \in {"created", "agent"}
    BY DEF IInv, RunningIsAlive
  <2> QED BY <2>1
<1>5. ManifestCurrent'
  BY DEF IInv, ManifestCurrent
<1>6. TeammatesIdle'
  BY DEF IInv, TeammatesIdle
<1> QED BY <1>2, <1>3, <1>4, <1>5, <1>6 DEF IInv

(* A coroutine ends and says so; the status it leaves behind is final, or  *)
(* it was only idling.                                                     *)
LEMMA FinishStep ==
    ASSUME IInv, NEW r \in DOMAIN co, NEW final \in Status, FinishAs(r, final), Live(r),
           final # "running" \/ (co[r].pc = "idle" /\ final = status[co[r].task])
    PROVE  IInv'
<1> DEFINE t == co[r].task
<1>0. co \in Seq(Coroutine) /\ co[r] \in Coroutine
  BY CoroutineOfTask DEF IInv, TypeOK
<1>1. co \in Seq(Coroutine) /\ t \in Tasks
  BY <1>0 DEF Coroutine
<1>2. /\ co' \in Seq(Coroutine) /\ Len(co') = Len(co) /\ DOMAIN co' = DOMAIN co
      /\ co'[r] = [co[r] EXCEPT !.pc = "done"]
      /\ \A x \in DOMAIN co \ {r} : co'[x] = co[x]
  BY <1>1, MovesOne DEF FinishAs, PersistManifest
<1>3. /\ status' = [status EXCEPT ![t] = final] /\ manifest' = status'
      /\ entry' = [entry EXCEPT ![t] = 0]
      /\ notify' = [notify EXCEPT ![t] = @ + 1]
      /\ UNCHANGED <<member, mode, restarts, mail, stillborn>>
  BY DEF FinishAs, PersistManifest, Same
<1>5. co'[r].task = t /\ co'[r].pc = "done"
  BY <1>0, <1>2 DEF Coroutine
<1> HIDE DEF t
<1>6. TypeOK'
  <2>1. status' \in [Tasks -> Status] /\ manifest' \in [Tasks -> Status]
    BY <1>3 DEF IInv, TypeOK
  <2>2. entry' \in [Tasks -> 0..Len(co')]
    BY <1>1, <1>2, <1>3, LenProperties DEF IInv, TypeOK
  <2>3. notify' \in [Tasks -> Nat]
    BY <1>3, <1>1 DEF IInv, TypeOK
  <2> QED BY <1>2, <1>3, <2>1, <2>2, <2>3 DEF IInv, TypeOK
<1>7. PlainRegistered'
  <2> SUFFICES ASSUME NEW x \in DOMAIN co, co'[x].pc # "done", co'[x].task \in Plain
               PROVE  status'[co'[x].task] = "running" /\ entry'[co'[x].task] = x
    BY <1>2 DEF PlainRegistered, Live, Plain
  <2>1. x # r /\ co'[x] = co[x]
    BY <1>2, <1>5
  <2>2. status[co[x].task] = "running" /\ entry[co[x].task] = x /\ co[x].task \in Tasks
    BY <2>1 DEF IInv, PlainRegistered, Live, Plain
  <2>3. co[x].task # t
    <3> SUFFICES ASSUME co[x].task = t PROVE FALSE
      OBVIOUS
    <3>1. entry[t] = r
      BY <2>1 DEF IInv, PlainRegistered, t
    <3> QED BY <3>1, <2>1, <2>2
  <2> QED BY <2>1, <2>2, <2>3, <1>3 DEF IInv, TypeOK
<1>8. RunningIsAlive'
  <2> SUFFICES ASSUME NEW u \in Tasks, status'[u] = "running", u \notin stillborn
               PROVE  \E x \in DOMAIN co :
                         co'[x].task = u /\ co'[x].pc \in {"created", "agent"}
    BY <1>2, <1>3 DEF RunningIsAlive
  <2>1. status[u] = "running" /\ (u = t => co[r].pc = "idle")
    BY <1>3, <1>1 DEF IInv, TypeOK, t
  <2>2. PICK x \in DOMAIN co : co[x].task = u /\ co[x].pc \in {"created", "agent"}
    BY <2>1 DEF IInv, RunningIsAlive
  <2>3. x # r
    BY <2>1, <2>2 DEF t
  <2> QED BY <2>2, <2>3, <1>2
<1>9. ManifestCurrent'
  BY <1>3 DEF ManifestCurrent
<1>10. TeammatesIdle'
  BY <1>2, <1>3, <1>5 DEF IInv, TeammatesIdle
<1> QED BY <1>6, <1>7, <1>8, <1>9, <1>10 DEF IInv

(* One case per step of a coroutine.                                       *)
LEMMA CoroutineInvariant ==
    ASSUME IInv, NEW r \in DOMAIN co, CoroutineStep(r)
    PROVE  IInv'
<1>0. co \in Seq(Coroutine) /\ co[r] \in Coroutine /\ co[r].task \in Tasks
  BY CoroutineOfTask DEF IInv, TypeOK
<1>1. CASE FirstStep(r)
  <2>1. Moves(r, "agent") /\ co[r].pc = "created"
    BY <1>1 DEF FirstStep
  <2>2. /\ co' \in Seq(Coroutine) /\ Len(co') = Len(co) /\ DOMAIN co' = DOMAIN co
        /\ co'[r] = [co[r] EXCEPT !.pc = "agent"]
        /\ \A x \in DOMAIN co \ {r} : co'[x] = co[x]
    BY <2>1, <1>0, MovesOne
  <2>3. co'[r].task = co[r].task /\ co'[r].pc = "agent"
    BY <2>2, <1>0 DEF Coroutine
  <2> QED BY <1>1, <2>1, <2>2, <2>3, MoveStep DEF FirstStep, Same, Live, IInv, TypeOK
<1>2. CASE DiesUnstarted(r)
  <2>1. Moves(r, "done") /\ co[r].pc = "created"
    BY <1>2 DEF DiesUnstarted
  <2>2. /\ co' \in Seq(Coroutine) /\ Len(co') = Len(co) /\ DOMAIN co' = DOMAIN co
        /\ co'[r] = [co[r] EXCEPT !.pc = "done"]
        /\ \A x \in DOMAIN co \ {r} : co'[x] = co[x]
    BY <2>1, <1>0, MovesOne
  <2>3. co'[r].task = co[r].task /\ co'[r].pc = "done"
    BY <2>2, <1>0 DEF Coroutine
  <2>4. /\ stillborn' = stillborn \cup {co[r].task}
        /\ UNCHANGED <<status, manifest, entry, notify, member, mail, mode, restarts>>
    BY <1>2 DEF DiesUnstarted, Same
  <2>5. TypeOK'
    BY <2>2, <2>4, <1>0 DEF IInv, TypeOK
  <2>6. PlainRegistered'
    BY <2>2, <2>3, <2>4 DEF IInv, PlainRegistered, Plain, Live
  <2>7. RunningIsAlive'
    <3> SUFFICES ASSUME NEW u \in Tasks, status[u] = "running", u \notin stillborn'
                 PROVE  \E x \in DOMAIN co :
                           co'[x].task = u /\ co'[x].pc \in {"created", "agent"}
      BY <2>2, <2>4 DEF RunningIsAlive
    <3>1. PICK x \in DOMAIN co : co[x].task = u /\ co[x].pc \in {"created", "agent"}
      BY <2>4 DEF IInv, RunningIsAlive
    <3>2. x # r
      BY <3>1, <2>4
    <3> QED BY <3>1, <3>2, <2>2
  <2>8. ManifestCurrent'
    BY <2>4 DEF IInv, ManifestCurrent
  <2>9. TeammatesIdle'
    BY <2>2, <2>3, <2>4 DEF IInv, TeammatesIdle
  <2> QED BY <2>5, <2>6, <2>7, <2>8, <2>9 DEF IInv
<1>3. CASE AgentReturns(r)
  <2>1. CASE FinishAs(r, "completed")
    <3>1. FinishAs(r, "completed") /\ Live(r)
      BY <1>3, <2>1 DEF AgentReturns, Live
    <3> QED BY <3>1, FinishStep DEF Status, Ended
  <2>2. CASE GoesIdle(r)
    <3> DEFINE t == co[r].task
    <3>1. Moves(r, "idle") /\ co[r].pc = "agent" /\ member[co[r].task]
      BY <1>3, <2>2 DEF AgentReturns, GoesIdle
    <3>2. /\ co' \in Seq(Coroutine) /\ Len(co') = Len(co) /\ DOMAIN co' = DOMAIN co
          /\ co'[r] = [co[r] EXCEPT !.pc = "idle"]
          /\ \A x \in DOMAIN co \ {r} : co'[x] = co[x]
      BY <3>1, <1>0, MovesOne
    <3>3. co'[r].task = co[r].task /\ co'[r].pc = "idle"
      BY <3>2, <1>0 DEF Coroutine
    <3>4. /\ status' = [status EXCEPT ![t] = "completed"]
          /\ UNCHANGED <<manifest, entry, notify, member, mail, mode, restarts, stillborn>>
      BY <2>2 DEF GoesIdle, Same
    <3>5. t \in Teammates
      BY <3>1, <1>0 DEF IInv, TeammatesIdle
    <3>6. \A u \in Plain : u # t
      BY <3>5 DEF Plain
    <3> HIDE DEF t
    <3>7. TypeOK'
      <4>1. status' \in [Tasks -> Status]
        BY <3>4 DEF IInv, TypeOK, Status, Ended
      <4> QED BY <4>1, <3>2, <3>4 DEF IInv, TypeOK
    <3>8. PlainRegistered'
      <4> SUFFICES ASSUME NEW x \in DOMAIN co, co'[x].pc # "done", co'[x].task \in Plain
                   PROVE  status'[co'[x].task] = "running" /\ entry[co'[x].task] = x
        BY <3>2, <3>4 DEF PlainRegistered, Live, Plain
      <4>1. co'[x].task = co[x].task /\ co[x].pc # "done"
        BY <3>1, <3>2, <3>3
      <4> QED BY <4>1, <3>4, <3>6 DEF IInv, PlainRegistered, Live, TypeOK, Plain
    <3>9. RunningIsAlive'
      <4> SUFFICES ASSUME NEW u \in Tasks, status'[u] = "running", u \notin stillborn
                   PROVE  \E x \in DOMAIN co :
                             co'[x].task = u /\ co'[x].pc \in {"created", "agent"}
        BY <3>2, <3>4 DEF RunningIsAlive
      <4>1. u # t /\ status[u] = "running"
        BY <3>4 DEF IInv, TypeOK
      <4>2. PICK x \in DOMAIN co : co[x].task = u /\ co[x].pc \in {"created", "agent"}
        BY <4>1 DEF IInv, RunningIsAlive
      <4>3. x # r
        BY <4>1, <4>2 DEF t
      <4> QED BY <4>2, <4>3, <3>2
    <3>10. ManifestCurrent'
      BY <3>4, <3>6 DEF IInv, ManifestCurrent, TypeOK, Plain
    <3>11. TeammatesIdle'
      BY <3>2, <3>3, <3>4, <3>5 DEF IInv, TeammatesIdle, t
    <3> QED BY <3>7, <3>8, <3>9, <3>10, <3>11 DEF IInv
  <2> QED BY <1>3, <2>1, <2>2 DEF AgentReturns
<1>4. CASE Poll(r)
  <2> DEFINE t == co[r].task
             pc == IF member[t] /\ mail[t] THEN "followup" ELSE "idle"
             c == [co[r] EXCEPT !.polls = @ + 1, !.pc = pc]
  <2>1. co' = [co EXCEPT ![r] = c] /\ co[r].pc = "idle"
    BY <1>4 DEF Poll
  <2>2. c \in Coroutine /\ c.task = t /\ c.pc \in {"idle", "followup"}
    BY <1>0, <1>4, TasksAssumption DEF Coroutine, Poll, MorePolls
  <2> HIDE DEF c
  <2>3. /\ co' \in Seq(Coroutine) /\ Len(co') = Len(co) /\ DOMAIN co' = DOMAIN co
        /\ co'[r] = c /\ \A x \in DOMAIN co \ {r} : co'[x] = co[x]
    BY <1>0, <2>1, <2>2, ExceptSeq, LenProperties
  <2>4. mail' \in [Tasks -> BOOLEAN]
    BY <1>0, <1>4 DEF Poll, IInv, TypeOK
  <2>5. co[r].task \in Teammates
    BY <2>1 DEF IInv, TeammatesIdle
  <2> QED BY <1>0, <1>4, <2>1, <2>2, <2>3, <2>4, <2>5, MoveStep DEF Poll, Same, Live
<1>5. CASE FollowupReturns(r)
  <2>1. Moves(r, "idle") /\ co[r].pc = "followup"
    BY <1>5 DEF FollowupReturns
  <2>2. /\ co' \in Seq(Coroutine) /\ Len(co') = Len(co) /\ DOMAIN co' = DOMAIN co
        /\ co'[r] = [co[r] EXCEPT !.pc = "idle"]
        /\ \A x \in DOMAIN co \ {r} : co'[x] = co[x]
    BY <2>1, <1>0, MovesOne
  <2>3. co'[r].task = co[r].task /\ co'[r].pc = "idle" /\ co[r].task \in Teammates
    BY <2>1, <2>2, <1>0 DEF Coroutine, IInv, TeammatesIdle
  <2> QED BY <1>5, <2>1, <2>2, <2>3, MoveStep DEF FollowupReturns, Same, Live, IInv, TypeOK
<1>6. CASE IdleLoopEnds(r)
  <2>1. FinishAs(r, status[co[r].task]) /\ Live(r) /\ co[r].pc = "idle"
    BY <1>6 DEF IdleLoopEnds, Live
  <2>2. status[co[r].task] \in Status
    BY <1>0 DEF IInv, TypeOK
  <2> QED BY <2>1, <2>2, FinishStep
<1>7. CASE Raises(r)
  <2>1. FinishAs(r, "failed") /\ Live(r)
    BY <1>7 DEF Raises, Live
  <2> QED BY <2>1, FinishStep DEF Status, Ended
<1>8. CASE TakesCancellation(r)
  <2>1. FinishAs(r, "cancelled") /\ Live(r)
    BY <1>8 DEF TakesCancellation, Live
  <2> QED BY <2>1, FinishStep DEF Status, Ended
<1> QED BY <1>1, <1>2, <1>3, <1>4, <1>5, <1>6, <1>7, <1>8 DEF CoroutineStep

(* Cancelling coroutines leaves the invariant as it is.                    *)
LEMMA CancelInvariant ==
    ASSUME IInv, NEW R, CancelCoroutines(R),
           UNCHANGED <<status, manifest, entry, notify, member, mail, mode, restarts, stillborn>>
    PROVE  IInv'
<1>1. /\ co' \in Seq(Coroutine) /\ Len(co') = Len(co) /\ DOMAIN co' = DOMAIN co
      /\ \A x \in DOMAIN co : co'[x].task = co[x].task /\ co'[x].pc = co[x].pc
  BY CancelsSome DEF IInv, TypeOK
<1>2. TypeOK'
  BY <1>1 DEF IInv, TypeOK
<1>3. PlainRegistered'
  BY <1>1 DEF IInv, PlainRegistered, Live, Plain
<1>4. RunningIsAlive'
  BY <1>1 DEF IInv, RunningIsAlive
<1>5. ManifestCurrent' /\ TeammatesIdle'
  BY <1>1 DEF IInv, ManifestCurrent, TeammatesIdle
<1> QED BY <1>2, <1>3, <1>4, <1>5 DEF IInv

(* So does a step that touches neither the tasks nor their coroutines.     *)
LEMMA QuietInvariant ==
    ASSUME IInv, UNCHANGED <<status, manifest, co, entry, member, restarts, stillborn>>,
           notify' \in [Tasks -> Nat], mail' \in [Tasks -> BOOLEAN],
           mode' \in {"up", "draining", "closed"}
    PROVE  IInv'
<1>1. TypeOK'
  BY DEF IInv, TypeOK
<1>2. PlainRegistered' /\ RunningIsAlive'
  BY DEF IInv, PlainRegistered, RunningIsAlive, Live, Plain
<1>3. ManifestCurrent' /\ TeammatesIdle'
  BY DEF IInv, ManifestCurrent, TeammatesIdle
<1> QED BY <1>1, <1>2, <1>3 DEF IInv

(* What _load_manifest rebuilds after the end of a process satisfies it.   *)
LEMMA RestartInvariant == IInv /\ Restart => IInv'
<1> SUFFICES ASSUME IInv, Restart PROVE IInv'
  OBVIOUS
<1>1. /\ Loaded \in [Tasks -> Status] /\ \A t \in Tasks : Loaded[t] # "running"
      /\ co' = <<>> /\ DOMAIN co' = {}
  BY DEF IInv, TypeOK, Loaded, Restart, Status
<1>2. TypeOK'
  BY <1>1 DEF IInv, TypeOK, Restart
<1>3. PlainRegistered' /\ RunningIsAlive'
  BY <1>1 DEF PlainRegistered, RunningIsAlive, Live, Restart
<1>4. ManifestCurrent' /\ TeammatesIdle'
  BY <1>1 DEF ManifestCurrent, TeammatesIdle, Restart
<1> QED BY <1>2, <1>3, <1>4 DEF IInv

(* Every step of the task manager preserves the invariant.                 *)
LEMMA StepInvariant == IInv /\ [Next]_vars => IInv'
<1> SUFFICES ASSUME IInv, [Next]_vars PROVE IInv'
  OBVIOUS
<1>0. notify \in [Tasks -> Nat] /\ mail \in [Tasks -> BOOLEAN]
      /\ mode \in {"up", "draining", "closed"}
  BY DEF IInv, TypeOK
<1>1. ASSUME NEW r \in DOMAIN co, CoroutineStep(r) PROVE IInv'
  BY <1>1, CoroutineInvariant
<1>2. ASSUME NEW t \in Tasks, Launch(t) PROVE IInv'
  <2>1. status[t] # "running" /\ StartTask(t, t \in Teammates) /\ (t \in Teammates) \in BOOLEAN
    BY <1>2 DEF Launch
  <2>2. \A team \in BOOLEAN : (team => t \in Teammates) /\ StartTask(t, team) => IInv'
    BY <2>1, StartStep
  <2> QED BY <2>1, <2>2, Zenon
<1>3. ASSUME NEW t \in Tasks, Resume(t) PROVE IInv'
  BY <1>3, StartStep DEF Resume, MayResume
<1>4. ASSUME NEW t \in Tasks, Cancel(t) PROVE IInv'
  BY <1>4, CancelInvariant DEF Cancel
<1>5. ASSUME NEW t \in Tasks, MailArrives(t) PROVE IInv'
  BY <1>0, <1>5, QuietInvariant DEF MailArrives
<1>6. CASE PollCompleted
  BY <1>0, <1>6, QuietInvariant DEF PollCompleted
<1>7. CASE Drain
  BY <1>0, <1>7, QuietInvariant DEF Drain
<1>8. CASE DrainTimesOut
  BY <1>8, CancelInvariant DEF DrainTimesOut
<1>9. CASE Drained
  BY <1>0, <1>9, QuietInvariant DEF Drained
<1>10. CASE Restart
  BY <1>10, RestartInvariant
<1>11. CASE UNCHANGED vars
  BY <1>0, <1>11, QuietInvariant DEF vars
<1> QED BY <1>1, <1>2, <1>3, <1>4, <1>5, <1>6, <1>7, <1>8, <1>9, <1>10, <1>11 DEF Next

(* The invariant holds in every reachable state.                           *)
LEMMA Invariance == Spec => []IInv
BY InitInvariant, StepInvariant, PTL DEF Spec

(* The state is well formed in every reachable state.                      *)
THEOREM TasksTypeCorrect == Spec => []TypeOK
BY Invariance, PTL DEF IInv

(* launch, resume and the finally block of _run_background together keep   *)
(* at most one coroutine of a plain task at work, registered in            *)
(* _async_tasks, where cancel and drain find it.                           *)
THEOREM PlainTasksRegistered == Spec => []PlainRegistered
BY Invariance, PTL DEF IInv

(* No status "running" outlives the coroutine that would replace it,       *)
(* except when the coroutine was cancelled before its first step.          *)
THEOREM RunningTasksAlive == Spec => []RunningIsAlive
BY Invariance, PTL DEF IInv

(* tasks.json says of a plain task what the process knows of it.           *)
THEOREM ManifestIsCurrent == Spec => []ManifestCurrent
BY Invariance, PTL DEF IInv

-----------------------------------------------------------------------------
(* The drain at the end of a headless run.                                 *)

NoTeam == \A r \in DOMAIN co : ~co[r].team

AllRegistered ==
    \A r \in DOMAIN co :
        Live(r) => /\ co[r].pc \in {"created", "agent"}
                   /\ status[co[r].task] = "running" /\ entry[co[r].task] = r

(* While no teammate was launched, every coroutine is one the drain finds: *)
(* also that of a task that was a teammate's in the process before.        *)
DrainInv ==
    /\ mode # "up" => NoTeam
    /\ NoTeam => AllRegistered /\ \A t \in Tasks : ~member[t]
    /\ DrainDropsNothing

(* What every step of a coroutine leaves alone.                            *)
LEMMA CoroutineKeeps ==
    ASSUME IInv, NEW r \in DOMAIN co, CoroutineStep(r)
    PROVE  /\ DOMAIN co' = DOMAIN co /\ \A x \in DOMAIN co \ {r} : co'[x] = co[x]
           /\ co'[r].team = co[r].team /\ co'[r].task = co[r].task
           /\ UNCHANGED <<member, mode>> /\ Live(r)
<1>1. co \in Seq(Coroutine) /\ co[r] \in Coroutine
  BY CoroutineOfTask DEF IInv, TypeOK
<1>2. CASE Poll(r)
  <2> DEFINE c == [co[r] EXCEPT !.polls = @ + 1,
                                !.pc = IF member[co[r].task] /\ mail[co[r].task]
                                         THEN "followup" ELSE "idle"]
  <2>1. co' = [co EXCEPT ![r] = c] /\ UNCHANGED <<member, mode>> /\ Live(r)
    BY <1>2 DEF Poll, Same, Live
  <2>2. c.team = co[r].team /\ c.task = co[r].task
    BY <1>1 DEF Coroutine
  <2> HIDE DEF c
  <2> QED BY <1>1, <2>1, <2>2
<1>3. ASSUME NEW pc, Moves(r, pc)
      PROVE  /\ DOMAIN co' = DOMAIN co /\ \A x \in DOMAIN co \ {r} : co'[x] = co[x]
             /\ co'[r].team = co[r].team /\ co'[r].task = co[r].task
  <2> DEFINE c == [co[r] EXCEPT !.pc = pc]
  <2>1. co' = [co EXCEPT ![r] = c]
    BY <1>3 DEF Moves
  <2>2. c.team = co[r].team /\ c.task = co[r].task
    BY <1>1 DEF Coroutine
  <2> HIDE DEF c
  <2> QED BY <1>1, <2>1, <2>2
<1>4. CASE ~Poll(r)
  <2>1. \E pc : Moves(r, pc)
    BY <1>4 DEF CoroutineStep, FirstStep, DiesUnstarted, AgentReturns, GoesIdle,
       FollowupReturns, IdleLoopEnds, Raises, TakesCancellation, FinishAs, PersistManifest
  <2>2. UNCHANGED <<member, mode>> /\ Live(r)
    BY <1>4 DEF CoroutineStep, FirstStep, DiesUnstarted, AgentReturns, GoesIdle,
       FollowupReturns, IdleLoopEnds, Raises, TakesCancellation, FinishAs, PersistManifest, Same, Live
  <2> QED BY <2>1, <2>2, <1>3
<1> QED BY <1>2, <1>4

(* No coroutine's own step, the finally block included, disturbs a drain.  *)
LEMMA DrainCoroutine ==
    ASSUME IInv, DrainInv, NEW r \in DOMAIN co, CoroutineStep(r), mode # "closed"
    PROVE  DrainInv'
<1>1. /\ DOMAIN co' = DOMAIN co /\ \A x \in DOMAIN co \ {r} : co'[x] = co[x]
      /\ co'[r].team = co[r].team /\ co'[r].task = co[r].task
      /\ UNCHANGED <<member, mode>> /\ Live(r)
  BY CoroutineKeeps
<1>2. NoTeam' <=> NoTeam
  BY <1>1 DEF NoTeam
<1>3. co[r] \in Coroutine /\ co[r].task \in Tasks /\ status \in [Tasks -> Status]
      /\ entry \in [Tasks -> 0..Len(co)]
  BY CoroutineOfTask DEF IInv, TypeOK
<1>4. ASSUME NoTeam
      PROVE  AllRegistered'
  <2>1. AllRegistered /\ ~member[co[r].task] /\ co[r].pc \in {"created", "agent"}
    BY <1>1, <1>3, <1>4 DEF DrainInv, AllRegistered
  <2>2. CASE FirstStep(r)
    <3>1. co'[r].pc = "agent" /\ UNCHANGED <<status, entry>>
      BY <1>1, <1>3, <2>2 DEF FirstStep, Moves, Coroutine
    <3> QED BY <1>1, <2>1, <3>1 DEF AllRegistered, Live
  <2>3. CASE DiesUnstarted(r)
    <3>1. co'[r].pc = "done" /\ UNCHANGED <<status, entry>>
      BY <1>1, <1>3, <2>3 DEF DiesUnstarted, Moves, Coroutine
    <3> QED BY <1>1, <2>1, <3>1 DEF AllRegistered, Live
  <2>4. ASSUME NEW final, FinishAs(r, final)
        PROVE  AllRegistered'
    <3>1. co'[r].pc = "done"
      BY <1>1, <1>3, <2>4 DEF FinishAs, PersistManifest, Moves, Coroutine
    <3>2. /\ \A t \in Tasks \ {co[r].task} : status'[t] = status[t] /\ entry'[t] = entry[t]
      BY <1>3, <2>4 DEF FinishAs, PersistManifest
    <3>3. \A x \in DOMAIN co \ {r} : Live(x) => co[x].task \in Tasks \ {co[r].task}
      <4> TAKE x \in DOMAIN co \ {r}
      <4> HAVE Live(x)
      <4>1. entry[co[x].task] = x /\ entry[co[r].task] = r
        BY <1>1, <2>1 DEF AllRegistered
      <4>2. co[x].task \in Tasks
        BY CoroutineOfTask
      <4> QED BY <4>1, <4>2
    <3> QED BY <1>1, <2>1, <3>1, <3>2, <3>3 DEF AllRegistered, Live
  <2>5. FirstStep(r) \/ DiesUnstarted(r) \/ \E final : FinishAs(r, final)
    BY <2>1 DEF CoroutineStep, AgentReturns, GoesIdle, Poll, FollowupReturns, IdleLoopEnds,
       Raises, TakesCancellation
  <2> QED BY <2>2, <2>3, <2>4, <2>5
<1> QED BY <1>1, <1>2, <1>4 DEF DrainInv, DrainDropsNothing

(* A launch or a resume leaves the drain's account intact.                 *)
LEMMA DrainStart ==
    ASSUME IInv, DrainInv, NEW t \in Tasks, NEW team \in BOOLEAN, status[t] # "running",
           StartTask(t, team)
    PROVE  DrainInv'
<1> DEFINE c == [task |-> t, team |-> team, polls |-> 0, cancelled |-> FALSE,
                 pc |-> "created"]
<1>1. c \in Coroutine /\ co' = Append(co, c)
  BY TasksAssumption DEF Coroutine, StartTask, PersistManifest
<1>2. c.task = t /\ c.team = team /\ c.pc = "created"
  OBVIOUS
<1> HIDE DEF c
<1>3. /\ co' \in Seq(Coroutine) /\ Len(co') = Len(co) + 1
      /\ DOMAIN co = 1..Len(co) /\ DOMAIN co' = 1..(Len(co) + 1) /\ Len(co) \in Nat
      /\ co'[Len(co) + 1] = c
      /\ \A x \in DOMAIN co : co'[x] = co[x]
  BY <1>1, AddsOne DEF IInv, TypeOK
<1>4. /\ status' = [status EXCEPT ![t] = "running"]
      /\ entry' = [entry EXCEPT ![t] = Len(co) + 1]
      /\ member' = [member EXCEPT ![t] = team]
      /\ mode = "up" /\ mode' = "up"
      /\ status \in [Tasks -> Status] /\ entry \in [Tasks -> 0..Len(co)]
      /\ member \in [Tasks -> BOOLEAN]
  BY <1>3 DEF StartTask, PersistManifest, IInv, TypeOK
<1>5. ASSUME NoTeam'
      PROVE  AllRegistered' /\ \A u \in Tasks : ~member'[u]
  <2>1. NoTeam /\ ~team
    <3>1. Len(co) + 1 \in DOMAIN co' /\ \A x \in DOMAIN co : x \in DOMAIN co'
      BY <1>3
    <3> QED BY <1>2, <1>3, <1>5, <3>1 DEF NoTeam
  <2>2. AllRegistered /\ \A u \in Tasks : ~member[u]
    BY <2>1 DEF DrainInv
  <2>3. ASSUME NEW x \in DOMAIN co', Live(x)'
        PROVE  /\ co'[x].pc \in {"created", "agent"}
               /\ status'[co'[x].task] = "running" /\ entry'[co'[x].task] = x
    <3>1. CASE x = Len(co) + 1
      BY <3>1, <1>2, <1>3, <1>4
    <3>2. CASE x \in DOMAIN co
      <4>1. /\ co[x].pc \in {"created", "agent"} /\ co'[x] = co[x]
            /\ status[co[x].task] = "running" /\ entry[co[x].task] = x
        BY <3>2, <2>2, <2>3, <1>3 DEF AllRegistered, Live
      <4>2. co[x].task \in Tasks /\ co[x].task # t
        BY <3>2, <4>1, CoroutineOfTask
      <4> QED BY <4>1, <4>2, <1>4
    <3> QED BY <3>1, <3>2, <1>3
  <2> QED BY <2>1, <2>2, <2>3, <1>4 DEF AllRegistered
<1> QED BY <1>4, <1>5 DEF DrainInv, DrainDropsNothing

(* Cancelling coroutines, by hand or in the drain, loses none of them.     *)
LEMMA DrainCancels ==
    ASSUME IInv, DrainInv, NEW R, CancelCoroutines(R), mode # "closed",
           UNCHANGED <<status, entry, member, mode>>
    PROVE  DrainInv'
<1>1. /\ DOMAIN co' = DOMAIN co
      /\ \A x \in DOMAIN co : co'[x].task = co[x].task /\ co'[x].pc = co[x].pc
  BY CancelsSome DEF IInv, TypeOK
<1>2. \A x \in DOMAIN co : co'[x].team = co[x].team
  <2> TAKE x \in DOMAIN co
  <2>1. co[x] \in Coroutine
    BY CoroutineOfTask
  <2> QED BY <2>1 DEF CancelCoroutines, Coroutine
<1>3. NoTeam' <=> NoTeam
  BY <1>1, <1>2 DEF NoTeam
<1>4. AllRegistered => AllRegistered'
  BY <1>1 DEF AllRegistered, Live
<1> QED BY <1>3, <1>4 DEF DrainInv, DrainDropsNothing

(* Every step preserves what the drain relies on.                          *)
LEMMA DrainStep == IInv /\ DrainInv /\ [Next]_vars => DrainInv'
<1> SUFFICES ASSUME IInv, DrainInv, [Next]_vars PROVE DrainInv'
  OBVIOUS
<1> USE DEF NoTeam, AllRegistered, Live
<1>1. ASSUME NEW r \in DOMAIN co, mode # "closed", CoroutineStep(r) PROVE DrainInv'
  BY <1>1, DrainCoroutine
<1>2. ASSUME NEW t \in Tasks, Launch(t) PROVE DrainInv'
  <2>1. status[t] # "running" /\ StartTask(t, t \in Teammates) /\ (t \in Teammates) \in BOOLEAN
    BY <1>2 DEF Launch
  <2>2. \A team \in BOOLEAN : StartTask(t, team) => DrainInv'
    BY <2>1, DrainStart
  <2> QED BY <2>1, <2>2, Zenon
<1>3. ASSUME NEW t \in Tasks, Resume(t) PROVE DrainInv'
  BY <1>3, DrainStart DEF Resume, MayResume
<1>4. ASSUME NEW t \in Tasks, Cancel(t) PROVE DrainInv'
  BY <1>4, DrainCancels DEF Cancel
<1>5. ASSUME NEW t \in Tasks, MailArrives(t) PROVE DrainInv'
  BY <1>5 DEF MailArrives, DrainInv, DrainDropsNothing
<1>6. CASE PollCompleted
  BY <1>6 DEF PollCompleted, DrainInv, DrainDropsNothing
<1>7. CASE Drain
  BY <1>7 DEF Drain, DrainInv, DrainDropsNothing
<1>8. CASE DrainTimesOut
  BY <1>8, DrainCancels DEF DrainTimesOut
<1>9. CASE Drained
  <2>1. \A r \in DOMAIN co : ~Live(r)
    BY <1>9 DEF Drained, Registered, DrainInv
  <2> QED BY <1>9, <2>1 DEF Drained, DrainInv, DrainDropsNothing
<1>10. CASE Restart
  <2>1. DOMAIN co' = {} /\ mode' = "up" /\ member' = [t \in Tasks |-> FALSE]
    BY <1>10 DEF Restart
  <2> QED BY <2>1 DEF DrainInv, DrainDropsNothing
<1>11. CASE UNCHANGED vars
  BY <1>11 DEF vars, DrainInv, DrainDropsNothing
<1> QED BY <1>1, <1>2, <1>3, <1>4, <1>5, <1>6, <1>7, <1>8, <1>9, <1>10, <1>11 DEF Next

(* A headless run that has drained leaves no coroutine to be dropped with  *)
(* the event loop and no report unmade.                                    *)
THEOREM DrainLeavesNothing == Spec => []DrainDropsNothing
<1>1. Init => DrainInv
  BY DEF Init, DrainInv, NoTeam, AllRegistered, DrainDropsNothing
<1>2. DrainInv => DrainDropsNothing
  BY DEF DrainInv
<1> QED BY <1>1, <1>2, DrainStep, Invariance, PTL DEF Spec

-----------------------------------------------------------------------------
(* Plain tasks implement TaskLife.                                         *)

(* The initial states map to those of TaskLife.                            *)
LEMMA LifeBegins == Init => Life!Init
BY DEF Init, Life!Init, PhaseOf, Plain

(* Nothing TaskLife sees has changed.                                      *)
LEMMA LifeStutters ==
    ASSUME \A t \in Plain : status'[t] = status[t] /\ notify'[t] = notify[t]
    PROVE  UNCHANGED Life!lifeVars
BY DEF Life!lifeVars

(* The end of a plain task's coroutine is the end of the task's work.      *)
LEMMA LifeEnds ==
    ASSUME IInv, NEW r \in DOMAIN co, Live(r), NEW final \in Status, FinishAs(r, final),
           final \in Ended \/ co[r].pc = "idle"
    PROVE  Life!Next \/ UNCHANGED Life!lifeVars
<1> DEFINE t == co[r].task
<1>1. t \in Tasks
  BY CoroutineOfTask
<1>2. /\ status' = [status EXCEPT ![t] = final]
      /\ notify' = [notify EXCEPT ![t] = @ + 1]
  BY DEF FinishAs, PersistManifest
<1>3. status \in [Tasks -> Status] /\ notify \in [Tasks -> Nat]
  BY DEF IInv, TypeOK
<1>4. CASE t \in Teammates
  BY <1>1, <1>2, <1>3, <1>4, LifeStutters DEF Plain
<1>5. CASE t \notin Teammates
  <2>1. t \in Plain /\ status[t] = "running" /\ final \in Ended
    BY <1>1, <1>5 DEF IInv, PlainRegistered, TeammatesIdle, Plain
  <2>2. PICK u \in Plain : u = t
    BY <2>1
  <2>3. Life!End(u)
    BY <2>1, <2>2, <1>2, <1>3 DEF Life!End, PhaseOf, Ended, Plain
  <2> QED BY <2>3 DEF Life!Next
<1> QED BY <1>4, <1>5

(* A launch or a resume is a Begin of TaskLife, or invisible to it.        *)
LEMMA LifeStarts ==
    ASSUME IInv, NEW t \in Tasks, NEW team, status[t] # "running", StartTask(t, team)
    PROVE  Life!Next \/ UNCHANGED Life!lifeVars
<1>1. status' = [status EXCEPT ![t] = "running"] /\ notify' = notify
  BY DEF StartTask, PersistManifest
<1>2. status \in [Tasks -> Status]
  BY DEF IInv, TypeOK
<1>3. CASE t \in Teammates
  BY <1>1, <1>2, <1>3, LifeStutters DEF Plain
<1>4. CASE t \notin Teammates
  <2>1. t \in Plain
    BY <1>4 DEF Plain
  <2>2. Life!Begin(t)
    BY <2>1, <1>1, <1>2 DEF Life!Begin, PhaseOf, Status, Ended, Plain
  <2> QED BY <2>1, <2>2 DEF Life!Next
<1> QED BY <1>3, <1>4

(* A coroutine's step is an End of TaskLife, or invisible to it.           *)
LEMMA LifeOfCoroutine ==
    ASSUME IInv, NEW r \in DOMAIN co, CoroutineStep(r)
    PROVE  Life!Next \/ UNCHANGED Life!lifeVars
<1>0. co[r].task \in Tasks
  BY CoroutineOfTask
<1>1. CASE FirstStep(r) \/ DiesUnstarted(r) \/ Poll(r) \/ FollowupReturns(r)
  <2>1. UNCHANGED <<status, notify>>
    BY <1>1 DEF FirstStep, DiesUnstarted, Poll, FollowupReturns
  <2> QED BY <2>1, LifeStutters
<1>2. CASE AgentReturns(r)
  <2>1. CASE FinishAs(r, "completed")
    <3>1. FinishAs(r, "completed") /\ Live(r)
      BY <1>2, <2>1 DEF AgentReturns, Live
    <3> QED BY <3>1, LifeEnds DEF Status, Ended
  <2>2. CASE GoesIdle(r)
    <3>1. status' = [status EXCEPT ![co[r].task] = "completed"] /\ notify' = notify
      BY <2>2 DEF GoesIdle
    <3>2. co[r].task \in Teammates /\ status \in [Tasks -> Status]
      BY <1>0, <2>2 DEF GoesIdle, IInv, TypeOK, TeammatesIdle
    <3> QED BY <3>1, <3>2, LifeStutters DEF Plain
  <2> QED BY <1>2, <2>1, <2>2 DEF AgentReturns
<1>3. CASE IdleLoopEnds(r)
  <2>1. FinishAs(r, status[co[r].task]) /\ Live(r) /\ co[r].pc = "idle"
    BY <1>3 DEF IdleLoopEnds, Live
  <2>2. status[co[r].task] \in Status
    BY <1>0 DEF IInv, TypeOK
  <2> QED BY <2>1, <2>2, LifeEnds
<1>4. CASE Raises(r)
  <2>1. FinishAs(r, "failed") /\ Live(r)
    BY <1>4 DEF Raises, Live
  <2> QED BY <2>1, LifeEnds DEF Status, Ended
<1>5. CASE TakesCancellation(r)
  <2>1. FinishAs(r, "cancelled") /\ Live(r)
    BY <1>5 DEF TakesCancellation, Live
  <2> QED BY <2>1, LifeEnds DEF Status, Ended
<1> QED BY <1>1, <1>2, <1>3, <1>4, <1>5 DEF CoroutineStep

(* The end of the process is ProcessEnds of TaskLife.                      *)
LEMMA LifeRestarts == IInv /\ Restart => Life!ProcessEnds
BY DEF IInv, TypeOK, ManifestCurrent, Restart, Loaded, Life!ProcessEnds, PhaseOf, Plain, Status, Ended

(* Emptying the notification queue is a Report of TaskLife.                *)
LEMMA LifeReports ==
    ASSUME UNCHANGED status, notify' = [t \in Tasks |-> 0]
    PROVE  Life!Report
BY DEF Life!Report, Plain

(* Every step of the task manager is one of TaskLife or a stutter.         *)
LEMMA LifeStep == IInv /\ [Next]_vars => [Life!Next]_Life!lifeVars
<1> SUFFICES ASSUME IInv, [Next]_vars PROVE Life!Next \/ UNCHANGED Life!lifeVars
  OBVIOUS
<1>1. ASSUME NEW r \in DOMAIN co, CoroutineStep(r)
      PROVE  Life!Next \/ UNCHANGED Life!lifeVars
  BY <1>1, LifeOfCoroutine
<1>2. ASSUME NEW t \in Tasks, Launch(t) \/ Resume(t)
      PROVE  Life!Next \/ UNCHANGED Life!lifeVars
  <2>1. status[t] # "running" /\ \E team : StartTask(t, team)
    BY <1>2 DEF Launch, Resume, MayResume
  <2> QED BY <2>1, LifeStarts
<1>3. ASSUME NEW t \in Tasks, Cancel(t) \/ MailArrives(t)
      PROVE  UNCHANGED Life!lifeVars
  BY <1>3, LifeStutters DEF Cancel, MailArrives
<1>4. CASE PollCompleted \/ Drained
  BY <1>4, LifeReports DEF PollCompleted, Drained, Life!Next
<1>5. CASE Drain \/ DrainTimesOut \/ UNCHANGED vars
  BY <1>5, LifeStutters DEF Drain, DrainTimesOut, vars
<1>6. CASE Restart
  BY <1>6, LifeRestarts DEF Life!Next
<1> QED BY <1>1, <1>2, <1>3, <1>4, <1>5, <1>6 DEF Next

(* Whatever is launched, resumed, cancelled or killed, a plain task is     *)
(* begun only while it is not at work, each of its ends is put in the      *)
(* notification queue once, and only the end of the process loses any.     *)
THEOREM ImplementsTaskLife == Spec => LifePromise
BY LifeBegins, LifeStep, Invariance, PTL DEF Spec, Life!Spec, LifePromise
=============================================================================
