--------------------------- MODULE TeamworkProofs ---------------------------
(***************************************************************************)
(* Proofs about Teamwork, for any processes, messages, agents and bounds.  *)
(***************************************************************************)
EXTENDS Teamwork, FiniteSetTheorems, SequenceTheorems, WellFoundedInduction, TLAPS

-----------------------------------------------------------------------------
(* Induction over the length of a list.                                    *)

(* A set of naturals that is not empty has a least element; what would     *)
(* have a least counterexample has none.                                   *)
LEMMA Least ==
    ASSUME NEW S, S \subseteq Nat, S # {}
    PROVE  \E m \in S : \A k \in S : m <= k
<1>1. PICK m \in S : \A k \in S : ~(<<k, m>> \in OpToRel(<, Nat))
  BY NatLessThanWellFounded, WFMin
<1>2. \A k \in S : ~(k < m)
  BY <1>1 DEF OpToRel
<1> QED BY <1>2

(* Where a fact holds at 0 and from each number to the next, it holds up   *)
(* to n; the fact is given as the set of the numbers it holds of.          *)
LEMMA UpTo ==
    ASSUME NEW n \in Nat, NEW S, 0 \in S, \A i \in 1..n : i - 1 \in S => i \in S
    PROVE  \A i \in 0..n : i \in S
<1> DEFINE bad == {i \in 0..n : i \notin S}
<1> SUFFICES ASSUME bad # {} PROVE FALSE
  OBVIOUS
<1>1. bad \subseteq Nat
  OBVIOUS
<1>2. PICK m \in bad : \A k \in bad : m <= k
  BY <1>1, Least
<1>3. m \in 1..n /\ m - 1 \in 0..n /\ ~(m <= m - 1)
  OBVIOUS
<1>4. m - 1 \in S
  BY <1>2, <1>3
<1> QED BY <1>3, <1>4

(* The loop of consume over the first n entries of a list.                 *)
Loop(list, n, f) ==
    f = [i \in 0..n |->
            IF i = 0 THEN <<>>
            ELSE IF list[i].read THEN f[i - 1] ELSE Append(f[i - 1], list[i].msg)]

(* The loop that collects the unread messages of a list has a value.       *)
LEMMA LoopExists ==
    ASSUME NEW list, NEW n \in Nat
    PROVE  \E f : Loop(list, n, f)
<1> DEFINE S == {k \in 0..n : \E f : Loop(list, k, f)}
<1>1. 0 \in S
  <2> DEFINE f == [i \in 0..0 |-> <<>>]
  <2>1. Loop(list, 0, f)
    BY DEF Loop
  <2> QED BY <2>1
<1>2. ASSUME NEW i \in 1..n, i - 1 \in S
      PROVE  i \in S
  <2>1. PICK f : Loop(list, i - 1, f)
    BY <1>2
  <2> DEFINE next == IF list[i].read THEN f[i - 1] ELSE Append(f[i - 1], list[i].msg)
             g == [j \in 0..i |-> IF j = i THEN next ELSE f[j]]
  <2>2. \A j \in 0..(i - 1) :
          f[j] = IF j = 0 THEN <<>>
                 ELSE IF list[j].read THEN f[j - 1] ELSE Append(f[j - 1], list[j].msg)
    BY <2>1 DEF Loop
  <2> HIDE DEF next
  <2>3. g[i] = next /\ \A j \in 0..(i - 1) : g[j] = f[j]
    OBVIOUS
  <2> HIDE DEF g
  <2>4. next = IF list[i].read THEN g[i - 1] ELSE Append(g[i - 1], list[i].msg)
    BY <2>3 DEF next
  <2>5. \A j \in 0..i :
          g[j] = IF j = 0 THEN <<>>
                 ELSE IF list[j].read THEN g[j - 1] ELSE Append(g[j - 1], list[j].msg)
    <3> TAKE j \in 0..i
    <3>1. CASE j = i
      BY <3>1, <2>3, <2>4
    <3>2. CASE j # i
      <4>1. j \in 0..(i - 1) /\ (j # 0 => j - 1 \in 0..(i - 1))
        BY <3>2
      <4> QED BY <4>1, <2>2, <2>3
    <3> QED BY <3>1, <3>2
  <2>6. Loop(list, i, g)
    BY <2>5 DEF Loop, g
  <2> QED BY <2>6
<1>3. \A i \in 0..n : i \in S
  BY <1>1, <1>2, UpTo
<1> QED BY <1>3

(* Unread is what that loop has collected at the end of the list.          *)
LEMMA UnreadIsLoop ==
    ASSUME NEW list, Len(list) \in Nat
    PROVE  \E f : /\ P!Unread(list) = f[Len(list)] /\ f[0] = <<>>
                  /\ \A i \in 1..Len(list) :
                        f[i] = IF list[i].read THEN f[i - 1] ELSE Append(f[i - 1], list[i].msg)
<1> DEFINE f == CHOOSE g : Loop(list, Len(list), g)
<1>1. Loop(list, Len(list), f)
  <2>1. \E g : Loop(list, Len(list), g)
    BY LoopExists
  <2> QED BY <2>1
<1>2. P!Unread(list) = f[Len(list)]
  BY DEF P!Unread, Loop
<1> HIDE DEF f
<1>3. \A i \in 0..Len(list) :
        f[i] = IF i = 0 THEN <<>>
               ELSE IF list[i].read THEN f[i - 1] ELSE Append(f[i - 1], list[i].msg)
  BY <1>1, Zenon DEF Loop
<1>4. f[0] = <<>> /\ \A i \in 1..Len(list) :
                        f[i] = IF list[i].read THEN f[i - 1] ELSE Append(f[i - 1], list[i].msg)
  <2>1. 0 \in 0..Len(list) /\ \A i \in 1..Len(list) : i \in 0..Len(list) /\ i # 0
    OBVIOUS
  <2> HIDE DEF f
  <2> QED BY <1>3, <2>1, Zenon
<1> QED BY <1>2, <1>4

(* The unread messages of a list are messages.                             *)
LEMMA UnreadType ==
    ASSUME NEW list \in Seq(P!Entry)
    PROVE  P!Unread(list) \in Seq(Messages)
<1>0. Len(list) \in Nat
  OBVIOUS
<1>1. PICK f : /\ P!Unread(list) = f[Len(list)] /\ f[0] = <<>>
               /\ \A i \in 1..Len(list) :
                    f[i] = IF list[i].read THEN f[i - 1] ELSE Append(f[i - 1], list[i].msg)
  BY <1>0, UnreadIsLoop
<1> DEFINE S == {i \in Nat : f[i] \in Seq(Messages)}
<1>2. 0 \in S
  <2>1. <<>> \in Seq(Messages)
    OBVIOUS
  <2> QED BY <1>1, <2>1, Zenon
<1>3. ASSUME NEW i \in 1..Len(list), i - 1 \in S
      PROVE  i \in S
  <2>1. list[i] \in P!Entry
    BY ElementOfSeq
  <2>2. list[i].msg \in Messages
    BY <2>1 DEF P!Entry
  <2>3. f[i - 1] \in Seq(Messages)
    BY <1>3
  <2>4. Append(f[i - 1], list[i].msg) \in Seq(Messages)
    BY <2>2, <2>3
  <2>5. f[i] \in Seq(Messages)
    BY <1>1, <2>3, <2>4, Zenon
  <2> QED BY <2>5
<1>4. \A i \in 0..Len(list) : i \in S
  BY <1>0, <1>2, <1>3, UpTo
<1> QED BY <1>0, <1>1, <1>4

(* A list of which everything is read has none.                            *)
LEMMA UnreadNone ==
    ASSUME NEW list \in Seq(P!Entry), \A i \in 1..Len(list) : list[i].read
    PROVE  P!Unread(list) = <<>>
<1>0. Len(list) \in Nat
  OBVIOUS
<1>1. PICK f : /\ P!Unread(list) = f[Len(list)] /\ f[0] = <<>>
               /\ \A i \in 1..Len(list) :
                    f[i] = IF list[i].read THEN f[i - 1] ELSE Append(f[i - 1], list[i].msg)
  BY <1>0, UnreadIsLoop
<1> DEFINE S == {i \in Nat : f[i] = <<>>}
<1>2. 0 \in S
  BY <1>1
<1>3. ASSUME NEW i \in 1..Len(list), i - 1 \in S
      PROVE  i \in S
  BY <1>1, <1>3
<1>4. \A i \in 0..Len(list) : i \in S
  BY <1>0, <1>2, <1>3, UpTo
<1> QED BY <1>0, <1>1, <1>4

(* A message appended unread is the last unread one.                       *)
LEMMA UnreadAppend ==
    ASSUME NEW list \in Seq(P!Entry), NEW m \in Messages
    PROVE  P!Unread(Append(list, [msg |-> m, read |-> FALSE])) = Append(P!Unread(list), m)
<1> DEFINE n == Len(list)
           longer == Append(list, [msg |-> m, read |-> FALSE])
<1>1. /\ longer \in Seq(P!Entry) /\ Len(longer) = n + 1 /\ n \in Nat
      /\ \A i \in 1..n : longer[i] = list[i]
      /\ longer[n + 1] = [msg |-> m, read |-> FALSE]
  BY DEF P!Entry
<1> HIDE DEF longer
<1>2. PICK f : /\ P!Unread(list) = f[n] /\ f[0] = <<>>
               /\ \A i \in 1..n :
                    f[i] = IF list[i].read THEN f[i - 1] ELSE Append(f[i - 1], list[i].msg)
  BY UnreadIsLoop
<1>3. PICK g : /\ P!Unread(longer) = g[n + 1] /\ g[0] = <<>>
               /\ \A i \in 1..(n + 1) :
                    g[i] = IF longer[i].read THEN g[i - 1] ELSE Append(g[i - 1], longer[i].msg)
  <2>1. Len(longer) \in Nat
    BY <1>1
  <2> QED BY <1>1, <2>1, UnreadIsLoop
<1> DEFINE S == {i \in Nat : f[i] = g[i]}
<1>4. 0 \in S
  BY <1>2, <1>3
<1>5. ASSUME NEW i \in 1..n, i - 1 \in S
      PROVE  i \in S
  BY <1>1, <1>2, <1>3, <1>5
<1>6. \A i \in 0..n : i \in S
  BY <1>1, <1>4, <1>5, UpTo
<1>7. f[n] = g[n]
  BY <1>1, <1>6
<1>8. g[n + 1] = Append(g[n], m)
  <2>1. n + 1 \in 1..(n + 1) /\ (n + 1) - 1 = n
    BY <1>1
  <2>2. g[n + 1] = IF longer[n + 1].read THEN g[(n + 1) - 1]
                   ELSE Append(g[(n + 1) - 1], longer[n + 1].msg)
    BY <1>3, <2>1, Zenon
  <2> QED BY <1>1, <2>1, <2>2
<1> QED BY <1>2, <1>3, <1>7, <1>8 DEF longer

-----------------------------------------------------------------------------
(* The mailbox: what its state looks like.                                 *)

MailType ==
    /\ letters = Torn \/ letters \in Seq(P!Entry)
    /\ lock = NoOne \/ lock \in [holder : Procs, old : BOOLEAN]
    /\ posAt \in [Procs -> P!Places] /\ op \in [Procs -> Messages \cup {"consume"}]
    /\ buf \in [Procs -> Seq(P!Entry)] /\ exists \in BOOLEAN /\ forced \in BOOLEAN

(* While the lock was not forced and the mailbox is there, the lock is of  *)
(* the one process inside, the file is torn only while that process fills  *)
(* it, and what it is about to change is what the file holds.              *)
Held ==
    /\ \A p \in Procs : P!Inside(p) => lock # NoOne /\ lock.holder = p
    /\ letters = Torn => P!Filling
    /\ \A p \in Procs : posAt[p] = "write" => buf[p] = letters

MailInv == MailType /\ (~forced /\ exists => Held)

(* What becomes of a list is a list.                                       *)
LEMMA ChangedList ==
    ASSUME NEW list \in Seq(P!Entry), NEW o \in Messages \cup {"consume"}
    PROVE  P!Changed(list, o) \in Seq(P!Entry)
<1>1. CASE o = "consume"
  <2>1. \A i \in 1..Len(list) : [list[i] EXCEPT !.read = TRUE] \in P!Entry
    <3> TAKE i \in 1..Len(list)
    <3>1. list[i] \in P!Entry
      BY ElementOfSeq
    <3> QED BY <3>1 DEF P!Entry
  <2>2. P!Changed(list, o) = [i \in 1..Len(list) |-> [list[i] EXCEPT !.read = TRUE]]
    BY <1>1 DEF P!Changed
  <2>3. P!Changed(list, o) \in [1..Len(list) -> P!Entry]
    BY <2>1, <2>2
  <2> QED BY <2>3, SeqDef
<1>2. CASE o # "consume"
  <2>1. [msg |-> o, read |-> FALSE] \in P!Entry
    BY <1>2 DEF P!Entry
  <2>2. P!Changed(list, o) = Append(list, [msg |-> o, read |-> FALSE])
    BY <1>2 DEF P!Changed
  <2> QED BY <2>1, <2>2, AppendProperties
<1> QED BY <1>1, <1>2

(* Every step keeps the shape of the state; one case per action.           *)
LEMMA MailTypeStep ==
    ASSUME MailType, P!Next
    PROVE  MailType'
<1> USE DEF MailType, P!Go, P!Places
<1>1. CASE P!Ages
  <2>1. lock \in [holder : Procs, old : BOOLEAN] /\ lock' = [lock EXCEPT !.old = TRUE]
    BY <1>1 DEF P!Ages
  <2>2. lock' \in [holder : Procs, old : BOOLEAN]
    BY <2>1
  <2> QED BY <1>1, <2>2 DEF P!Ages
<1>2. CASE P!CleanupAll
  <2>1. <<>> \in Seq(P!Entry)
    OBVIOUS
  <2> QED BY <1>2, <2>1 DEF P!CleanupAll
<1>3. ASSUME NEW p \in Procs, P!Begin(p) PROVE MailType'
  <2>1. op' \in [Procs -> Messages \cup {"consume"}]
    BY <1>3 DEF P!Begin, P!Write, P!Consume
  <2> QED BY <1>3, <2>1 DEF P!Begin
<1>4. ASSUME NEW p \in Procs, P!Acquire(p) PROVE MailType'
  <2>1. lock' \in [holder : Procs, old : BOOLEAN]
    BY <1>4 DEF P!Acquire
  <2> QED BY <1>4, <2>1 DEF P!Acquire
<1>5. ASSUME NEW p \in Procs,
             P!LockFails(p) \/ P!Busy(p) \/ P!GiveUp(p) \/ P!ReadFails(p) \/ P!WriteFails(p)
      PROVE  MailType'
  BY <1>5 DEF P!LockFails, P!Busy, P!GiveUp, P!ReadFails, P!WriteFails
<1>6. ASSUME NEW p \in Procs, P!BreakLock(p) \/ P!Unlock(p) \/ P!Dies(p) PROVE MailType'
  BY <1>6 DEF P!BreakLock, P!Unlock, P!Dies
<1>7. ASSUME NEW p \in Procs, P!Read(p) PROVE MailType'
  <2>1. (IF letters = Torn THEN <<>> ELSE letters) \in Seq(P!Entry)
    OBVIOUS
  <2>2. buf' \in [Procs -> Seq(P!Entry)]
    BY <1>7, <2>1 DEF P!Read
  <2> QED BY <1>7, <2>2 DEF P!Read
<1>8. ASSUME NEW p \in Procs, P!Truncate(p) PROVE MailType'
  <2>1. P!Changed(buf[p], op[p]) \in Seq(P!Entry)
    BY ChangedList
  <2>2. buf' \in [Procs -> Seq(P!Entry)]
    BY <1>8, <2>1 DEF P!Truncate
  <2> QED BY <1>8, <2>2 DEF P!Truncate
<1>9. ASSUME NEW p \in Procs, P!Fill(p) PROVE MailType'
  BY <1>9 DEF P!Fill
<1> QED BY <1>1, <1>2, <1>3, <1>4, <1>5, <1>6, <1>7, <1>8, <1>9 DEF P!Next

(* What was forced stays forced, and a mailbox that is gone stays away.    *)
LEMMA MailMonotone ==
    ASSUME P!Next
    PROVE  (forced => forced') /\ (exists' => exists)
<1>1. ASSUME NEW p \in Procs, P!BreakLock(p) PROVE (forced => forced') /\ exists' = exists
  BY <1>1 DEF P!BreakLock
<1>2. ASSUME NEW p \in Procs, P!Dies(p) PROVE (forced => forced') /\ exists' = exists
  BY <1>2 DEF P!Dies
<1>3. ASSUME NEW p \in Procs, P!GiveUp(p) PROVE forced' /\ exists' = exists
  BY <1>3 DEF P!GiveUp
<1>4. ASSUME NEW p \in Procs,
             \/ P!Begin(p) \/ P!Acquire(p) \/ P!LockFails(p) \/ P!Busy(p) \/ P!Read(p)
             \/ P!ReadFails(p) \/ P!Truncate(p) \/ P!WriteFails(p) \/ P!Fill(p) \/ P!Unlock(p)
      PROVE  forced' = forced /\ exists' = exists
  BY <1>4 DEF P!Begin, P!Acquire, P!LockFails, P!Busy, P!Read, P!ReadFails, P!Truncate,
     P!WriteFails, P!Fill, P!Unlock
<1>5. CASE P!Ages \/ P!CleanupAll
  BY <1>5 DEF P!Ages, P!CleanupAll
<1> QED BY <1>1, <1>2, <1>3, <1>4, <1>5 DEF P!Next

(* The lock is what keeps the others out; one case per action.             *)
LEMMA MailHeldStep ==
    ASSUME MailInv, MailType', P!Next, ~forced', exists'
    PROVE  ~forced /\ exists /\ Held /\ Held'
<1>0. ~forced /\ exists
  BY MailMonotone
<1>1. Held /\ MailType
  BY <1>0 DEF MailInv
<1> USE DEF Held, MailType, P!Go, P!Inside, P!Filling
<1>2. CASE P!Ages
  <2>1. lock \in [holder : Procs, old : BOOLEAN] /\ lock' = [lock EXCEPT !.old = TRUE]
    BY <1>1, <1>2 DEF P!Ages
  <2>2. lock' \in [holder : Procs, old : BOOLEAN] /\ lock'.holder = lock.holder
    BY <2>1
  <2>3. lock' # NoOne
    BY <2>2, TeamworkAssumption
  <2> QED BY <1>1, <1>2, <2>2, <2>3 DEF P!Ages
<1>3. CASE P!CleanupAll
  BY <1>3 DEF P!CleanupAll
<1>4. ASSUME NEW p \in Procs, P!Begin(p) \/ P!LockFails(p) \/ P!Busy(p) PROVE Held'
  <2>1. CASE P!Begin(p)
    BY <1>1, <2>1 DEF P!Begin
  <2>2. CASE P!LockFails(p)
    BY <1>1, <2>2 DEF P!LockFails
  <2>3. CASE P!Busy(p)
    BY <1>1, <2>3 DEF P!Busy
  <2> QED BY <1>4, <2>1, <2>2, <2>3
<1>5. ASSUME NEW p \in Procs, P!Acquire(p) PROVE Held'
  <2>1. /\ lock = NoOne /\ lock' = [holder |-> p, old |-> FALSE] /\ posAt[p] = "try"
        /\ posAt' = [posAt EXCEPT ![p] = "read"] /\ UNCHANGED <<letters, buf>>
    BY <1>5 DEF P!Acquire, P!MayLock
  <2>2. lock' \in [holder : Procs, old : BOOLEAN]
    BY <2>1
  <2>3. lock' # NoOne /\ lock'.holder = p
    BY <2>1, <2>2, TeamworkAssumption
  <2> QED BY <1>1, <2>1, <2>3
<1>6. ASSUME NEW p \in Procs, P!BreakLock(p) PROVE Held'
  BY <1>0, <1>1, <1>6 DEF P!BreakLock
<1>7. ASSUME NEW p \in Procs, P!GiveUp(p) PROVE Held'
  BY <1>7 DEF P!GiveUp
<1>8. ASSUME NEW p \in Procs, P!Read(p) PROVE Held'
  <2>1. letters # Torn
    BY <1>1, <1>8 DEF P!Read
  <2> QED BY <1>1, <1>8, <2>1 DEF P!Read
<1>9. ASSUME NEW p \in Procs, P!ReadFails(p) \/ P!WriteFails(p) PROVE Held'
  BY <1>0, <1>1, <1>9 DEF P!ReadFails, P!WriteFails
<1>10. ASSUME NEW p \in Procs, P!Truncate(p) PROVE Held'
  BY <1>1, <1>10 DEF P!Truncate
<1>11. ASSUME NEW p \in Procs, P!Fill(p) PROVE Held'
  <2>1. letters' = buf[p] /\ letters' # Torn
    BY <1>0, <1>1, <1>11, TeamworkAssumption DEF P!Fill
  <2> QED BY <1>1, <1>11, <2>1 DEF P!Fill
<1>12. ASSUME NEW p \in Procs, P!Unlock(p) PROVE Held'
  BY <1>1, <1>12 DEF P!Unlock
<1>13. ASSUME NEW p \in Procs, P!Dies(p) PROVE Held'
  BY <1>1, <1>13 DEF P!Dies
<1>14. Held'
  BY <1>2, <1>3, <1>4, <1>5, <1>6, <1>7, <1>8, <1>9, <1>10, <1>11, <1>12, <1>13 DEF P!Next
<1> QED BY <1>0, <1>1, <1>14

(* Every step of a process on the mailbox preserves its invariant.         *)
LEMMA MailStep == ASSUME MailInv, P!Next PROVE MailInv'
BY MailTypeStep, MailHeldStep DEF MailInv

-----------------------------------------------------------------------------
(* The mailbox keeps the promise of Inbox.                                 *)

(* The one process that fills the file has in hand what waits.             *)
LEMMA WaitingFilled ==
    ASSUME Held, exists, NEW p \in Procs, posAt[p] = "fill"
    PROVE  P!Waiting = P!Unread(buf[p])
<1>1. \A q \in Procs : posAt[q] = "fill" => q = p
  BY DEF Held, P!Inside
<1>2. (CHOOSE q \in Procs : posAt[q] = "fill") = p
  BY <1>1
<1> QED BY <1>2 DEF P!Waiting, P!Filling

(* Otherwise it is what the file holds.                                    *)
LEMMA WaitingFile ==
    ASSUME Held, exists, ~P!Filling
    PROVE  P!Waiting = P!Unread(letters) /\ letters # Torn
BY DEF Held, P!Waiting

(* What waits is the same while nobody begins or ends filling the file.    *)
LEMMA WaitingSame ==
    ASSUME Held, Held', exists, exists', letters' = letters,
           \A q \in Procs : posAt'[q] = "fill" <=> posAt[q] = "fill",
           \A q \in Procs : posAt[q] = "fill" => buf'[q] = buf[q]
    PROVE  P!Waiting' = P!Waiting
<1>1. CASE P!Filling
  <2>1. PICK p \in Procs : posAt[p] = "fill"
    BY <1>1 DEF P!Filling
  <2>2. P!Waiting = P!Unread(buf[p])
    BY <2>1, WaitingFilled
  <2>3. P!Waiting' = P!Unread(buf'[p])
    <3>1. \A q \in Procs : posAt'[q] = "fill" => q = p
      BY <2>1 DEF Held, P!Inside
    <3>2. (CHOOSE q \in Procs : posAt'[q] = "fill") = p
      BY <2>1, <3>1
    <3>3. P!Filling' /\ exists'
      BY <2>1 DEF P!Filling
    <3> QED BY <3>2, <3>3 DEF P!Waiting
  <2> QED BY <2>1, <2>2, <2>3
<1>2. CASE ~P!Filling
  <2>1. ~P!Filling'
    BY <1>2 DEF P!Filling
  <2> QED BY <1>2, <2>1 DEF P!Waiting
<1> QED BY <1>1, <1>2

(* A step inside, with the lock respected and the mailbox there.           *)
LEMMA MailKeeps ==
    ASSUME MailType, MailType', Held, Held', exists, exists', ~forced, ~forced', P!Next
    PROVE  P!Promise!Next \/ UNCHANGED P!Promise!vars
<1> USE DEF P!Go
<1>1. posAt \in [Procs -> P!Places] /\ buf \in [Procs -> Seq(P!Entry)]
  BY DEF MailType
<1>0. forced' = forced
  BY DEF MailType
<1>2. ASSUME UNCHANGED <<taken, letters>>,
             \A q \in Procs : posAt'[q] = "fill" <=> posAt[q] = "fill",
             \A q \in Procs : posAt[q] = "fill" => buf'[q] = buf[q]
      PROVE  UNCHANGED P!Promise!vars
  <2>1. P!Waiting' = P!Waiting
    BY <1>2, WaitingSame
  <2> QED BY <2>1, <1>0, <1>2 DEF P!Promise!vars
<1>3. CASE P!Ages
  BY <1>1, <1>2, <1>3 DEF P!Ages
<1>4. CASE P!CleanupAll
  BY <1>4 DEF P!CleanupAll
<1>5. ASSUME NEW p \in Procs,
             \/ P!Begin(p) \/ P!Acquire(p) \/ P!LockFails(p) \/ P!Busy(p) \/ P!BreakLock(p)
             \/ P!GiveUp(p) \/ P!ReadFails(p) \/ P!WriteFails(p) \/ P!Unlock(p)
      PROVE  UNCHANGED P!Promise!vars
  <2>1. \E to \in P!Places \ {"fill"} : posAt[p] # "fill" /\ posAt' = [posAt EXCEPT ![p] = to]
    BY <1>5 DEF P!Begin, P!Acquire, P!LockFails, P!Busy, P!BreakLock, P!GiveUp, P!ReadFails,
       P!WriteFails, P!Unlock, P!Places
  <2>2. UNCHANGED <<taken, letters, buf>>
    BY <1>5 DEF P!Begin, P!Acquire, P!LockFails, P!Busy, P!BreakLock, P!GiveUp, P!ReadFails,
       P!WriteFails, P!Unlock
  <2>3. \A q \in Procs : posAt'[q] = "fill" <=> posAt[q] = "fill"
    BY <1>1, <2>1
  <2> QED BY <1>2, <2>2, <2>3
<1>6. ASSUME NEW p \in Procs, P!Read(p)
      PROVE  UNCHANGED P!Promise!vars
  BY <1>1, <1>2, <1>6 DEF P!Read
<1>7. ASSUME NEW p \in Procs, P!Dies(p)
      PROVE  UNCHANGED P!Promise!vars
  <2>1. posAt[p] # "fill"
    BY <1>7 DEF P!Dies
  <2> QED BY <1>1, <1>2, <1>7, <2>1 DEF P!Dies
<1>8. ASSUME NEW p \in Procs, P!Truncate(p)
      PROVE  P!Promise!Next
  <2>1. /\ posAt[p] = "write" /\ posAt'[p] = "fill" /\ buf[p] = letters
        /\ buf'[p] = P!Changed(letters, op[p])
        /\ taken' = IF op[p] = "consume" THEN taken \o P!Unread(letters) ELSE taken
    BY <1>1, <1>8 DEF P!Truncate, Held
  <2>2. ~P!Filling
    BY <2>1 DEF Held, P!Inside, P!Filling
  <2>3. P!Waiting = P!Unread(letters) /\ letters \in Seq(P!Entry)
    BY <2>2, WaitingFile DEF MailType
  <2>4. P!Waiting' = P!Unread(P!Changed(letters, op[p]))
    <3>1. \A q \in Procs : posAt'[q] = "fill" => q = p
      BY <2>1 DEF Held, P!Inside
    <3>2. (CHOOSE q \in Procs : posAt'[q] = "fill") = p
      BY <2>1, <3>1
    <3>3. P!Filling' /\ exists'
      BY <2>1 DEF P!Filling
    <3> QED BY <2>1, <3>2, <3>3 DEF P!Waiting
  <2>5. CASE op[p] = "consume"
    <3> DEFINE list == P!Changed(letters, "consume")
    <3>1. list \in Seq(P!Entry)
      BY <2>3, ChangedList
    <3>2. list = [i \in DOMAIN letters |-> [letters[i] EXCEPT !.read = TRUE]]
      BY DEF P!Changed
    <3>3. \A i \in 1..Len(list) : list[i].read
      <4> TAKE i \in 1..Len(list)
      <4>1. i \in DOMAIN letters /\ letters[i] \in P!Entry
        BY <2>3, <3>1, <3>2, ElementOfSeq, LenProperties
      <4>2. list[i] = [letters[i] EXCEPT !.read = TRUE]
        BY <3>2, <4>1
      <4> QED BY <4>1, <4>2 DEF P!Entry
    <3> HIDE DEF list
    <3>4. P!Unread(list) = <<>>
      BY <3>1, <3>3, UnreadNone
    <3>5. P!Promise!Take
      BY <1>0, <2>1, <2>3, <2>4, <2>5, <3>4 DEF P!Promise!Take, list
    <3> QED BY <3>5 DEF P!Promise!Next
  <2>6. CASE op[p] # "consume"
    <3>1. op[p] \in Messages
      BY <2>6 DEF MailType
    <3>2. P!Changed(letters, op[p]) = Append(letters, [msg |-> op[p], read |-> FALSE])
      BY <2>6 DEF P!Changed
    <3>3. P!Waiting' = Append(P!Waiting, op[p])
      BY <2>3, <2>4, <3>1, <3>2, UnreadAppend
    <3>4. P!Promise!Put(op[p])
      BY <1>0, <2>1, <2>6, <3>3 DEF P!Promise!Put
    <3> QED BY <3>1, <3>4 DEF P!Promise!Next
  <2> QED BY <2>5, <2>6
<1>9. ASSUME NEW p \in Procs, P!Fill(p)
      PROVE  UNCHANGED P!Promise!vars
  <2>1. P!Waiting = P!Unread(buf[p])
    BY <1>9, WaitingFilled DEF P!Fill
  <2>2. ~P!Filling'
    BY <1>1, <1>9 DEF P!Fill, P!Filling, Held, P!Inside
  <2>3. P!Waiting' = P!Unread(letters')
    BY <2>2 DEF P!Waiting, Held
  <2>4. letters' = buf[p] /\ taken' = taken
    BY <1>9 DEF P!Fill
  <2> QED BY <1>0, <2>1, <2>3, <2>4 DEF P!Promise!vars
<1> QED BY <1>3, <1>4, <1>5, <1>6, <1>7, <1>8, <1>9 DEF P!Next

(* Every step of the processes is a step of the inbox, or none.            *)
LEMMA MailPromiseStep ==
    ASSUME MailInv, MailInv', P!Next
    PROVE  P!Promise!Next \/ UNCHANGED P!Promise!vars
<1>1. CASE forced'
  <2>1. forced' = TRUE
    BY <1>1 DEF MailInv, MailType
  <2> QED BY <2>1 DEF P!Promise!Next, P!Promise!Break
<1>2. CASE ~forced' /\ exists'
  BY <1>2, MailHeldStep, MailKeeps DEF MailInv
<1>3. CASE ~forced' /\ ~exists'
  <2>1. P!Waiting' = <<>> /\ forced' = forced
    BY <1>3, MailMonotone DEF P!Waiting, MailInv, MailType
  <2>2. CASE exists
    <3>1. P!CleanupAll
      BY <1>3, <2>2 DEF P!Next, P!Ages, P!Begin, P!Acquire, P!LockFails, P!Busy, P!BreakLock,
         P!GiveUp, P!Read, P!ReadFails, P!Truncate, P!WriteFails, P!Fill, P!Unlock, P!Dies
    <3> QED BY <2>1, <3>1 DEF P!CleanupAll, P!Promise!Wipe, P!Promise!Next
  <2>3. CASE ~exists
    <3>1. taken' = taken
      BY <2>3 DEF P!Next, P!Ages, P!CleanupAll, P!Begin, P!Acquire, P!LockFails, P!Busy,
         P!BreakLock, P!GiveUp, P!Read, P!ReadFails, P!Truncate, P!WriteFails, P!Fill,
         P!Unlock, P!Dies
    <3>2. P!Waiting = <<>>
      BY <2>3 DEF P!Waiting
    <3> QED BY <2>1, <3>1, <3>2 DEF P!Promise!vars
  <2> QED BY <2>2, <2>3
<1> QED BY <1>1, <1>2, <1>3

(* A message written to an inbox is consumed once and in order, with any   *)
(* number of processes that write, consume, wait and die, as long as no    *)
(* lock was forced and no file half written was left behind: the lock file *)
(* and the rewrites of mailbox.py implement Inbox.                         *)
THEOREM MailboxKeepsPromise == Spec => KeepsPromise
<1>1. Init => MailInv /\ P!Promise!Init
  <2>1. P!Unread(<<>>) = <<>>
    <3>1. <<>> \in Seq(P!Entry) /\ \A i \in 1..Len(<<>>) : <<>>[i].read
      OBVIOUS
    <3> QED BY <3>1, UnreadNone
  <2>2. ASSUME Init
        PROVE  /\ letters = <<>> /\ lock = NoOne /\ exists = TRUE
               /\ posAt = [p \in Procs |-> "out"] /\ op = [p \in Procs |-> "consume"]
               /\ buf = [p \in Procs |-> <<>>] /\ taken = <<>> /\ forced = FALSE
    BY <2>2 DEF Init, P!Init
  <2>3. <<>> \in Seq(P!Entry)
    OBVIOUS
  <2>4. Init => MailInv
    BY <2>2, <2>3, TeamworkAssumption DEF MailInv, MailType, Held, P!Inside, P!Places
  <2>5. Init => P!Waiting = <<>>
    BY <2>1, <2>2 DEF P!Waiting, P!Filling
  <2> QED BY <2>2, <2>4, <2>5 DEF P!Promise!Init
<1>2. MailInv /\ [Next]_<<focus, post, board, teams, kids>> => MailInv'
  <2>1. MailInv /\ UNCHANGED post => MailInv'
    BY DEF post, MailInv, MailType, Held, P!Inside, P!Filling
  <2>2. [Next]_<<focus, post, board, teams, kids>> => P!Next \/ UNCHANGED post
    BY DEF Next
  <2> QED BY <2>1, <2>2, MailStep
<1>3. MailInv /\ MailInv' /\ [Next]_<<focus, post, board, teams, kids>>
        => [focus = "post" => P!Promise!Next]_(P!Promise!vars)
  <2>1. UNCHANGED post => UNCHANGED P!Promise!vars
    BY DEF post, P!Promise!vars, P!Waiting, P!Filling
  <2>2. [Next]_<<focus, post, board, teams, kids>> => P!Next \/ UNCHANGED post
    BY DEF Next
  <2> QED BY <2>1, <2>2, MailPromiseStep
<1> QED BY <1>1, <1>2, <1>3, PTL DEF Spec, KeepsPromise

-----------------------------------------------------------------------------
(* The shared tasks.                                                       *)

BoardType ==
    /\ file \in {NoFile, Torn} \cup B!Store /\ mem \in [B!Stores -> B!Store]
    /\ opened \subseteq users /\ users \subseteq B!Stores /\ IsFiniteSet(users)
    /\ at \in [B!Stores -> {"out", "named", "loaded", "fill"}]
    /\ seen \in [B!Stores -> {NoFile, Torn} \cup B!Store]
    /\ made \in 0..MaxMade

(* The store s holds what the file f does.                                 *)
Holds(s, f) ==
    \A i \in DOMAIN f.tasks : i \in DOMAIN s.tasks /\ s.tasks[i] = f.tasks[i]

(* Numbers are handed out in order.                                        *)
Ordered(s) == \A i \in DOMAIN s.tasks : i < s.next

(* What a store loaded for its update it has in memory; a store that does  *)
(* not exist has nothing there.                                            *)
BoardOwn ==
    \A p \in B!Stores :
        /\ at[p] \in {"loaded", "fill"} => p \in opened
        /\ at[p] = "loaded" => seen[p] # Torn
        /\ at[p] = "loaded" /\ seen[p] # NoFile => Holds(mem[p], seen[p])
        /\ p \notin opened => mem[p] = B!Empty

(* As long as the team is used through one store, file and memory agree    *)
(* between its operations, and the numbers are those of one counter.       *)
Agree(p) ==
    /\ Ordered(mem[p])
    /\ file \notin {NoFile, Torn} => Ordered(file)
    /\ p \in opened /\ at[p] \in {"out", "loaded"} => file = mem[p]
    /\ at[p] = "named" => file = NoFile

BoardSole ==
    \A p \in B!Stores : users \subseteq {p} => lost = {} /\ Agree(p)

(* One process runs its operations one after the other.                    *)
BoardBusy ==
    \A x, y \in B!Stores : x[1] = y[1] /\ at[x] # "out" /\ at[y] # "out" => x = y

(* As long as one process uses the team, nothing changes the file between  *)
(* the two halves of an operation.                                         *)
OneProcess(r) == \A x \in users : x[1] = r

BoardProc ==
    \A r \in Procs : OneProcess(r) =>
        /\ lost \cap {"init", "race"} = {}
        /\ \A x \in B!Stores : x[1] = r =>
              /\ at[x] = "named" => file = NoFile
              /\ at[x] = "loaded" => file = seen[x]

BoardInv ==
    /\ BoardType /\ BoardOwn /\ BoardSole /\ BoardBusy /\ BoardProc
    /\ lost \subseteq {"init", "create", "race"}
    /\ lost # {} => users # {}

(* A store, seen as its parts.                                             *)
LEMMA StoreParts ==
    ASSUME NEW s
    PROVE  s \in B!Store
             <=> /\ s = [next |-> s.next, tasks |-> s.tasks] /\ s.next \in 1..MaxMade + 1
                 /\ DOMAIN s.tasks \subseteq B!Ids /\ s.tasks \in [DOMAIN s.tasks -> B!Task]
<1> DEFINE Maps == UNION {[ids -> B!Task] : ids \in SUBSET B!Ids}
<1>1. \A t : t \in Maps <=> DOMAIN t \subseteq B!Ids /\ t \in [DOMAIN t -> B!Task]
  OBVIOUS
<1>2. B!Store = [next : 1..MaxMade + 1, tasks : Maps]
  BY DEF B!Store
<1> HIDE DEF Maps
<1> QED BY <1>1, <1>2

(* A task file without tasks is a well-formed store.                       *)
LEMMA EmptyStore == B!Empty \in B!Store /\ Ordered(B!Empty) /\ DOMAIN B!Empty.tasks = {}
<1>1. MaxMade \in Nat
  BY TeamworkAssumption
<1>2. DOMAIN B!Empty.tasks = {} /\ B!Empty.tasks \in [{} -> B!Task] /\ B!Empty.next = 1
      /\ B!Empty = [next |-> B!Empty.next, tasks |-> B!Empty.tasks]
  BY DEF B!Empty
<1> QED BY <1>1, <1>2, StoreParts DEF Ordered

(* Putting the file over a store yields a store that holds the file; over  *)
(* the empty store or over the file itself it yields the file.             *)
LEMMA MergedStore ==
    ASSUME file \in {NoFile} \cup B!Store, NEW s \in B!Store
    PROVE  /\ B!Merged(s) \in B!Store
           /\ file # NoFile => Holds(B!Merged(s), file)
           /\ file # NoFile /\ s \in {B!Empty, file} => B!Merged(s) = file
<1>1. CASE file = NoFile
  BY <1>1 DEF B!Merged
<1>2. CASE file # NoFile
  <2> DEFINE t == [i \in DOMAIN file.tasks \cup DOMAIN s.tasks |->
                       IF i \in DOMAIN file.tasks THEN file.tasks[i] ELSE s.tasks[i]]
  <2>1. B!Merged(s) = [next |-> file.next, tasks |-> t]
    BY <1>2 DEF B!Merged
  <2>2. /\ file = [next |-> file.next, tasks |-> file.tasks] /\ file.next \in 1..MaxMade + 1
        /\ DOMAIN file.tasks \subseteq B!Ids /\ file.tasks \in [DOMAIN file.tasks -> B!Task]
    BY <1>2, StoreParts
  <2>3. DOMAIN s.tasks \subseteq B!Ids /\ s.tasks \in [DOMAIN s.tasks -> B!Task]
    BY StoreParts
  <2>4. /\ DOMAIN t = DOMAIN file.tasks \cup DOMAIN s.tasks
        /\ t \in [DOMAIN file.tasks \cup DOMAIN s.tasks -> B!Task]
        /\ \A i \in DOMAIN file.tasks : t[i] = file.tasks[i]
    BY <2>2, <2>3
  <2>5. ASSUME s \in {B!Empty, file} PROVE t = file.tasks
    <3>1. DOMAIN s.tasks \subseteq DOMAIN file.tasks
      BY <2>5, EmptyStore
    <3> QED BY <3>1, <2>2, <2>4
  <2> HIDE DEF t
  <2>6. B!Merged(s).next = file.next /\ B!Merged(s).tasks = t
    BY <2>1
  <2>7. B!Merged(s) \in B!Store
    BY <2>1, <2>2, <2>3, <2>4, <2>6, StoreParts
  <2>8. Holds(B!Merged(s), file)
    BY <2>4, <2>6 DEF Holds
  <2> QED BY <2>1, <2>2, <2>5, <2>7, <2>8
<1> QED BY <1>1, <1>2

(* A creation adds the next number.                                        *)
LEMMA WithStore ==
    ASSUME NEW s \in B!Store, s.next <= MaxMade, made \in 0..MaxMade, made < MaxMade
    PROVE  /\ B!With(s) \in B!Store
           /\ Ordered(s) => Ordered(B!With(s)) /\ Holds(B!With(s), s)
<1> DEFINE t == [i \in DOMAIN s.tasks \cup {s.next} |->
                     IF i = s.next THEN [made |-> made + 1, done |-> FALSE] ELSE s.tasks[i]]
<1>1. B!With(s) = [next |-> s.next + 1, tasks |-> t]
  BY DEF B!With
<1>2. MaxMade \in Nat
  BY TeamworkAssumption
<1>3. /\ s.next \in 1..MaxMade + 1
      /\ DOMAIN s.tasks \subseteq B!Ids /\ s.tasks \in [DOMAIN s.tasks -> B!Task]
  BY StoreParts
<1>4. [made |-> made + 1, done |-> FALSE] \in B!Task
  BY <1>2 DEF B!Task, B!Ids
<1>5. /\ DOMAIN t = DOMAIN s.tasks \cup {s.next} /\ t \in [DOMAIN s.tasks \cup {s.next} -> B!Task]
      /\ \A i \in DOMAIN s.tasks : i # s.next => t[i] = s.tasks[i]
  BY <1>3, <1>4
<1> HIDE DEF t
<1>6. B!With(s).next = s.next + 1 /\ B!With(s).tasks = t
  BY <1>1
<1>7. B!With(s) \in B!Store
  <2>1. s.next \in B!Ids /\ s.next + 1 \in 1..MaxMade + 1
    BY <1>2, <1>3 DEF B!Ids
  <2> QED BY <1>1, <1>3, <1>5, <1>6, <2>1, StoreParts
<1>8. ASSUME Ordered(s) PROVE Ordered(B!With(s)) /\ Holds(B!With(s), s)
  <2>1. \A i \in DOMAIN s.tasks : i \in Nat /\ i < s.next
    BY <1>3, <1>8 DEF Ordered, B!Ids
  <2> QED BY <2>1, <1>2, <1>3, <1>5, <1>6 DEF Ordered, Holds
<1> QED BY <1>7, <1>8

(* An update changes one task.                                             *)
LEMMA UpdatedStore ==
    ASSUME NEW s \in B!Store, NEW i \in DOMAIN s.tasks, NEW done \in BOOLEAN
    PROVE  LET u == [s EXCEPT !.tasks[i].done = done]
           IN  /\ u \in B!Store /\ u.next = s.next /\ DOMAIN u.tasks = DOMAIN s.tasks
               /\ \A j \in DOMAIN s.tasks : j # i => u.tasks[j] = s.tasks[j]
<1> DEFINE u == [s EXCEPT !.tasks[i].done = done]
           t == [s.tasks EXCEPT ![i].done = done]
<1>1. /\ s = [next |-> s.next, tasks |-> s.tasks] /\ s.next \in 1..MaxMade + 1
      /\ DOMAIN s.tasks \subseteq B!Ids /\ s.tasks \in [DOMAIN s.tasks -> B!Task]
  BY StoreParts
<1>2. u = [next |-> s.next, tasks |-> t]
  BY <1>1
<1>3. s.tasks[i] \in B!Task
  BY <1>1
<1>4. /\ DOMAIN t = DOMAIN s.tasks /\ t \in [DOMAIN s.tasks -> B!Task]
      /\ \A j \in DOMAIN s.tasks : j # i => t[j] = s.tasks[j]
  BY <1>1, <1>3 DEF B!Task
<1> HIDE DEF t, u
<1>5. u.next = s.next /\ u.tasks = t
  BY <1>2
<1>6. u \in B!Store
  BY <1>1, <1>2, <1>4, <1>5, StoreParts
<1> QED BY <1>4, <1>5, <1>6 DEF u

(* What store q does.                                                      *)
StoreStep(q) ==
    \/ B!NameTeam(q) \/ B!InitEmpty(q) \/ B!Open(q) \/ B!Create(q) \/ B!GetOrList(q)
    \/ B!Update(q) \/ B!Unknown(q) \/ B!UpdateSaves(q) \/ B!Fill(q) \/ B!Delete(q)

(* A tool runs when no operation of its process goes on.                   *)
LEMMA ReadyOut ==
    ASSUME NEW q \in B!Stores, B!Ready(q)
    PROVE  q \in opened /\ at[q] = "out"
BY DEF B!Ready, B!Idle, B!Of

(* The file and what is in memory stay stores.                             *)
LEMMA BoardTypeStep ==
    ASSUME BoardType, NEW q \in B!Stores, StoreStep(q)
    PROVE  BoardType'
<1>1. StoreStep(q)
  OBVIOUS
<1>2. IsFiniteSet(users \cup {q})
  BY FS_AddElement DEF BoardType
<1>3. CASE B!NameTeam(q)
  BY <1>3 DEF BoardType, B!NameTeam, B!Go
<1>4. CASE B!InitEmpty(q)
  BY <1>2, <1>4, EmptyStore DEF BoardType, B!InitEmpty, B!Save, B!Go
<1>5. CASE B!Open(q)
  <2>1. B!Merged(mem[q]) \in B!Store
    BY <1>5, MergedStore DEF BoardType, B!Open, B!Loads
  <2> QED BY <1>2, <1>5, <2>1 DEF BoardType, B!Open, B!Loads
<1>6. CASE B!Create(q)
  <2>1. B!With(mem[q]) \in B!Store /\ made + 1 \in 0..MaxMade
    BY <1>6, WithStore, TeamworkAssumption DEF BoardType, B!Create
  <2> QED BY <1>6, <2>1 DEF BoardType, B!Create, B!Save, B!Go
<1>7. CASE B!GetOrList(q)
  <2>1. B!Merged(mem[q]) \in B!Store
    BY <1>7, MergedStore DEF BoardType, B!GetOrList, B!Loads
  <2> QED BY <1>7, <2>1 DEF BoardType, B!GetOrList, B!Loads
<1>8. CASE B!Update(q)
  <2>1. B!Merged(mem[q]) \in B!Store
    BY <1>8, MergedStore DEF BoardType, B!Update, B!UpdateLoads, B!Loads
  <2> QED BY <1>8, <2>1 DEF BoardType, B!Update, B!UpdateLoads, B!Loads, B!Go
<1>9. CASE B!Unknown(q)
  BY <1>9 DEF BoardType, B!Unknown, B!Forget, B!Go
<1>10. CASE B!UpdateSaves(q)
  <2>1. PICK done \in BOOLEAN :
          B!Save(q, [mem[q] EXCEPT !.tasks[target[q]].done = done], {target[q]},
                 IF file = seen[q] THEN "update" ELSE "race")
    BY <1>10 DEF B!UpdateSaves
  <2>2. [mem[q] EXCEPT !.tasks[target[q]].done = done] \in B!Store
    BY <1>10, UpdatedStore DEF BoardType, B!UpdateSaves
  <2> QED BY <1>10, <2>1, <2>2 DEF BoardType, B!UpdateSaves, B!Save, B!Forget, B!Go
<1>11. CASE B!Fill(q)
  BY <1>11 DEF BoardType, B!Fill, B!Go
<1>12. CASE B!Delete(q)
  BY <1>12, EmptyStore DEF BoardType, B!Delete
<1> QED
  BY <1>1, <1>3, <1>4, <1>5, <1>6, <1>7, <1>8, <1>9, <1>10, <1>11, <1>12 DEF StoreStep

(* What an update loaded stays in memory until it is saved.                *)
LEMMA BoardOwnStep ==
    ASSUME BoardType, BoardOwn, NEW q \in B!Stores, StoreStep(q)
    PROVE  BoardOwn'
<1>1. StoreStep(q)
  OBVIOUS
<1>2. CASE B!NameTeam(q)
  BY <1>2 DEF BoardType, BoardOwn, B!NameTeam, B!Go
<1>3. CASE B!InitEmpty(q)
  BY <1>3 DEF BoardType, BoardOwn, B!InitEmpty, B!Save, B!Go
<1>4. CASE B!Open(q)
  BY <1>4 DEF BoardType, BoardOwn, B!Open, B!Loads
<1>5. CASE B!Create(q)
  BY <1>5, ReadyOut DEF BoardType, BoardOwn, B!Create, B!Save, B!Go
<1>6. CASE B!GetOrList(q)
  BY <1>6, ReadyOut DEF BoardType, BoardOwn, B!GetOrList, B!Loads
<1>7. CASE B!Update(q)
  <2>1. file # NoFile => Holds(B!Merged(mem[q]), file)
    BY <1>7, MergedStore DEF BoardType, B!Update, B!UpdateLoads, B!Loads
  <2> QED BY <1>7, <2>1, ReadyOut
      DEF BoardType, BoardOwn, B!Update, B!UpdateLoads, B!Loads, B!Go
<1>8. CASE B!Unknown(q)
  BY <1>8 DEF BoardType, BoardOwn, B!Unknown, B!Forget, B!Go
<1>9. CASE B!UpdateSaves(q)
  BY <1>9 DEF BoardType, BoardOwn, B!UpdateSaves, B!Save, B!Forget, B!Go
<1>10. CASE B!Fill(q)
  BY <1>10 DEF BoardType, BoardOwn, B!Fill, B!Go
<1>11. CASE B!Delete(q)
  BY <1>11, ReadyOut DEF BoardType, BoardOwn, B!Delete
<1> QED
  BY <1>1, <1>2, <1>3, <1>4, <1>5, <1>6, <1>7, <1>8, <1>9, <1>10, <1>11 DEF StoreStep

(* With one process, what it saves keeps all the file holds.               *)
LEMMA BoardSoleStep ==
    ASSUME BoardType, BoardOwn, BoardSole, NEW q \in B!Stores, StoreStep(q), BoardType',
           BoardOwn'
    PROVE  BoardSole'
<1>1. StoreStep(q)
  OBVIOUS
<1> SUFFICES ASSUME NEW p \in B!Stores, (users \subseteq {p})' PROVE lost' = {} /\ Agree(p)'
  BY DEF BoardSole
<1>2. users \subseteq users'
  BY <1>1 DEF B!NameTeam, B!InitEmpty, B!Open, B!Create, B!GetOrList, B!Update, B!Unknown,
     B!UpdateSaves, B!Fill, B!Delete, StoreStep
<1>3. lost = {} /\ Agree(p)
  BY <1>2 DEF BoardSole
<1>4. mem[p] \in B!Store /\ B!Merged(mem[p]) = B!Merged(mem[p])
  BY DEF BoardType
<1>5. CASE q # p
  <2>1. q \notin users /\ q \notin users'
    BY <1>5, <1>2
  <2>2. B!NameTeam(q)
    BY <1>1, <2>1 DEF B!InitEmpty, B!Open, B!Create, B!GetOrList, B!Update, B!Unknown,
     B!UpdateSaves, B!Fill, B!Delete, B!Ready, BoardType, BoardOwn, StoreStep
  <2> QED BY <1>3, <1>5, <2>2 DEF Agree, B!NameTeam, B!Go, BoardType
<1>6. CASE q = p
  <2>2. CASE B!NameTeam(p)
    BY <1>3, <2>2 DEF Agree, B!NameTeam, B!Go, BoardType
  <2>3. CASE B!InitEmpty(p)
    <3>1. file = NoFile
      BY <1>3, <2>3 DEF B!InitEmpty, Agree
    <3> QED BY <1>3, <2>3, <3>1, EmptyStore, TeamworkAssumption
        DEF Agree, B!InitEmpty, B!Save, B!Go, B!Overwritten, BoardType
  <2>4. CASE B!Open(p)
    <3>1. B!Merged(mem[p]) = file /\ file \notin {NoFile, Torn}
      BY <1>4, <2>4, MergedStore DEF B!Open, B!Loads, BoardOwn, BoardType
    <3> QED BY <1>3, <2>4, <3>1 DEF Agree, B!Open, B!Loads, BoardType
  <2>5. CASE B!Create(p)
    <3>1. file = mem[p] /\ Ordered(mem[p])
      BY <1>3, <2>5, ReadyOut DEF Agree, B!Create
    <3>2. Ordered(B!With(mem[p])) /\ Holds(B!With(mem[p]), file)
      BY <1>4, <2>5, <3>1, WithStore DEF B!Create, BoardType
    <3>3. B!Overwritten(B!With(mem[p]), {}) = {}
      BY <3>2 DEF Holds, B!Overwritten
    <3> QED BY <1>3, <2>5, <3>2, <3>3 DEF Agree, B!Create, B!Save, B!Go, BoardType
  <2>6. CASE B!GetOrList(p) \/ B!Update(p)
    <3>1. file = mem[p] /\ file \notin {NoFile, Torn}
      BY <1>3, <1>4, <2>6, ReadyOut, TeamworkAssumption DEF Agree, B!GetOrList, B!Update
    <3>2. B!Merged(mem[p]) = file
      BY <1>4, <3>1, MergedStore
    <3> QED BY <1>3, <2>6, <3>1, <3>2
        DEF Agree, B!GetOrList, B!Update, B!UpdateLoads, B!Loads, B!Go, BoardType
  <2>7. CASE B!Unknown(p)
    BY <1>3, <2>7 DEF Agree, B!Unknown, B!Go, BoardType, BoardOwn
  <2>8. CASE B!UpdateSaves(p)
    <3>1. PICK done \in BOOLEAN :
            B!Save(p, [mem[p] EXCEPT !.tasks[target[p]].done = done], {target[p]},
                   IF file = seen[p] THEN "update" ELSE "race")
      BY <2>8 DEF B!UpdateSaves
    <3> DEFINE u == [mem[p] EXCEPT !.tasks[target[p]].done = done]
    <3>2. /\ u.next = mem[p].next /\ DOMAIN u.tasks = DOMAIN mem[p].tasks
          /\ \A j \in DOMAIN mem[p].tasks : j # target[p] => u.tasks[j] = mem[p].tasks[j]
      BY <1>4, <2>8, UpdatedStore DEF B!UpdateSaves
    <3>3. mem' = [mem EXCEPT ![p] = u] /\ file' = Torn /\ at' = [at EXCEPT ![p] = "fill"]
          /\ (B!Overwritten(u, {target[p]}) = {} => lost' = lost)
      BY <3>1 DEF B!Save, B!Go
    <3> HIDE DEF u
    <3>4. file = mem[p]
      BY <1>3, <2>8 DEF Agree, B!UpdateSaves, BoardOwn
    <3>5. B!Overwritten(u, {target[p]}) = {}
      BY <3>2, <3>4 DEF B!Overwritten
    <3>6. Ordered(u)
      BY <1>3, <3>2 DEF Agree, Ordered
    <3> QED BY <1>3, <3>3, <3>5, <3>6 DEF Agree, BoardType
  <2>9. CASE B!Fill(p)
    BY <1>3, <2>9 DEF Agree, B!Fill, B!Go, BoardType
  <2>10. CASE B!Delete(p)
    BY <1>3, <2>10, ReadyOut, EmptyStore DEF Agree, B!Delete, BoardType
  <2> QED BY <1>1, <1>6, <2>2, <2>3, <2>4, <2>5, <2>6, <2>7, <2>8, <2>9, <2>10 DEF StoreStep
<1> QED BY <1>5, <1>6

(* An update that read the file as it is keeps all it holds.               *)
LEMMA BoardLostStep ==
    ASSUME BoardType, BoardOwn, NEW q \in B!Stores, StoreStep(q),
           lost \subseteq {"init", "create", "race"},
           lost # {} => users # {}
    PROVE  lost' \subseteq {"init", "create", "race"} /\ (lost' # {} => users' # {})
<1>1. StoreStep(q)
  OBVIOUS
<1>2. CASE B!UpdateSaves(q)
  <2>1. PICK done \in BOOLEAN :
          B!Save(q, [mem[q] EXCEPT !.tasks[target[q]].done = done], {target[q]},
                 IF file = seen[q] THEN "update" ELSE "race")
    BY <1>2 DEF B!UpdateSaves
  <2> DEFINE u == [mem[q] EXCEPT !.tasks[target[q]].done = done]
  <2>2. /\ DOMAIN u.tasks = DOMAIN mem[q].tasks
        /\ \A j \in DOMAIN mem[q].tasks : j # target[q] => u.tasks[j] = mem[q].tasks[j]
    BY <1>2, UpdatedStore DEF B!UpdateSaves, BoardType
  <2>3. lost' = IF B!Overwritten(u, {target[q]}) = {} THEN lost
                  ELSE lost \cup {IF file = seen[q] THEN "update" ELSE "race"}
    BY <2>1 DEF B!Save
  <2> HIDE DEF u
  <2>4. ASSUME file = seen[q], file \notin {NoFile, Torn} PROVE Holds(mem[q], file)
    BY <1>2, <2>4 DEF BoardOwn, B!UpdateSaves
  <2>5. file = seen[q] => B!Overwritten(u, {target[q]}) = {}
    BY <2>2, <2>4 DEF B!Overwritten, Holds
  <2>6. q \in users' /\ users' = users
    BY <1>2 DEF BoardOwn, BoardType, B!UpdateSaves
  <2> QED BY <2>3, <2>5, <2>6
<1>3. CASE B!InitEmpty(q) \/ B!Create(q)
  BY <1>3 DEF B!InitEmpty, B!Create, B!Save, B!Ready, BoardType
<1>4. CASE ~(B!InitEmpty(q) \/ B!Create(q) \/ B!UpdateSaves(q))
  BY <1>1, <1>4 DEF B!NameTeam, B!Open, B!GetOrList, B!Update, B!Unknown, B!Fill, B!Delete,
     StoreStep
<1> QED BY <1>2, <1>3, <1>4

(* A finite set with two members has more than one.                        *)
LEMMA TwoMembers ==
    ASSUME NEW S, IsFiniteSet(S), NEW p \in S, NEW q \in S, p # q
    PROVE  Cardinality(S) > 1
<1>1. IsFiniteSet({p}) /\ Cardinality({p}) = 1
  BY FS_Singleton
<1>2. Cardinality({p} \cup {q}) = 2
  BY <1>1, FS_AddElement
<1>3. Cardinality({p, q}) <= Cardinality(S) /\ Cardinality(S) \in Nat /\ {p} \cup {q} = {p, q}
  BY FS_Subset, FS_CardinalityType
<1> QED BY <1>2, <1>3

(* A store begins an operation when none of its process goes on.           *)
LEMMA BoardBusyStep ==
    ASSUME BoardType, BoardBusy, NEW q \in B!Stores, StoreStep(q)
    PROVE  /\ BoardBusy'
           /\ \A x \in B!Stores : x # q /\ x[1] = q[1] => at[x] = "out" /\ at'[x] = "out"
           /\ \A x \in B!Stores : x # q => at'[x] = at[x] /\ seen'[x] = seen[x]
<1>1. at' = at \/ \E place : at' = [at EXCEPT ![q] = place]
  BY DEF StoreStep, B!NameTeam, B!InitEmpty, B!Open, B!Create, B!GetOrList, B!Update,
     B!Unknown, B!UpdateSaves, B!Fill, B!Delete, B!Save, B!Go
<1>2. seen' = seen \/ \E f : seen' = [seen EXCEPT ![q] = f]
  BY DEF StoreStep, B!NameTeam, B!InitEmpty, B!Open, B!Create, B!GetOrList, B!Update,
     B!Unknown, B!UpdateSaves, B!Fill, B!Delete, B!Forget
<1>3. at[q] # "out" \/ B!Idle(q)
  BY DEF StoreStep, B!NameTeam, B!InitEmpty, B!Open, B!Create, B!GetOrList, B!Update,
     B!Unknown, B!UpdateSaves, B!Fill, B!Delete, B!Ready
<1>4. ASSUME NEW x \in B!Stores, x # q, x[1] = q[1] PROVE at[x] = "out"
  BY <1>3, <1>4 DEF BoardBusy, B!Idle, B!Of
<1>5. \A x \in B!Stores : x # q => at'[x] = at[x] /\ seen'[x] = seen[x]
  BY <1>1, <1>2 DEF BoardType
<1> QED BY <1>4, <1>5 DEF BoardBusy

(* What one process saves it has read, but for a creation.                 *)
LEMMA BoardProcStep ==
    ASSUME BoardType, BoardOwn, BoardBusy, BoardProc, NEW q \in B!Stores, StoreStep(q),
           users \subseteq users', opened' \subseteq users'
    PROVE  BoardProc'
<1> SUFFICES ASSUME NEW r \in Procs, OneProcess(r)'
             PROVE  /\ lost' \cap {"init", "race"} = {}
                    /\ \A x \in B!Stores : x[1] = r =>
                          /\ at'[x] = "named" => file' = NoFile
                          /\ at'[x] = "loaded" => file' = seen'[x]
  BY DEF BoardProc
<1>1. OneProcess(r)
  BY DEF OneProcess
<1>2. /\ lost \cap {"init", "race"} = {}
      /\ \A x \in B!Stores : x[1] = r =>
            (at[x] = "named" => file = NoFile) /\ (at[x] = "loaded" => file = seen[x])
  BY <1>1 DEF BoardProc
<1>3. /\ \A x \in B!Stores : x # q /\ x[1] = q[1] => at'[x] = "out"
      /\ \A x \in B!Stores : x # q => at'[x] = at[x] /\ seen'[x] = seen[x]
  BY BoardBusyStep
<1>4. CASE q[1] # r
  <2>1. q \notin users /\ q \notin users'
    BY <1>1, <1>4 DEF OneProcess
  <2>2. B!NameTeam(q)
    BY <2>1 DEF B!InitEmpty, B!Open, B!Create, B!GetOrList, B!Update, B!Unknown,
       B!UpdateSaves, B!Fill, B!Delete, B!Ready, BoardType, BoardOwn, StoreStep
  <2>3. \A x \in B!Stores : x[1] = r => x # q
    BY <1>4
  <2> QED BY <1>2, <1>3, <2>2, <2>3 DEF B!NameTeam
<1>5. CASE q[1] = r
  <2> SUFFICES /\ lost' \cap {"init", "race"} = {}
               /\ at'[q] = "named" => file' = NoFile
               /\ at'[q] = "loaded" => file' = seen'[q]
    BY <1>3, <1>5
  <2>1. CASE B!NameTeam(q)
    BY <1>2, <2>1 DEF B!NameTeam, B!Go, BoardType
  <2>2. CASE B!InitEmpty(q)
    <3>1. file = NoFile
      BY <1>2, <1>5, <2>2 DEF B!InitEmpty
    <3> QED BY <1>2, <2>2, <3>1 DEF B!InitEmpty, B!Save, B!Go, B!Overwritten, BoardType
  <2>3. CASE B!Open(q) \/ B!GetOrList(q)
    BY <1>2, <1>5, <2>3 DEF B!Open, B!GetOrList
  <2>4. CASE B!Create(q)
    BY <1>2, <2>4 DEF B!Create, B!Save, B!Go, BoardType
  <2>5. CASE B!Update(q)
    BY <1>2, <2>5 DEF B!Update, B!Go, BoardType
  <2>6. CASE B!Unknown(q) \/ B!Fill(q)
    BY <1>2, <2>6 DEF B!Unknown, B!Fill, B!Go, BoardType
  <2>7. CASE B!UpdateSaves(q)
    <3>1. file = seen[q]
      BY <1>2, <1>5, <2>7 DEF B!UpdateSaves
    <3>2. lost' \subseteq lost \cup {"update"} /\ at' = [at EXCEPT ![q] = "fill"]
      BY <2>7, <3>1 DEF B!UpdateSaves, B!Save, B!Go
    <3> QED BY <1>2, <3>2 DEF BoardType
  <2>8. CASE B!Delete(q)
    <3>1. at'[q] = "out" /\ lost' = lost
      BY <2>8 DEF B!Delete, B!Ready, B!Idle, B!Of
    <3> QED BY <1>2, <3>1
  <2> QED BY <2>1, <2>2, <2>3, <2>4, <2>5, <2>6, <2>7, <2>8 DEF StoreStep
<1> QED BY <1>4, <1>5

(* A process that dies takes its stores and operations with it.            *)
LEMMA BoardDies ==
    ASSUME BoardInv, NEW r \in Procs, B!Dies(r)
    PROVE  BoardInv'
<1>1. /\ UNCHANGED <<file, made, users, lost>> /\ opened' = opened \ B!Of(r)
      /\ mem' = [x \in B!Stores |-> IF x \in B!Of(r) THEN B!Empty ELSE mem[x]]
      /\ at' = [x \in B!Stores |-> IF x \in B!Of(r) THEN "out" ELSE at[x]]
      /\ seen' = [x \in B!Stores |-> IF x \in B!Of(r) THEN NoFile ELSE seen[x]]
  BY DEF B!Dies
<1>2. \A x \in B!Stores :
        /\ at'[x] = at[x] \/ at'[x] = "out"
        /\ at'[x] # "out" => seen'[x] = seen[x] /\ mem'[x] = mem[x] /\ (x \in opened' <=> x \in opened)
        /\ mem'[x] = mem[x] \/ (mem'[x] = B!Empty /\ x \notin opened')
        /\ x \in opened' => x \in opened /\ at'[x] = at[x]
  BY <1>1
<1>3. BoardType'
  BY <1>1, EmptyStore DEF BoardInv, BoardType
<1>4. BoardOwn'
  BY <1>1, <1>2 DEF BoardInv, BoardOwn
<1>5. BoardSole'
  <2> SUFFICES ASSUME NEW p \in B!Stores, users \subseteq {p} PROVE lost = {} /\ Agree(p)'
    BY <1>1 DEF BoardSole
  <2>1. lost = {} /\ Agree(p)
    BY DEF BoardInv, BoardSole
  <2>2. Ordered(mem'[p])
    BY <1>2, <2>1, EmptyStore DEF Agree
  <2> QED BY <1>1, <1>2, <2>1, <2>2 DEF Agree
<1>6. BoardBusy'
  BY <1>2 DEF BoardInv, BoardBusy
<1>7. BoardProc'
  BY <1>1, <1>2 DEF BoardInv, BoardProc, OneProcess
<1> QED BY <1>1, <1>3, <1>4, <1>5, <1>6, <1>7 DEF BoardInv

(* All of it is kept.                                                      *)
LEMMA BoardStep ==
    ASSUME BoardInv, B!Next
    PROVE  BoardInv'
<1>1. CASE \E r \in Procs : B!Dies(r)
  BY <1>1, BoardDies
<1>2. ASSUME NEW q \in B!Stores, StoreStep(q) PROVE BoardInv'
  <2>1. BoardType' /\ BoardOwn'
    BY <1>2, BoardTypeStep, BoardOwnStep DEF BoardInv
  <2>2. users \subseteq users'
    BY <1>2 DEF StoreStep, B!NameTeam, B!InitEmpty, B!Open, B!Create, B!GetOrList, B!Update,
       B!Unknown, B!UpdateSaves, B!Fill, B!Delete
  <2>3. BoardSole' /\ BoardBusy'
    BY <1>2, <2>1, BoardSoleStep, BoardBusyStep DEF BoardInv
  <2>4. BoardProc'
    BY <1>2, <2>1, <2>2, BoardProcStep DEF BoardInv, BoardType
  <2>5. lost' \subseteq {"init", "create", "race"} /\ (lost' # {} => users' # {})
    BY <1>2, BoardLostStep DEF BoardInv
  <2> QED BY <2>1, <2>3, <2>4, <2>5 DEF BoardInv
<1> QED BY <1>1, <1>2 DEF B!Next, StoreStep

(* What one store wrote to the shared tasks is lost only to a creation by  *)
(* another store that had not read it, or, between processes, to overlaps; *)
(* a team used through one store loses nothing.                            *)
THEOREM TasksLostOnlyToStale == Spec => []LostOnlyToStale
<1>1. Init => BoardInv
  <2>1. IsFiniteSet({})
    BY FS_EmptySet
  <2>2. MaxMade \in Nat
    BY TeamworkAssumption
  <2> QED BY <2>1, <2>2, EmptyStore
      DEF Init, B!Init, BoardInv, BoardType, BoardOwn, BoardSole, BoardBusy, BoardProc, Agree
<1>2. BoardInv /\ [Next]_<<focus, post, board, teams, kids>> => BoardInv'
  <2>1. BoardInv /\ UNCHANGED board => BoardInv'
    BY DEF board, BoardInv, BoardType, BoardOwn, BoardSole, BoardBusy, BoardProc, OneProcess,
       Agree
  <2>2. [Next]_<<focus, post, board, teams, kids>> => B!Next \/ UNCHANGED board
    BY DEF Next
  <2> QED BY <2>1, <2>2, BoardStep
<1>3. BoardInv => LostOnlyToStale
  <2> SUFFICES ASSUME BoardInv PROVE LostOnlyToStale
    OBVIOUS
  <2> DEFINE first == {x[1] : x \in users}
  <2>1. IsFiniteSet(users) /\ IsFiniteSet(first)
    <3>1. [x \in users |-> x[1]] \in Surjection(users, first)
      BY DEF Surjection
    <3> HIDE DEF first
    <3> QED BY <3>1, FS_Surjection DEF BoardInv, BoardType
  <2>2. ASSUME lost # {} PROVE Cardinality(users) > 1
    <3>1. PICK p \in users : TRUE
      BY <2>2 DEF BoardInv
    <3>2. PICK q \in users : q # p
      BY <2>2, <3>1 DEF BoardInv, BoardSole, BoardType
    <3> QED BY <2>1, <3>1, <3>2, TwoMembers
  <2>3. ASSUME lost \cap {"init", "race"} # {} PROVE Cardinality(first) > 1
    <3>1. PICK p \in users : TRUE
      BY <2>3 DEF BoardInv
    <3>2. p[1] \in Procs
      BY <3>1 DEF BoardInv, BoardType, B!Stores
    <3>3. PICK q \in users : q[1] # p[1]
      BY <2>3, <3>2 DEF BoardInv, BoardProc, OneProcess
    <3>4. p[1] \in first /\ q[1] \in first
      BY <3>1, <3>3
    <3> HIDE DEF first
    <3> QED BY <2>1, <3>3, <3>4, TwoMembers
  <2> QED BY <2>2, <2>3 DEF LostOnlyToStale, B!LostOnlyToStale, B!Cardinality, Cardinality, BoardInv
<1> QED BY <1>1, <1>2, <1>3, PTL DEF Spec

-----------------------------------------------------------------------------
(* Sub-agents.                                                             *)

DecisionType == [mode : {"solo", "delegate", "parallel_explore", "coordinate"}, max : 0..3]

KidsType ==
    /\ decision \in [D!AllAgents -> DecisionType] /\ calls \in [D!AllAgents -> Nat]
    /\ mode \in D!Modes /\ kmode \in [D!Kids -> D!Modes]
    /\ kind \in [D!Kids -> {"none", "sub", "fork", "team", "tree"}]
    /\ caller \in [D!Kids -> D!AllAgents]
    /\ state \in [D!Kids -> {"none", "new", "run", "idle", "done", "cut", "gone"}]
    /\ leftover \in [D!Kids -> {"no", "runs", "ended"}]
    /\ node \in [D!Kids -> {"none", "running", "ended", "detached"}]
    /\ tools \in [D!Kids -> SUBSET (D!MainTools \cup D!Coordination \cup {"OwnLedger"})]
    /\ back \in [D!Kids -> BOOLEAN]
    /\ fresh \subseteq D!Kids /\ IsFiniteSet(fresh) /\ lowered \subseteq D!Kids

(* The children a started since it decided are charged to the decision.    *)
FreshOf(a) == {k \in fresh : caller[k] = a}

KidsCharged ==
    /\ \A a \in D!AllAgents : Cardinality(FreshOf(a)) <= calls[a] /\ calls[a] <= decision[a].max
    /\ \A k \in fresh : kind[k] # "none"

KidsTools ==
    \A k \in D!Kids :
        /\ kind[k] \in {"sub", "team", "tree"} => "Agent" \notin tools[k]
        /\ kind[k] # "none" => "Ledger" \notin tools[k] /\ "OwnLedger" \in tools[k]

KidsModes == \A k \in D!Kids : D!Live(k) => D!Rank[kmode[k]] <= D!Rank[mode] \/ k \in lowered

KidsNodes ==
    \A k \in D!Kids :
        /\ node[k] = "running" => D!Live(k) \/ state[k] = "cut"
        /\ D!Live(k) => node[k] = "running" \/ leftover[k] = "ended"

KidsInv == KidsType /\ KidsCharged /\ KidsTools /\ KidsModes /\ KidsNodes

(* Every text and every circumstance leads to a decision of three at most. *)
LEMMA DecisionsType ==
    ASSUME NEW x \in BOOLEAN, NEW y \in BOOLEAN, NEW z \in BOOLEAN,
           NEW d \in D!Decisions[<<x, y, z>>]
    PROVE  d \in DecisionType
<1>1. PICK q \in D!Queries : d = D!Decide(q, x, y, z)
  BY DEF D!Decisions
<1> QED BY <1>1 DEF D!Decide, D!Solo, D!Chosen, DecisionType

(* What may become of a child: never a tool no child may have, never a     *)
(* mode that is none.                                                      *)
Suits(set) ==
    /\ set \subseteq D!MainTools \cup D!Coordination \cup {"OwnLedger"}
    /\ "Ledger" \notin set /\ "OwnLedger" \in set

(* The tools of a sub-agent by definition suit a child and hold no Agent.  *)
LEMMA AgentTools ==
    ASSUME NEW def, NEW background \in BOOLEAN
    PROVE  LET set == D!WithOwnLedger(D!ResolveAgentTools(def, background))
           IN  Suits(set) /\ "Agent" \notin set
BY DEF Suits, D!WithOwnLedger, D!ResolveAgentTools, D!Limited, D!MainTools, D!AgentDisallowed,
   D!AsyncAllowed, D!Coordination

(* Each way to run a sub-agent gives it suitable tools without Agent.      *)
LEMMA WaysSuit ==
    ASSUME NEW w \in D!Ways
    PROVE  /\ Suits(D!WithOwnLedger(w.tools)) /\ "Agent" \notin D!WithOwnLedger(w.tools)
           /\ w.what \in {"sub", "tree"} /\ w.mode \in D!Modes /\ w.background \in BOOLEAN
<1>1. PICK t \in DOMAIN D!Types, asked \in BOOLEAN :
        LET def == D!Types[t]
            background == ~def.tree /\ (asked \/ def.background)
        IN  w = [what |-> IF def.tree THEN "tree" ELSE "sub", background |-> background,
                 tools |-> D!ResolveAgentTools(def, background), mode |-> def.mode]
  BY DEF D!Ways
<1>2. D!Types[t].tree \in BOOLEAN /\ D!Types[t].background \in BOOLEAN /\ D!Types[t].mode \in D!Modes
  <2>1. t \in {"worker", "checker", "own"}
    BY DEF D!Types
  <2>2. D!Types[t] \in {D!Types.worker, D!Types.checker, D!Types.own}
    BY <2>1
  <2>3. /\ D!Types.worker.tree = FALSE /\ D!Types.worker.background = FALSE
        /\ D!Types.worker.mode = "default"
    BY DEF D!Types
  <2>4. /\ D!Types.checker.tree = FALSE /\ D!Types.checker.background = TRUE
        /\ D!Types.checker.mode = "default"
    BY DEF D!Types
  <2>5. /\ D!Types.own.tree = TRUE /\ D!Types.own.background = FALSE
        /\ D!Types.own.mode = "bypass"
    BY DEF D!Types
  <2>6. {"default", "bypass"} \subseteq D!Modes
    BY DEF D!Modes
  <2> QED BY <2>2, <2>3, <2>4, <2>5, <2>6
<1> QED BY <1>1, <1>2, AgentTools

(* Each set of tools of a teammate is suitable and without Agent.          *)
LEMMA TeammateSuits ==
    ASSUME NEW set \in D!TeammateSets
    PROVE  Suits(D!WithOwnLedger(set)) /\ "Agent" \notin D!WithOwnLedger(set)
BY DEF D!TeammateSets, D!TeammateTools, D!Limited, D!MainTools, D!AsyncAllowed, D!Coordination,
   Suits, D!WithOwnLedger

(* The tools of a fork are suitable; they hold Agent, as the parent's do.  *)
LEMMA ForkSuits == Suits(D!WithOwnLedger(D!ForkTools))
BY DEF D!ForkTools, D!MainTools, Suits, D!WithOwnLedger, D!Coordination

(* A child is given a mode that ranks no higher than the agent's.          *)
LEMMA Restricted ==
    ASSUME KidsType, NEW m \in D!Modes
    PROVE  D!Restrict(m) \in D!Modes /\ D!Rank[D!Restrict(m)] <= D!Rank[mode]
BY DEF KidsType, D!Restrict, D!Rank, D!Modes

(* A decision starts a new account.                                        *)
LEMMA KidsDecided ==
    ASSUME KidsType, KidsCharged, NEW a \in D!AllAgents, D!Decided(a), UNCHANGED <<kind, caller>>
    PROVE  /\ decision' \in [D!AllAgents -> DecisionType] /\ calls' \in [D!AllAgents -> Nat]
           /\ fresh' \subseteq D!Kids /\ IsFiniteSet(fresh') /\ KidsCharged'
<1> DEFINE circumstance == <<"Agent" \in D!Held(a), "TeamCreate" \in D!Held(a), D!PlanMode(a)>>
<1>1. PICK d \in D!Decisions[circumstance] : decision' = [decision EXCEPT ![a] = d]
  BY DEF D!Decided
<1>2. ("Agent" \in D!Held(a)) \in BOOLEAN /\ ("TeamCreate" \in D!Held(a)) \in BOOLEAN
      /\ D!PlanMode(a) \in BOOLEAN
  BY DEF D!PlanMode
<1>3. d \in DecisionType
  BY <1>1, <1>2, DecisionsType
<1> HIDE DEF circumstance
<1>4. calls' = [calls EXCEPT ![a] = 0] /\ fresh' = {k \in fresh : caller[k] # a}
  BY DEF D!Decided
<1>5. IsFiniteSet(fresh')
  BY <1>4, FS_Subset DEF KidsType
<1>6. decision' \in [D!AllAgents -> DecisionType] /\ calls' \in [D!AllAgents -> Nat]
      /\ fresh' \subseteq D!Kids
  BY <1>1, <1>3, <1>4 DEF KidsType
<1>7. ASSUME NEW b \in D!AllAgents
      PROVE  Cardinality(FreshOf(b)') <= calls'[b] /\ calls'[b] <= decision'[b].max
  <2>1. CASE b = a
    <3>1. FreshOf(b)' = {}
      BY <1>4, <2>1 DEF FreshOf
    <3>2. Cardinality(FreshOf(b)') = 0
      BY <3>1, FS_EmptySet
    <3>3. calls'[b] = 0 /\ decision'[b] = d /\ d.max \in 0..3
      BY <1>1, <1>3, <1>4, <2>1 DEF KidsType, DecisionType
    <3> QED BY <3>2, <3>3
  <2>2. CASE b # a
    <3>1. FreshOf(b)' = FreshOf(b)
      BY <1>4, <2>2 DEF FreshOf
    <3>2. calls'[b] = calls[b] /\ decision'[b] = decision[b]
      BY <1>1, <1>4, <2>2 DEF KidsType
    <3> QED BY <3>1, <3>2 DEF KidsCharged
  <2> QED BY <2>1, <2>2
<1>8. \A k \in fresh' : kind'[k] # "none"
  BY <1>4 DEF KidsCharged
<1> QED BY <1>5, <1>6, <1>7, <1>8 DEF KidsCharged

(* A start is paid for by the call that makes it.                          *)
LEMMA KidsPaid ==
    ASSUME KidsType, KidsCharged, NEW a \in D!AllAgents, NEW withTeam, D!Charged(a, withTeam),
           NEW k \in D!Kids, kind[k] = "none", NEW what, what # "none",
           kind' = [kind EXCEPT ![k] = what], caller' = [caller EXCEPT ![k] = a],
           fresh' = fresh \cup {k}
    PROVE  /\ calls' \in [D!AllAgents -> Nat] /\ fresh' \subseteq D!Kids /\ IsFiniteSet(fresh')
           /\ KidsCharged'
<1>1. k \notin fresh
  BY DEF KidsCharged
<1>2. /\ calls[a] < decision[a].max /\ calls' = [calls EXCEPT ![a] = @ + 1]
      /\ decision' = decision
  BY DEF D!Charged, D!MayDelegate
<1>3. IsFiniteSet(fresh')
  BY FS_AddElement DEF KidsType
<1>4. ASSUME NEW b \in D!AllAgents
      PROVE  Cardinality(FreshOf(b)') <= calls'[b] /\ calls'[b] <= decision'[b].max
  <2>1. IsFiniteSet(FreshOf(b)) /\ Cardinality(FreshOf(b)) \in Nat
    BY FS_Subset, FS_CardinalityType DEF KidsType, FreshOf
  <2>2. calls[b] \in Nat /\ decision[b].max \in Nat /\ Cardinality(FreshOf(b)) <= calls[b]
        /\ calls[b] <= decision[b].max
    BY DEF KidsType, DecisionType, KidsCharged
  <2>3. CASE b = a
    <3>1. FreshOf(b)' = FreshOf(b) \cup {k} /\ k \notin FreshOf(b)
      BY <1>1, <2>3 DEF FreshOf, KidsType
    <3>2. Cardinality(FreshOf(b)') = Cardinality(FreshOf(b)) + 1
      BY <2>1, <3>1, FS_AddElement
    <3>3. calls'[b] = calls[b] + 1 /\ calls[b] < decision[b].max
      BY <1>2, <2>3 DEF KidsType
    <3> QED BY <1>2, <2>1, <2>2, <3>2, <3>3
  <2>4. CASE b # a
    <3>1. FreshOf(b)' = FreshOf(b)
      BY <1>1, <2>4 DEF FreshOf, KidsType
    <3> QED BY <1>2, <2>2, <2>4, <3>1 DEF KidsType
  <2> QED BY <2>3, <2>4
<1>5. \A j \in fresh' : kind'[j] # "none"
  BY DEF KidsType, KidsCharged
<1>6. calls' \in [D!AllAgents -> Nat] /\ fresh' \subseteq D!Kids
  BY <1>2 DEF KidsType
<1> QED BY <1>3, <1>4, <1>5, <1>6 DEF KidsCharged

(* A child starts with tools that suit it and a mode no higher than        *)
(* Main's, and its trace node runs.                                        *)
LEMMA KidsStarted ==
    ASSUME KidsInv, NEW a \in D!AllAgents, NEW withTeam, D!Charged(a, withTeam),
           NEW k \in D!Kids, kind[k] = "none", NEW what \in {"sub", "fork", "team", "tree"},
           NEW background \in BOOLEAN, NEW set, Suits(D!WithOwnLedger(set)),
           what # "fork" => "Agent" \notin D!WithOwnLedger(set), NEW m \in D!Modes,
           D!Started(a, k, what, background, set, m)
    PROVE  KidsInv'
<1>1. /\ kind' = [kind EXCEPT ![k] = what] /\ caller' = [caller EXCEPT ![k] = a]
      /\ back' = [back EXCEPT ![k] = background]
      /\ state' = [state EXCEPT ![k] = IF background THEN "new" ELSE "run"]
      /\ tools' = [tools EXCEPT ![k] = D!WithOwnLedger(set)]
      /\ kmode' = [kmode EXCEPT ![k] = D!Restrict(m)] /\ node' = [node EXCEPT ![k] = "running"]
      /\ fresh' = fresh \cup {k} /\ lowered' = lowered \ {k} /\ mode' = mode
      /\ leftover' = leftover
  BY DEF D!Started
<1>2. decision' = decision
  BY DEF D!Charged
<1>3. /\ calls' \in [D!AllAgents -> Nat] /\ fresh' \subseteq D!Kids /\ IsFiniteSet(fresh')
      /\ KidsCharged'
  BY <1>1, KidsPaid DEF KidsInv
<1>4. D!Restrict(m) \in D!Modes /\ D!Rank[D!Restrict(m)] <= D!Rank[mode]
  BY Restricted DEF KidsInv
<1>5. KidsType'
  BY <1>1, <1>2, <1>3, <1>4 DEF KidsInv, KidsType, Suits
<1>6. KidsTools'
  BY <1>1 DEF KidsInv, KidsType, KidsTools, Suits
<1>7. KidsModes'
  BY <1>1, <1>4 DEF KidsInv, KidsType, KidsModes, D!Live
<1>8. KidsNodes'
  BY <1>1 DEF KidsInv, KidsType, KidsNodes, D!Live
<1> QED BY <1>3, <1>5, <1>6, <1>7, <1>8 DEF KidsInv

(* Each way to start a sub-agent preserves the invariant.                  *)
LEMMA KidsStart ==
    ASSUME KidsInv, NEW a \in D!AllAgents, NEW k \in D!Kids,
           D!Spawn(a, k) \/ D!Fork(a, k) \/ D!Teammate(a, k)
    PROVE  KidsInv'
<1>1. CASE D!Spawn(a, k)
  <2>1. PICK w \in D!Ways : D!Started(a, k, w.what, w.background, w.tools, w.mode)
    BY <1>1 DEF D!Spawn
  <2>2. kind[k] = "none" /\ D!Charged(a, FALSE)
    BY <1>1 DEF D!Spawn
  <2> QED BY <2>1, <2>2, WaysSuit, KidsStarted
<1>2. CASE D!Fork(a, k)
  <2>1. /\ kind[k] = "none" /\ D!Charged(a, FALSE) /\ "bypass" \in D!Modes
        /\ D!Started(a, k, "fork", TRUE, D!ForkTools, "bypass")
    BY <1>2 DEF D!Fork, D!Modes
  <2> QED BY <2>1, ForkSuits, KidsStarted
<1>3. CASE D!Teammate(a, k)
  <2>1. PICK set \in D!TeammateSets : D!Started(a, k, "team", TRUE, set, "bypass")
    BY <1>3 DEF D!Teammate
  <2>2. kind[k] = "none" /\ D!Charged(a, TRUE) /\ "bypass" \in D!Modes
    BY <1>3 DEF D!Teammate, D!Modes
  <2> QED BY <2>1, <2>2, TeammateSuits, KidsStarted
<1> QED BY <1>1, <1>2, <1>3

(* Nothing of the accounts changes.                                        *)
LEMMA KidsSameCharges ==
    ASSUME KidsCharged, UNCHANGED <<calls, decision, caller, fresh>>,
           \A k \in fresh : kind'[k] # "none"
    PROVE  KidsCharged'
BY DEF KidsCharged, FreshOf

(* A child is made anew with what suits it.                                *)
Remade(k, what, set, m) ==
    /\ m \in D!Modes /\ Suits(D!WithOwnLedger(set))
    /\ what # "fork" => "Agent" \notin D!WithOwnLedger(set)
    /\ kind' = [kind EXCEPT ![k] = what]
    /\ tools' = [tools EXCEPT ![k] = D!WithOwnLedger(set)]
    /\ kmode' = [kmode EXCEPT ![k] = D!Restrict(m)]

(* A task that is resumed is charged to nobody.                            *)
LEMMA KidsResume ==
    ASSUME KidsInv, NEW a \in D!AllAgents, NEW k \in D!Kids, D!Resume(a, k)
    PROVE  KidsInv'
<1>1. UNCHANGED <<calls, decision, caller, mode, back, fresh>> /\ kind[k] # "none"
  BY DEF D!Resume
<1>2. CASE D!Refused(k)
  <2>1. UNCHANGED <<state, tools, kmode, node, leftover, lowered, kind>>
    BY <1>2 DEF D!Refused
  <2>2. KidsCharged'
    BY <1>1, <2>1, KidsSameCharges DEF KidsInv, KidsCharged
  <2> QED BY <1>1, <2>1, <2>2
      DEF KidsInv, KidsType, KidsTools, KidsModes, KidsNodes, D!Live
<1>3. CASE D!Replaced(a, k)
  <2>1. \E what \in {"sub", "fork"} : \E set, m : Remade(k, what, set, m)
    <3>1. CASE /\ kind' = [kind EXCEPT ![k] = "sub"]
               /\ \E w \in D!Resumable :
                    /\ tools' = [tools EXCEPT ![k] = D!WithOwnLedger(w.tools)]
                    /\ kmode' = [kmode EXCEPT ![k] = D!Restrict(w.mode)]
      <4>1. PICK w \in D!Resumable :
              /\ tools' = [tools EXCEPT ![k] = D!WithOwnLedger(w.tools)]
              /\ kmode' = [kmode EXCEPT ![k] = D!Restrict(w.mode)]
        BY <3>1
      <4>2. /\ Suits(D!WithOwnLedger(w.tools)) /\ "Agent" \notin D!WithOwnLedger(w.tools)
            /\ w.mode \in D!Modes
        BY WaysSuit DEF D!Resumable
      <4>3. Remade(k, "sub", w.tools, w.mode)
        BY <3>1, <4>1, <4>2 DEF Remade
      <4> QED BY <4>3
    <3>2. CASE /\ kind[k] = "fork" /\ kind' = kind
               /\ tools' = [tools EXCEPT ![k] = D!WithOwnLedger(D!ForkTools)]
               /\ kmode' = [kmode EXCEPT ![k] = D!Restrict("bypass")]
      <4>1. kind' = [kind EXCEPT ![k] = "fork"] /\ "bypass" \in D!Modes
        BY <3>2 DEF KidsInv, KidsType, D!Modes
      <4>2. Remade(k, "fork", D!ForkTools, "bypass")
        BY <3>2, <4>1, ForkSuits DEF Remade
      <4> QED BY <4>2
    <3> QED BY <1>3, <3>1, <3>2 DEF D!Replaced
  <2>a. PICK what \in {"sub", "fork"} : \E set, m : Remade(k, what, set, m)
    BY <2>1
  <2>2. PICK set, m : Remade(k, what, set, m)
    BY <2>a
  <2>3. /\ state' = [state EXCEPT ![k] = "new"] /\ node' = [node EXCEPT ![k] = "running"]
        /\ lowered' = lowered \ {k}
        /\ leftover' = [leftover EXCEPT ![k] = IF state[k] = "idle" THEN "runs"
                                              ELSE IF @ = "ended" THEN "no" ELSE @]
    BY <1>3 DEF D!Replaced
  <2>4. D!Restrict(m) \in D!Modes /\ D!Rank[D!Restrict(m)] <= D!Rank[mode]
    BY <2>2, Restricted DEF KidsInv, Remade
  <2>5. KidsType'
    BY <1>1, <2>2, <2>3, <2>4 DEF KidsInv, KidsType, Suits, Remade
  <2>6. KidsCharged'
    BY <1>1, <2>2, KidsSameCharges DEF KidsInv, KidsCharged, KidsType, Remade
  <2>7. KidsTools'
    BY <2>2 DEF KidsInv, KidsType, KidsTools, Suits, Remade
  <2>8. KidsModes'
    BY <1>1, <2>2, <2>3, <2>4 DEF KidsInv, KidsType, KidsModes, D!Live, Remade
  <2>9. KidsNodes'
    BY <2>3 DEF KidsInv, KidsType, KidsNodes, D!Live
  <2> QED BY <2>5, <2>6, <2>7, <2>8, <2>9 DEF KidsInv
<1> QED BY <1>2, <1>3 DEF D!Resume

(* What is lowered is lowered for the children that run.                   *)
LEMMA KidsSetMode ==
    ASSUME KidsInv, NEW m \in UserModes, D!SetMode(m)
    PROVE  KidsInv'
<1>1. m \in D!Modes /\ mode \in D!Modes
  BY TeamworkAssumption DEF KidsInv, KidsType
<1>2. /\ mode' = m
      /\ UNCHANGED <<decision, calls, kind, caller, state, back, tools, kmode, node, leftover, fresh>>
      /\ lowered' = IF D!Rank[m] < D!Rank[mode] THEN lowered \cup {k \in D!Kids : D!Live(k)}
                                                ELSE lowered
  BY DEF D!SetMode
<1>3. \A x \in D!Modes : D!Rank[x] \in Nat
  BY DEF D!Rank, D!Modes
<1>4. KidsType'
  BY <1>1, <1>2 DEF KidsInv, KidsType
<1>5. KidsModes'
  <2> SUFFICES ASSUME NEW k \in D!Kids, D!Live(k)', k \notin lowered'
               PROVE  D!Rank[kmode'[k]] <= D!Rank[mode']
    BY DEF KidsModes
  <2>1. D!Live(k) /\ k \notin lowered /\ ~(D!Rank[m] < D!Rank[mode])
    BY <1>2 DEF D!Live
  <2>2. D!Rank[kmode[k]] <= D!Rank[mode] /\ kmode[k] \in D!Modes
    BY <2>1 DEF KidsInv, KidsModes, KidsType
  <2> QED BY <1>1, <1>2, <1>3, <2>1, <2>2
<1>6. KidsCharged'
  BY <1>2, KidsSameCharges DEF KidsInv, KidsCharged
<1> QED BY <1>2, <1>4, <1>5, <1>6 DEF KidsInv, KidsTools, KidsNodes, D!Live

(* The decisions, and the calls that start nobody.                         *)
LEMMA KidsDecides ==
    ASSUME KidsInv, D!NewTask \/ (\E k \in D!Kids : D!Begins(k)) \/ (\E a \in D!AllAgents : D!Wasted(a))
    PROVE  KidsInv'
<1>1. CASE D!NewTask
  <2>1. Main \in D!AllAgents /\ D!Decided(Main)
    BY <1>1 DEF D!NewTask, D!AllAgents
  <2>2. UNCHANGED <<mode, kind, caller, state, back, tools, kmode, node, leftover, lowered>>
    BY <1>1 DEF D!NewTask
  <2> QED BY <2>1, <2>2, KidsDecided
      DEF KidsInv, KidsType, KidsTools, KidsModes, KidsNodes, D!Live
<1>2. ASSUME NEW k \in D!Kids, D!Begins(k) PROVE KidsInv'
  <2>1. k \in D!AllAgents /\ D!Decided(k) /\ state[k] = "new" /\ state' = [state EXCEPT ![k] = "run"]
    BY <1>2 DEF D!Begins, D!AllAgents
  <2>2. UNCHANGED <<mode, kind, caller, back, tools, kmode, node, leftover, lowered>>
    BY <1>2 DEF D!Begins
  <2> QED BY <2>1, <2>2, KidsDecided
      DEF KidsInv, KidsType, KidsTools, KidsModes, KidsNodes, D!Live
<1>3. ASSUME NEW a \in D!AllAgents, D!Wasted(a) PROVE KidsInv'
  <2>1. UNCHANGED <<mode, kind, caller, state, back, tools, kmode, node, leftover, fresh, lowered>>
    BY <1>3 DEF D!Wasted
  <2>2. PICK withTeam \in BOOLEAN : D!Charged(a, withTeam)
    BY <1>3 DEF D!Wasted
  <2>3. /\ calls[a] < decision[a].max /\ calls' = [calls EXCEPT ![a] = @ + 1]
        /\ decision' = decision
    BY <2>2 DEF D!Charged, D!MayDelegate
  <2>4. KidsType'
    BY <2>1, <2>3 DEF KidsInv, KidsType
  <2>5. ASSUME NEW b \in D!AllAgents
        PROVE  Cardinality(FreshOf(b)') <= calls'[b] /\ calls'[b] <= decision'[b].max
    <3>1. Cardinality(FreshOf(b)) \in Nat
      BY FS_Subset, FS_CardinalityType DEF KidsInv, KidsType, FreshOf
    <3>2. calls[b] \in Nat /\ decision[b].max \in Nat /\ Cardinality(FreshOf(b)) <= calls[b]
          /\ calls[b] <= decision[b].max
      BY DEF KidsInv, KidsType, DecisionType, KidsCharged
    <3>3. FreshOf(b)' = FreshOf(b)
      BY <2>1 DEF FreshOf
    <3>4. calls'[b] = IF b = a THEN calls[b] + 1 ELSE calls[b]
      BY <2>3 DEF KidsInv, KidsType
    <3> QED BY <2>3, <3>1, <3>2, <3>3, <3>4
  <2>6. KidsCharged'
    BY <2>1, <2>5 DEF KidsInv, KidsCharged
  <2> QED BY <2>1, <2>4, <2>6 DEF KidsInv, KidsTools, KidsModes, KidsNodes, D!Live
<1> QED BY <1>1, <1>2, <1>3

(* The ends of a child, and of the process.                                *)
LEMMA KidsEnds ==
    ASSUME KidsInv, D!Restart \/ \E k \in D!Kids :
              D!Idles(k) \/ D!Ends(k) \/ D!LeftoverEnds(k) \/ D!Cut(k) \/ D!TeamDeleted(k)
    PROVE  KidsInv'
<1>1. CASE D!Restart
  <2>1. \A k \in D!Kids : ~D!Live(k)' /\ node'[k] # "running"
    BY <1>1 DEF D!Restart, D!Live, KidsInv, KidsType
  <2>2. D!Solo \in DecisionType /\ D!Solo.max = 0
    BY DEF D!Solo, D!Chosen, DecisionType
  <2>3. IsFiniteSet({}) /\ Cardinality({}) = 0
    BY FS_EmptySet
  <2>4. KidsType'
    BY <1>1, <2>2, <2>3, TeamworkAssumption DEF D!Restart, KidsInv, KidsType, D!Live
  <2>5. KidsCharged'
    <3>1. \A b \in D!AllAgents : FreshOf(b)' = {} /\ calls'[b] = 0 /\ decision'[b].max = 0
      BY <1>1, <2>2 DEF D!Restart, FreshOf
    <3>2. \A b \in D!AllAgents : Cardinality(FreshOf(b)') = 0
      BY <2>3, <3>1
    <3> QED BY <1>1, <3>1, <3>2 DEF D!Restart, KidsCharged
  <2>6. KidsTools'
    BY <1>1 DEF D!Restart, KidsInv, KidsTools
  <2> QED BY <2>1, <2>4, <2>5, <2>6 DEF KidsInv, KidsModes, KidsNodes
<1>2. ASSUME NEW k \in D!Kids,
             D!Idles(k) \/ D!Ends(k) \/ D!LeftoverEnds(k) \/ D!Cut(k) \/ D!TeamDeleted(k)
      PROVE  KidsInv'
  <2>1. UNCHANGED <<decision, calls, mode, kind, caller, back, tools, kmode, fresh, lowered>>
    BY <1>2 DEF D!Idles, D!Ends, D!LeftoverEnds, D!Cut, D!TeamDeleted
  <2>2. KidsCharged'
    BY <2>1, KidsSameCharges DEF KidsInv, KidsCharged
  <2>3. KidsType' /\ KidsModes' /\ KidsNodes'
    BY <1>2, <2>1 DEF KidsInv, KidsType, KidsModes, KidsNodes, D!Live, D!Idles, D!Ends,
       D!LeftoverEnds, D!NodeEnds, D!Cut, D!TeamDeleted
  <2> QED BY <2>1, <2>2, <2>3 DEF KidsInv, KidsTools
<1> QED BY <1>1, <1>2

(* The invariant of delegation holds in every reachable state.             *)
LEMMA KidsStep == Spec => []KidsInv
<1>1. Init => KidsInv
  <2> SUFFICES ASSUME D!Init PROVE KidsInv
    BY DEF Init
  <2>1. D!Solo \in DecisionType /\ D!Solo.max = 0
    BY DEF D!Solo, D!Chosen, DecisionType
  <2>2. IsFiniteSet({}) /\ Cardinality({}) = 0
    BY FS_EmptySet
  <2>3. KidsType
    BY <2>1, <2>2, TeamworkAssumption DEF D!Init, KidsType, D!Modes, D!AllAgents
  <2>4. \A b \in D!AllAgents : FreshOf(b) = {} /\ calls[b] = 0 /\ decision[b].max = 0
    BY <2>1 DEF D!Init, FreshOf
  <2>5. \A b \in D!AllAgents : Cardinality(FreshOf(b)) = 0
    BY <2>2, <2>4
  <2>6. KidsCharged
    BY <2>4, <2>5 DEF D!Init, KidsCharged
  <2> QED BY <2>3, <2>6 DEF D!Init, KidsInv, KidsTools, KidsModes, KidsNodes, D!Live
<1>2. KidsInv /\ [Next]_<<focus, post, board, teams, kids>> => KidsInv'
  <2>1. KidsInv /\ UNCHANGED kids => KidsInv'
    BY DEF kids, KidsInv, KidsType, KidsCharged, FreshOf, KidsTools, KidsModes, KidsNodes, D!Live
  <2>2. [Next]_<<focus, post, board, teams, kids>> => D!Next \/ UNCHANGED kids
    BY DEF Next
  <2>3. KidsInv /\ D!Next => KidsInv'
    BY KidsStart, KidsResume, KidsSetMode, KidsDecides, KidsEnds DEF D!Next
  <2> QED BY <2>1, <2>2, <2>3
<1> QED BY <1>1, <1>2, PTL DEF Spec

(* Between two decisions an agent starts no more children than it decided, *)
(* and only Main and its forks start any.                                  *)
THEOREM DelegationStaysBounded == Spec => []DelegationBounded
<1>1. KidsInv => DelegationBounded
  <2> SUFFICES ASSUME KidsInv PROVE D!DelegationBounded
    BY DEF DelegationBounded
  <2>1. ASSUME NEW a \in D!AllAgents
        PROVE  D!Cardinality({k \in fresh : caller[k] = a}) <= decision[a].max
    <3>1. Cardinality(FreshOf(a)) \in Nat
      BY FS_Subset, FS_CardinalityType DEF KidsInv, KidsType, FreshOf
    <3>2. calls[a] \in Nat /\ decision[a].max \in Nat /\ Cardinality(FreshOf(a)) <= calls[a]
          /\ calls[a] <= decision[a].max
      BY DEF KidsInv, KidsType, DecisionType, KidsCharged
    <3>3. Cardinality({k \in fresh : caller[k] = a}) <= decision[a].max
      BY <3>1, <3>2 DEF FreshOf
    <3> QED BY <3>3 DEF D!Cardinality, Cardinality
  <2> QED BY <2>1 DEF D!DelegationBounded, KidsInv, KidsTools
<1> QED BY <1>1, KidsStep, PTL

(* A child has no hold on Main's ledger, no mode above Main's unless that  *)
(* was lowered while it ran, and a trace node that says what it does, but  *)
(* for nodes without an agent and that of an agent in an idle teammate's   *)
(* place.                                                                  *)
THEOREM ChildrenContained == Spec => []ChildContained
<1>1. KidsInv => ChildContained
  BY DEF ChildContained, D!ChildContained, KidsInv, KidsTools, KidsModes, KidsNodes
<1> QED BY <1>1, KidsStep, PTL

-----------------------------------------------------------------------------
(* Teams.                                                                  *)

TeamsType ==
    /\ dirs \subseteq Slugs /\ boxes \subseteq Slugs /\ known \subseteq T!Keys
    /\ saved \in [Slugs -> T!Roster] /\ team \in [T!Keys -> T!Roster]
    /\ registry \in [Names -> Agents \cup {NoOne}]
    /\ teamOf \in [Agents -> T!Keys \cup {NoTeam}] /\ name \in [Agents -> Names]
    /\ task \in [Agents -> {"none", "work", "idle", "ended", "told", "lost"}]
    /\ inbox \in [Slugs -> [T!Boxes -> SUBSET {"ontime", "late"}]]

(* Who was started has a team; who is in a roster was started, and in a    *)
(* team of that slug unless another process left it there.                 *)
Belongs(roster, slug) ==
    \A a \in roster.members :
        task[a] # "none" /\ (teamOf[a] = NoTeam \/ T!Home(a) = slug)

TeamsRosters ==
    /\ \A a \in Agents : task[a] \notin {"none", "lost"} => teamOf[a] \in T!Keys
    /\ \A k \in T!Keys : Belongs(team[k], T!Slug(k))
    /\ \A s \in Slugs : Belongs(saved[s], s)

(* A team known under one spelling knows its living members.               *)
TeamsHome ==
    \A a \in Agents :
        T!Live(a) /\ T!Home(a) \notin spelled =>
            /\ teamOf[a] \in known /\ T!Home(a) \in dirs
            /\ a \in team[teamOf[a]].members /\ a \in team[teamOf[a]].active

TeamsInv ==
    /\ TeamsType /\ TeamsRosters /\ TeamsHome
    /\ T!Reachable /\ T!ReadBeforeLeaving /\ T!FullToolsReturn

(* Each spelling of a team name has one directory.                         *)
LEMMA SlugType == \A k \in T!Keys : T!Slug(k) \in Slugs
BY TeamworkAssumption DEF T!Keys, T!Slug

(* A directory's name is itself a spelling, of the team that lives there.  *)
LEMMA SlugOfSlug == Slugs \subseteq T!Keys /\ \A s \in Slugs : T!Slug(s) = s
BY TeamworkAssumption DEF T!Keys, T!Slug

(* What is loaded from a team's file is a roster.                          *)
LEMMA LoadedType ==
    ASSUME TeamsType, NEW k \in T!Keys
    PROVE  T!Loaded(k) \in T!Roster
BY SlugType DEF TeamsType, T!Loaded

(* What is loaded from a team's file names members of that team.           *)
LEMMA LoadedBelongs ==
    ASSUME TeamsType, TeamsRosters, NEW k \in T!Keys
    PROVE  Belongs(T!Loaded(k), T!Slug(k))
BY SlugType DEF TeamsRosters, T!Loaded

(* A removal takes only what it names.                                     *)
LEMMA RemovesType ==
    ASSUME TeamsType, NEW ks, ks \subseteq T!Keys, T!Removes(ks)
    PROVE  /\ dirs' \subseteq Slugs /\ boxes' \subseteq Slugs /\ known' \subseteq T!Keys
           /\ saved' \in [Slugs -> T!Roster] /\ team' \in [T!Keys -> T!Roster]
           /\ registry' \in [Names -> Agents \cup {NoOne}]
           /\ inbox' \in [Slugs -> [T!Boxes -> SUBSET {"ontime", "late"}]]
<1>1. T!Nobody \in T!Roster /\ T!NoMail \in [T!Boxes -> SUBSET {"ontime", "late"}]
  BY DEF T!Nobody, T!Roster, T!NoMail
<1>2. dirs' \subseteq Slugs /\ boxes' \subseteq Slugs /\ known' \subseteq T!Keys
  BY DEF TeamsType, T!Removes
<1>3. team' \in [T!Keys -> T!Roster] /\ saved' \in [Slugs -> T!Roster]
  BY <1>1 DEF TeamsType, T!Removes
<1>4. registry' \in [Names -> Agents \cup {NoOne}]
  BY DEF TeamsType, T!Removes, T!Unregistered
<1>5. inbox' \in [Slugs -> [T!Boxes -> SUBSET {"ontime", "late"}]]
  BY <1>1 DEF TeamsType, T!Removes
<1> QED BY <1>2, <1>3, <1>4, <1>5

(* The steps of a process on its teams, one disjunct for each operation.   *)
LEMMA TeamsActions ==
    ASSUME T!Next
    PROVE  \/ \E k \in T!Keys : T!CreateTeam(k) \/ T!DeleteTeam(k) \/ \E a \in Agents : T!Spawn(k, a)
           \/ \E a \in Agents :
                 \/ T!TurnEnds(a) \/ T!PollMail(a) \/ T!PollEmpty(a) \/ T!Fails(a) \/ T!Reported(a)
                 \/ T!Broadcast(a) \/ \E n \in Names : T!SendMessage(a, n)
           \/ T!DrainLead \/ T!ExitCleanup
BY DEF T!Next

(* Every step keeps teams, directories and registry well formed.           *)
LEMMA TeamsTypeStep == ASSUME TeamsType, TeamsRosters, T!Next PROVE TeamsType'
<1>1. ASSUME NEW k \in T!Keys, T!CreateTeam(k) PROVE TeamsType'
  <2>1. PICK s \in Slugs : /\ T!Saves(s, T!Nobody) /\ boxes' = boxes \cup {s}
                           /\ inbox' = [inbox EXCEPT ![s] = T!NoMail]
    BY <1>1 DEF T!CreateTeam
  <2>2. T!Nobody \in T!Roster /\ T!NoMail \in [T!Boxes -> SUBSET {"ontime", "late"}]
    BY DEF T!Nobody, T!Roster, T!NoMail
  <2>3. UNCHANGED <<registry, teamOf, name, task>>
    BY <1>1 DEF T!CreateTeam
  <2> QED BY <2>1, <2>2, <2>3, SlugOfSlug DEF TeamsType, T!Saves
<1>2. ASSUME NEW k \in T!Keys, T!DeleteTeam(k) PROVE TeamsType'
  <2>1. T!Removes({k}) /\ UNCHANGED <<teamOf, name, task>>
    BY <1>2 DEF T!DeleteTeam
  <2> QED BY <2>1, RemovesType DEF TeamsType
<1>3. ASSUME NEW k \in T!Keys, NEW a \in Agents, T!Spawn(k, a) PROVE TeamsType'
  <2> DEFINE roster == [members |-> T!Loaded(k).members \cup {a},
                        active |-> T!Loaded(k).active \cup {a}]
  <2>1. roster \in T!Roster
    BY LoadedType DEF T!Roster
  <2>2. T!Saves(k, roster) /\ UNCHANGED <<boxes, inbox>>
        /\ teamOf' = [teamOf EXCEPT ![a] = k] /\ task' = [task EXCEPT ![a] = "work"]
    BY <1>3 DEF T!Spawn
  <2> HIDE DEF roster
  <2>3. name' \in [Agents -> Names] /\ registry' \in [Names -> Agents \cup {NoOne}]
    BY <1>3 DEF T!Spawn, T!FreeName, TeamsType
  <2> QED BY <2>1, <2>2, <2>3, SlugType DEF TeamsType, T!Saves
<1>4. ASSUME NEW a \in Agents, T!TurnEnds(a) \/ T!PollMail(a) \/ T!PollEmpty(a) \/ T!Fails(a)
      PROVE TeamsType'
  <2>1. UNCHANGED <<dirs, boxes, saved, known, team, registry, teamOf, name>>
    BY <1>4 DEF T!TurnEnds, T!PollMail, T!PollEmpty, T!Fails
  <2>2. task' \in [Agents -> {"none", "work", "idle", "ended", "told", "lost"}]
    BY <1>4 DEF T!TurnEnds, T!PollMail, T!PollEmpty, T!Fails, T!Ended, TeamsType
  <2>3. inbox' \in [Slugs -> [T!Boxes -> SUBSET {"ontime", "late"}]]
    BY <1>4 DEF T!TurnEnds, T!PollMail, T!PollEmpty, T!Fails, TeamsType
  <2> QED BY <2>1, <2>2, <2>3 DEF TeamsType
<1>5. ASSUME NEW a \in Agents, T!Reported(a) PROVE TeamsType'
  <2>1. teamOf[a] \in T!Keys /\ T!Home(a) \in Slugs /\ Lead \in T!Boxes
    BY <1>5, SlugType DEF T!Reported, TeamsRosters, T!Home, T!Boxes
  <2>2. task' = [task EXCEPT ![a] = "told"] /\ UNCHANGED <<boxes, registry, teamOf, name>>
    BY <1>5 DEF T!Reported
  <2>3. CASE T!Saves(teamOf[a], [T!Loaded(teamOf[a]) EXCEPT !.active = @ \ {a}])
    <3>1. [T!Loaded(teamOf[a]) EXCEPT !.active = @ \ {a}] \in T!Roster
      BY <2>1, LoadedType DEF T!Roster
    <3>2. inbox' \in [Slugs -> [T!Boxes -> SUBSET {"ontime", "late"}]]
      <4>1. CASE inbox' = inbox
        BY <4>1 DEF TeamsType
      <4>2. CASE T!Wrote(T!Home(a), Lead, "ontime")
        BY <2>1, <4>2 DEF TeamsType, T!Wrote
      <4> QED BY <1>5, <4>1, <4>2 DEF T!Reported
    <3> QED BY <2>1, <2>2, <2>3, <3>1, <3>2, SlugType DEF TeamsType, T!Saves
  <2>4. CASE UNCHANGED <<dirs, saved, known, team, inbox>>
    BY <2>2, <2>4 DEF TeamsType
  <2> QED BY <1>5, <2>3, <2>4 DEF T!Reported
<1>6. ASSUME NEW a \in Agents, T!Broadcast(a) \/ \E n \in Names : T!SendMessage(a, n)
      PROVE TeamsType'
  <2>1. T!Home(a) \in Slugs
    BY <1>6, SlugType DEF T!Broadcast, T!SendMessage, TeamsRosters, T!Home
  <2>2. UNCHANGED <<dirs, boxes, saved, known, team, registry, teamOf, name, task>>
    BY <1>6 DEF T!Broadcast, T!SendMessage
  <2>3. \A s, b : T!Kind(s, b) \in {"ontime", "late"}
    BY DEF T!Kind
  <2>4. inbox' \in [Slugs -> [T!Boxes -> SUBSET {"ontime", "late"}]]
    <3>1. CASE T!Broadcast(a)
      BY <2>1, <2>3, <3>1 DEF T!Broadcast, TeamsType
    <3>2. ASSUME NEW n \in Names, T!SendMessage(a, n)
          PROVE  inbox' \in [Slugs -> [T!Boxes -> SUBSET {"ontime", "late"}]]
      <4>1. registry[n] \in T!Boxes
        BY <3>2 DEF T!SendMessage, TeamsType, T!Boxes
      <4> QED BY <2>1, <2>3, <3>2, <4>1 DEF T!SendMessage, T!Wrote, TeamsType
    <3> QED BY <1>6, <3>1, <3>2
  <2> QED BY <2>2, <2>4 DEF TeamsType
<1>7. CASE T!DrainLead
  <2>1. inbox' \in [Slugs -> [T!Boxes -> SUBSET {"ontime", "late"}]]
    BY <1>7 DEF T!DrainLead, TeamsType
  <2> QED BY <1>7, <2>1 DEF T!DrainLead, TeamsType
<1>8. CASE T!ExitCleanup
  <2>1. T!Removes(known) /\ known \subseteq T!Keys /\ UNCHANGED <<teamOf, name>>
    BY <1>8 DEF T!ExitCleanup, TeamsType
  <2>2. task' \in [Agents -> {"none", "work", "idle", "ended", "told", "lost"}]
    BY <1>8 DEF T!ExitCleanup, TeamsType
  <2> QED BY <2>1, <2>2, RemovesType DEF TeamsType
<1> QED BY TeamsActions, <1>1, <1>2, <1>3, <1>4, <1>5, <1>6, <1>7, <1>8

(* Who was started stays started, and in its team.                         *)
LEMMA TeamsStarted ==
    ASSUME TeamsType, T!Next
    PROVE  \A a \in Agents : task[a] # "none" =>
              /\ task'[a] # "none" /\ teamOf'[a] = teamOf[a] /\ name'[a] = name[a]
              /\ T!Live(a)' => T!Live(a)
<1> DEFINE Kept == \A a \in Agents : task[a] # "none" =>
                      /\ task'[a] # "none" /\ teamOf'[a] = teamOf[a] /\ name'[a] = name[a]
                      /\ T!Live(a)' => T!Live(a)
<1>1. ASSUME NEW k \in T!Keys, T!CreateTeam(k) \/ T!DeleteTeam(k) PROVE Kept
  BY <1>1 DEF T!CreateTeam, T!DeleteTeam, T!Live
<1>2. ASSUME NEW k \in T!Keys, NEW a \in Agents, T!Spawn(k, a) PROVE Kept
  BY <1>2 DEF T!Spawn, T!Live, TeamsType
<1>3. ASSUME NEW a \in Agents,
             \/ T!TurnEnds(a) \/ T!PollMail(a) \/ T!PollEmpty(a) \/ T!Fails(a) \/ T!Reported(a)
             \/ T!Broadcast(a) \/ \E n \in Names : T!SendMessage(a, n)
      PROVE  Kept
  <2>1. UNCHANGED <<teamOf, name>>
    BY <1>3 DEF T!TurnEnds, T!PollMail, T!PollEmpty, T!Fails, T!Reported, T!Broadcast, T!SendMessage
  <2>2. \/ UNCHANGED task
        \/ task[a] # "none" /\ \E t \in {"work", "idle"} : task' = [task EXCEPT ![a] = t] /\ T!Live(a)
        \/ task[a] # "none" /\ \E t \in {"ended", "told"} : task' = [task EXCEPT ![a] = t]
    BY <1>3 DEF T!TurnEnds, T!PollMail, T!PollEmpty, T!Fails, T!Reported, T!Broadcast,
       T!SendMessage, T!Ended, T!Live
  <2> QED BY <2>1, <2>2 DEF T!Live, TeamsType
<1>4. CASE T!DrainLead
  BY <1>4 DEF T!DrainLead, T!Live
<1>5. CASE T!ExitCleanup
  BY <1>5 DEF T!ExitCleanup, T!Live
<1> QED BY TeamsActions, <1>1, <1>2, <1>3, <1>4, <1>5

(* A roster that nobody joined is as good as before.                       *)
LEMMA BelongsKept ==
    ASSUME TeamsType, T!Next, NEW roster \in T!Roster, NEW slug, Belongs(roster, slug)
    PROVE  \A a \in roster.members : task'[a] # "none" /\ (teamOf'[a] = NoTeam \/ T!Home(a)' = slug)
<1>1. roster.members \subseteq Agents
  BY DEF T!Roster
<1> QED BY <1>1, TeamsStarted DEF Belongs, T!Home

(* A save changes the roster of one team.                                  *)
LEMMA SavesBelongs ==
    ASSUME TeamsType, TeamsRosters, T!Next, NEW k \in T!Keys, NEW roster \in T!Roster,
           T!Saves(k, roster),
           \A a \in roster.members :
              task'[a] # "none" /\ (teamOf'[a] = NoTeam \/ T!Home(a)' = T!Slug(k))
    PROVE  /\ \A j \in T!Keys : Belongs(team[j], T!Slug(j))'
           /\ \A s \in Slugs : Belongs(saved[s], s)'
<1>1. ASSUME NEW j \in T!Keys PROVE Belongs(team[j], T!Slug(j))'
  <2>1. T!Slug(j)' = T!Slug(j) /\ team'[j] = IF j = k THEN roster ELSE team[j]
    BY DEF T!Saves, TeamsType, T!Slug
  <2>2. team[j] \in T!Roster /\ Belongs(team[j], T!Slug(j))
    BY DEF TeamsType, TeamsRosters
  <2> QED BY <2>1, <2>2, BelongsKept DEF Belongs
<1>2. ASSUME NEW s \in Slugs PROVE Belongs(saved[s], s)'
  <2>1. saved'[s] = IF s = T!Slug(k) THEN roster ELSE saved[s]
    BY SlugType DEF T!Saves, TeamsType
  <2>2. saved[s] \in T!Roster /\ Belongs(saved[s], s)
    BY DEF TeamsType, TeamsRosters
  <2> QED BY <2>1, <2>2, BelongsKept DEF Belongs
<1> QED BY <1>1, <1>2

(* Every step keeps in each roster only agents started for that team.      *)
LEMMA TeamsRostersStep == ASSUME TeamsType, TeamsRosters, T!Next PROVE TeamsRosters'
<1>1. \A a \in Agents : task'[a] \notin {"none", "lost"} => teamOf'[a] \in T!Keys
  <2>1. ASSUME NEW a \in Agents, task[a] \notin {"none", "lost"} PROVE teamOf'[a] \in T!Keys
    BY <2>1, TeamsStarted DEF TeamsRosters
  <2>2. ASSUME NEW k \in T!Keys, NEW b \in Agents, T!Spawn(k, b), NEW a \in Agents,
               task[a] \in {"none", "lost"}, task'[a] \notin {"none", "lost"}
        PROVE  teamOf'[a] \in T!Keys
    BY <2>2 DEF T!Spawn, TeamsType
  <2>3. ASSUME NEW a \in Agents, task[a] \in {"none", "lost"}, task'[a] \notin {"none", "lost"}
        PROVE  \E k \in T!Keys : \E b \in Agents : T!Spawn(k, b)
    BY <2>3, TeamsActions DEF TeamsType, T!CreateTeam, T!DeleteTeam, T!TurnEnds, T!PollMail,
       T!PollEmpty, T!Fails, T!Live, T!Ended, T!Reported, T!Broadcast, T!SendMessage, T!DrainLead,
       T!ExitCleanup
  <2> QED BY <2>1, <2>2, <2>3
<1> DEFINE Good == /\ \A j \in T!Keys : Belongs(team[j], T!Slug(j))'
                   /\ \A s \in Slugs : Belongs(saved[s], s)'
<1>2. ASSUME UNCHANGED <<team, saved>> PROVE Good
  <2>1. \A j \in T!Keys : team[j] \in T!Roster /\ Belongs(team[j], T!Slug(j)) /\ team'[j] = team[j]
    BY <1>2 DEF TeamsType, TeamsRosters
  <2>2. \A s \in Slugs : saved[s] \in T!Roster /\ Belongs(saved[s], s) /\ saved'[s] = saved[s]
    BY <1>2 DEF TeamsType, TeamsRosters
  <2>3. ASSUME NEW j \in T!Keys PROVE Belongs(team[j], T!Slug(j))'
    <3>1. T!Slug(j)' = T!Slug(j)
      BY DEF T!Slug
    <3> QED BY <2>1, <3>1, BelongsKept DEF Belongs
  <2>4. ASSUME NEW s \in Slugs PROVE Belongs(saved[s], s)'
    BY <2>2, BelongsKept DEF Belongs
  <2> QED BY <2>3, <2>4
<1>3. ASSUME NEW ks, ks \subseteq T!Keys, T!Removes(ks) PROVE Good
  <2>1. ASSUME NEW j \in T!Keys PROVE Belongs(team[j], T!Slug(j))'
    <3>1. team'[j] = IF j \in ks THEN T!Nobody ELSE team[j]
      BY <1>3 DEF T!Removes
    <3>2. team[j] \in T!Roster /\ Belongs(team[j], T!Slug(j)) /\ T!Slug(j)' = T!Slug(j)
      BY DEF TeamsType, TeamsRosters, T!Slug
    <3>3. T!Nobody.members = {}
      BY DEF T!Nobody
    <3> QED BY <3>1, <3>2, <3>3, BelongsKept DEF Belongs
  <2>2. ASSUME NEW s \in Slugs PROVE Belongs(saved[s], s)'
    <3>1. saved'[s] \in {T!Nobody, saved[s]}
      BY <1>3 DEF T!Removes
    <3>2. saved[s] \in T!Roster /\ Belongs(saved[s], s)
      BY DEF TeamsType, TeamsRosters
    <3>3. T!Nobody.members = {}
      BY DEF T!Nobody
    <3> QED BY <3>1, <3>2, <3>3, BelongsKept DEF Belongs
  <2> QED BY <2>1, <2>2
<1>4. ASSUME NEW k \in T!Keys, T!CreateTeam(k) PROVE Good
  <2>1. PICK s \in Slugs : T!Saves(s, T!Nobody)
    BY <1>4 DEF T!CreateTeam
  <2>2. T!Nobody \in T!Roster /\ T!Nobody.members = {} /\ s \in T!Keys
    BY SlugOfSlug DEF T!Nobody, T!Roster
  <2> QED BY <2>1, <2>2, SavesBelongs
<1>5. ASSUME NEW k \in T!Keys, NEW a \in Agents, T!Spawn(k, a) PROVE Good
  <2> DEFINE roster == [members |-> T!Loaded(k).members \cup {a},
                        active |-> T!Loaded(k).active \cup {a}]
  <2>1. roster \in T!Roster /\ roster.members = T!Loaded(k).members \cup {a}
    BY LoadedType DEF T!Roster
  <2>2. T!Saves(k, roster) /\ teamOf'[a] = k /\ task'[a] = "work"
    BY <1>5 DEF T!Spawn, TeamsType
  <2> HIDE DEF roster
  <2>3. \A b \in T!Loaded(k).members :
          task'[b] # "none" /\ (teamOf'[b] = NoTeam \/ T!Home(b)' = T!Slug(k))
    BY LoadedType, LoadedBelongs, BelongsKept
  <2>4. T!Home(a)' = T!Slug(k)
    BY <2>2 DEF T!Home, T!Slug
  <2>5. \A b \in roster.members :
          task'[b] # "none" /\ (teamOf'[b] = NoTeam \/ T!Home(b)' = T!Slug(k))
    BY <2>1, <2>2, <2>3, <2>4
  <2> QED BY <2>1, <2>2, <2>5, SavesBelongs
<1>6. ASSUME NEW a \in Agents, T!Reported(a) PROVE Good
  <2>1. CASE UNCHANGED <<team, saved>>
    BY <1>2, <2>1
  <2>2. CASE T!Saves(teamOf[a], [T!Loaded(teamOf[a]) EXCEPT !.active = @ \ {a}])
    <3>1. teamOf[a] \in T!Keys
      BY <1>6 DEF T!Reported, TeamsRosters
    <3> DEFINE roster == [T!Loaded(teamOf[a]) EXCEPT !.active = @ \ {a}]
    <3>2. roster \in T!Roster /\ roster.members = T!Loaded(teamOf[a]).members
      BY <3>1, LoadedType DEF T!Roster
    <3>3. \A b \in T!Loaded(teamOf[a]).members :
            task'[b] # "none" /\ (teamOf'[b] = NoTeam \/ T!Home(b)' = T!Slug(teamOf[a]))
      BY <3>1, LoadedType, LoadedBelongs, BelongsKept
    <3> HIDE DEF roster
    <3>4. T!Saves(teamOf[a], roster)
      BY <2>2 DEF roster
    <3> QED BY <3>1, <3>2, <3>3, <3>4, SavesBelongs
  <2> QED BY <1>6, <2>1, <2>2 DEF T!Reported
<1>7. Good
  <2>1. ASSUME NEW a \in Agents,
               \/ T!TurnEnds(a) \/ T!PollMail(a) \/ T!PollEmpty(a) \/ T!Fails(a)
               \/ T!Broadcast(a) \/ \E n \in Names : T!SendMessage(a, n)
        PROVE  UNCHANGED <<team, saved>>
    BY <2>1 DEF T!TurnEnds, T!PollMail, T!PollEmpty, T!Fails, T!Broadcast, T!SendMessage
  <2>2. T!DrainLead => UNCHANGED <<team, saved>>
    BY DEF T!DrainLead
  <2>3. ASSUME NEW k \in T!Keys, T!DeleteTeam(k) PROVE Good
    BY <1>3, <2>3 DEF T!DeleteTeam
  <2>4. T!ExitCleanup => Good
    BY <1>3 DEF T!ExitCleanup, TeamsType
  <2> HIDE DEF Good
  <2> QED BY TeamsActions, <1>2, <1>4, <1>5, <1>6, <2>1, <2>2, <2>3, <2>4
<1> QED BY <1>1, <1>7 DEF TeamsRosters, T!Keys

(* That a team was spelled in two ways is not forgotten.                   *)
LEMMA SpelledStays == ASSUME T!Next PROVE spelled \subseteq spelled'
BY TeamsActions DEF T!CreateTeam, T!DeleteTeam, T!Spawn, T!TurnEnds, T!PollMail, T!PollEmpty,
   T!Fails, T!Reported, T!Broadcast, T!SendMessage, T!DrainLead, T!ExitCleanup, T!Saves,
   T!Removes, T!Spelling

(* A living member of a team under one spelling is no stranger to it.      *)
AtHome(a) ==
    /\ teamOf[a] \in known /\ T!Home(a) \in dirs
    /\ a \in team[teamOf[a]].members /\ a \in team[teamOf[a]].active

(* Two spellings of one slug are noticed together.                         *)
LEMMA OneSpelling ==
    ASSUME NEW ks, T!Spelling(ks), NEW i \in ks, NEW j \in ks, i # j, T!Slug(i) \in Slugs,
           T!Slug(i) \notin spelled'
    PROVE  T!Slug(i) # T!Slug(j)
BY DEF T!Spelling

(* Saving a roster that keeps its members leaves each of them at home.     *)
LEMMA SavesHome ==
    ASSUME TeamsType, T!Next, NEW a \in Agents, T!Live(a), AtHome(a), NEW k \in T!Keys, NEW roster,
           T!Saves(k, roster),
           teamOf[a] = k => a \in roster.members /\ a \in roster.active
    PROVE  AtHome(a)'
<1>1. teamOf'[a] = teamOf[a] /\ T!Home(a)' = T!Home(a)
  BY TeamsStarted DEF T!Live, T!Home, T!Slug
<1>2. team'[teamOf[a]] = IF teamOf[a] = k THEN roster ELSE team[teamOf[a]]
  BY DEF T!Saves, TeamsType, AtHome
<1> QED BY <1>1, <1>2 DEF AtHome, T!Saves

(* A team of one spelling is not deleted under a living member, and none   *)
(* is created over it.                                                     *)
LEMMA DeleteSpares ==
    ASSUME TeamsType, NEW k \in T!Keys, T!DeleteTeam(k), NEW a \in Agents, AtHome(a),
           T!Home(a) \notin spelled'
    PROVE  teamOf[a] # k /\ T!Home(a) # T!Slug(k)
<1>1. teamOf[a] # k
  <2> SUFFICES ASSUME teamOf[a] = k PROVE FALSE
    OBVIOUS
  <2>1. T!Loaded(k) = team[k]
    BY DEF AtHome, T!Loaded
  <2> QED BY <2>1 DEF AtHome, T!DeleteTeam, T!AllIdle
<1>2. T!Spelling(known \cup {k})
  BY DEF T!DeleteTeam, T!Removes
<1>3. teamOf[a] \in known \cup {k} /\ T!Slug(teamOf[a]) \in Slugs /\ T!Slug(teamOf[a]) \notin spelled'
  BY SlugType DEF AtHome, TeamsType, T!Home
<1>4. T!Slug(teamOf[a]) # T!Slug(k)
  BY <1>1, <1>2, <1>3, OneSpelling
<1> QED BY <1>1, <1>4 DEF T!Home

(* Every step keeps living members of singly spelled teams at home.        *)
LEMMA TeamsHomeStep == ASSUME TeamsType, TeamsRosters, TeamsHome, T!Next PROVE TeamsHome'
<1> SUFFICES ASSUME NEW a \in Agents, T!Live(a)', T!Home(a)' \notin spelled' PROVE AtHome(a)'
  BY DEF TeamsHome, AtHome
<1>1. CASE T!Live(a)
  <2>1. teamOf'[a] = teamOf[a] /\ T!Home(a)' = T!Home(a) /\ T!Home(a) \notin spelled
    BY <1>1, TeamsStarted, SpelledStays DEF T!Live, T!Home, T!Slug
  <2>2. AtHome(a)
    BY <1>1, <2>1 DEF TeamsHome, AtHome
  <2>3. ASSUME NEW k \in T!Keys, T!CreateTeam(k) PROVE AtHome(a)'
    <3>1. PICK s \in Slugs : T!Free(s) /\ T!Saves(s, T!Nobody)
      BY <2>3 DEF T!CreateTeam, T!Unique
    <3>2. s \in T!Keys /\ teamOf[a] # s
      BY <2>2, <3>1, SlugOfSlug DEF AtHome, T!Free, T!Home
    <3> QED BY <1>1, <2>2, <3>1, <3>2, SavesHome
  <2>4. ASSUME NEW k \in T!Keys, T!DeleteTeam(k) PROVE AtHome(a)'
    <3>1. teamOf[a] # k /\ T!Home(a) # T!Slug(k)
      BY <2>1, <2>2, <2>4, DeleteSpares
    <3>2. teamOf[a] \in known' /\ T!Home(a) \in dirs' /\ team'[teamOf[a]] = team[teamOf[a]]
      BY <2>2, <2>4, <3>1 DEF AtHome, T!DeleteTeam, T!Removes, TeamsType
    <3> QED BY <2>1, <2>2, <3>2 DEF AtHome
  <2>5. ASSUME NEW k \in T!Keys, NEW b \in Agents, T!Spawn(k, b) PROVE AtHome(a)'
    <3>1. T!Saves(k, [members |-> T!Loaded(k).members \cup {b},
                      active |-> T!Loaded(k).active \cup {b}])
      BY <2>5 DEF T!Spawn
    <3>2. teamOf[a] = k => a \in T!Loaded(k).members /\ a \in T!Loaded(k).active
      BY <2>2 DEF AtHome, T!Loaded
    <3> QED BY <1>1, <2>2, <3>1, <3>2, SavesHome
  <2>6. ASSUME NEW b \in Agents, T!Reported(b) PROVE AtHome(a)'
    <3>1. teamOf[b] \in T!Keys /\ a # b
      BY <1>1, <2>6 DEF T!Reported, TeamsRosters, T!Live
    <3>2. CASE T!Saves(teamOf[b], [T!Loaded(teamOf[b]) EXCEPT !.active = @ \ {b}])
      <4> DEFINE roster == [T!Loaded(teamOf[b]) EXCEPT !.active = @ \ {b}]
      <4>1. roster.members = T!Loaded(teamOf[b]).members
            /\ roster.active = T!Loaded(teamOf[b]).active \ {b}
        BY <3>1, LoadedType DEF T!Roster
      <4> HIDE DEF roster
      <4>2. T!Saves(teamOf[b], roster)
        BY <3>2 DEF roster
      <4>3. teamOf[a] = teamOf[b] => a \in roster.members /\ a \in roster.active
        BY <2>2, <3>1, <4>1 DEF AtHome, T!Loaded
      <4> QED BY <1>1, <2>2, <3>1, <4>2, <4>3, SavesHome
    <3>3. CASE UNCHANGED <<dirs, saved, known, team>>
      BY <2>1, <2>2, <3>3 DEF AtHome
    <3> QED BY <2>6, <3>2, <3>3 DEF T!Reported
  <2>7. CASE UNCHANGED <<dirs, known, team>>
    BY <2>1, <2>2, <2>7 DEF AtHome
  <2>8. ASSUME NEW b \in Agents,
               \/ T!TurnEnds(b) \/ T!PollMail(b) \/ T!PollEmpty(b) \/ T!Fails(b)
               \/ T!Broadcast(b) \/ \E n \in Names : T!SendMessage(b, n)
        PROVE  UNCHANGED <<dirs, known, team>>
    BY <2>8 DEF T!TurnEnds, T!PollMail, T!PollEmpty, T!Fails, T!Broadcast, T!SendMessage
  <2>9. T!DrainLead => UNCHANGED <<dirs, known, team>>
    BY DEF T!DrainLead
  <2>10. ~T!ExitCleanup
    BY DEF T!ExitCleanup, T!Live
  <2> QED BY TeamsActions, <2>3, <2>4, <2>5, <2>6, <2>7, <2>8, <2>9, <2>10
<1>2. CASE ~T!Live(a)
  <2>0. task[a] = "none" /\ task'[a] # task[a]
    BY <1>2, TeamsStarted DEF T!Live
  <2>a. ASSUME NEW k \in T!Keys, T!CreateTeam(k) \/ T!DeleteTeam(k) PROVE FALSE
    BY <2>0, <2>a DEF T!CreateTeam, T!DeleteTeam
  <2>b. ASSUME NEW b \in Agents, T!TurnEnds(b) \/ T!PollMail(b) \/ T!PollEmpty(b) PROVE FALSE
    <3>1. /\ task[b] # "none"
          /\ \/ task' = task
             \/ \E t \in {"work", "idle", "ended"} : task' = [task EXCEPT ![b] = t]
      BY <2>b DEF T!TurnEnds, T!PollMail, T!PollEmpty, T!Ended
    <3> QED BY <2>0, <3>1 DEF TeamsType
  <2>c. ASSUME NEW b \in Agents, T!Fails(b) \/ T!Reported(b) PROVE FALSE
    <3>1. task[b] # "none" /\ \E t \in {"ended", "told"} : task' = [task EXCEPT ![b] = t]
      BY <2>c DEF T!Fails, T!Reported, T!Live, T!Ended
    <3> QED BY <2>0, <3>1 DEF TeamsType
  <2>d. ASSUME NEW b \in Agents, T!Broadcast(b) \/ \E m \in Names : T!SendMessage(b, m) PROVE FALSE
    BY <2>0, <2>d DEF T!Broadcast, T!SendMessage
  <2>e. ~T!DrainLead
    BY <2>0 DEF T!DrainLead
  <2>f. ~T!ExitCleanup
    BY <2>0, <1>2 DEF T!ExitCleanup, T!Live, TeamsType
  <2>g. ASSUME NEW k \in T!Keys, NEW b \in Agents, T!Spawn(k, b) PROVE a = b
    BY <2>0, <2>g DEF T!Spawn, TeamsType
  <2>1. PICK k \in T!Keys : T!Spawn(k, a)
    BY TeamsActions, <2>a, <2>b, <2>c, <2>d, <2>e, <2>f, <2>g
  <2>2. /\ teamOf'[a] = k
        /\ T!Saves(k, [members |-> T!Loaded(k).members \cup {a},
                       active |-> T!Loaded(k).active \cup {a}])
    BY <2>1 DEF T!Spawn, TeamsType
  <2>3. T!Home(a)' = T!Slug(k)
    BY <2>2 DEF T!Home, T!Slug
  <2> QED BY <2>2, <2>3 DEF AtHome, T!Saves, TeamsType
<1> QED BY <1>1, <1>2

(* A name is taken from a living teammate only by one of another team.     *)
Namesake(a) ==
    \E b \in Agents \ {a} : task[b] # "none" /\ name[b] = name[a] /\ teamOf[b] # teamOf[a]

(* That a living agent met a namesake is not forgotten.                    *)
LEMMA NamesakeStays ==
    ASSUME TeamsType, T!Next, NEW a \in Agents, T!Live(a), Namesake(a)
    PROVE  Namesake(a)'
BY TeamsStarted DEF Namesake, T!Live

(* Every step keeps living teammates reachable under their names.          *)
LEMMA ReachableStep ==
    ASSUME TeamsType, TeamsRosters, TeamsHome, T!Reachable, T!Next
    PROVE  T!Reachable'
<1> SUFFICES ASSUME NEW a \in Agents, T!Live(a)', T!Home(a)' \notin spelled'
             PROVE  registry'[name'[a]] = a \/ Namesake(a)'
  BY DEF T!Reachable, Namesake
<1>1. ASSUME NEW k \in T!Keys, NEW b \in Agents, T!Spawn(k, b)
      PROVE  registry'[name'[a]] = a \/ Namesake(a)'
  <2>1. PICK n \in T!FreeName(k) :
           name' = [name EXCEPT ![b] = n] /\ registry' = [registry EXCEPT ![n] = b]
    BY <1>1 DEF T!Spawn
  <2>2. /\ task[b] = "none" /\ task'[b] = "work" /\ teamOf'[b] = k
        /\ n \in Names /\ name'[b] = n /\ registry'[n] = b
    BY <1>1, <2>1 DEF T!Spawn, T!FreeName, TeamsType
  <2>3. CASE b = a
    BY <2>2, <2>3
  <2>4. CASE b # a
    <3>1. T!Live(a) /\ name'[a] = name[a] /\ teamOf'[a] = teamOf[a] /\ T!Home(a)' = T!Home(a)
      BY <1>1, <2>1, <2>4 DEF T!Spawn, T!Live, T!Home, T!Slug, TeamsType
    <3>2. registry[name[a]] = a \/ Namesake(a)
      BY <3>1, SpelledStays DEF T!Reachable, Namesake
    <3>3. CASE name[a] # n \/ Namesake(a)
      BY <2>1, <3>1, <3>2, <3>3, NamesakeStays DEF TeamsType
    <3>4. CASE name[a] = n
      <4>1. AtHome(a)
        BY <3>1, SpelledStays DEF TeamsHome, AtHome
      <4>2. teamOf[a] # k
        BY <3>4, <4>1, <2>1 DEF AtHome, T!FreeName, T!Loaded
      <4>3. b \in Agents \ {a} /\ task'[b] # "none" /\ name'[b] = name'[a] /\ teamOf'[b] # teamOf'[a]
        BY <2>2, <2>4, <3>1, <3>4, <4>2
      <4> QED BY <4>3 DEF Namesake
    <3> QED BY <3>3, <3>4
  <2> QED BY <2>3, <2>4
<1>2. CASE ~\E k \in T!Keys : \E b \in Agents : T!Spawn(k, b)
  <2>1. T!Live(a) /\ name'[a] = name[a] /\ teamOf'[a] = teamOf[a] /\ T!Home(a)' = T!Home(a)
    <3>1. T!Live(a)
      BY <1>2, TeamsActions, TeamsStarted DEF TeamsType, T!Live, T!CreateTeam, T!DeleteTeam,
         T!TurnEnds, T!PollMail, T!PollEmpty, T!Fails, T!Ended, T!Reported, T!Broadcast,
         T!SendMessage, T!DrainLead, T!ExitCleanup
    <3> QED BY <3>1, TeamsStarted DEF T!Live, T!Home, T!Slug
  <2>2. registry[name[a]] = a \/ Namesake(a)
    BY <2>1, SpelledStays DEF T!Reachable, Namesake
  <2>3. CASE Namesake(a)
    BY <2>1, <2>3, NamesakeStays
  <2>4. ASSUME NEW k \in T!Keys, T!DeleteTeam(k), registry[name[a]] = a
        PROVE  registry'[name'[a]] = a \/ Namesake(a)'
    <3>1. AtHome(a)
      BY <2>1, SpelledStays DEF TeamsHome, AtHome
    <3>2. teamOf[a] # k /\ T!Home(a) # T!Slug(k)
      BY <2>1, <2>4, <3>1, DeleteSpares
    <3>3. /\ registry' = T!Unregistered({k}) /\ name' = name /\ teamOf' = teamOf /\ task' = task
      BY <2>4 DEF T!DeleteTeam, T!Removes
    <3>4. CASE \E c \in T!Loaded(k).members : name[c] = name[a]
      <4>1. PICK c \in T!Loaded(k).members : name[c] = name[a]
        BY <3>4
      <4>2. c \in Agents /\ task[c] # "none" /\ (teamOf[c] = NoTeam \/ T!Home(c) = T!Slug(k))
        BY LoadedType, LoadedBelongs DEF Belongs, T!Roster
      <4>3. teamOf[a] # NoTeam
        BY <3>1, TeamworkAssumption DEF AtHome, TeamsType, T!Keys
      <4>4. teamOf[c] # teamOf[a]
        BY <3>2, <4>2, <4>3 DEF T!Home
      <4> QED BY <3>3, <4>1, <4>2, <4>4 DEF Namesake
    <3>5. CASE ~\E c \in T!Loaded(k).members : name[c] = name[a]
      <4>1. name[a] \in Names
        BY DEF TeamsType
      <4>2. registry'[name[a]] = registry[name[a]]
        BY <3>3, <3>5, <4>1 DEF T!Unregistered
      <4> QED BY <2>4, <3>3, <4>2
    <3> QED BY <3>4, <3>5
  <2>5. ~T!ExitCleanup
    BY DEF T!ExitCleanup, T!Live
  <2>6. ASSUME ~\E k \in T!Keys : T!DeleteTeam(k) PROVE registry' = registry
    BY <1>2, <2>5, <2>6, TeamsActions DEF T!CreateTeam, T!TurnEnds, T!PollMail, T!PollEmpty, T!Fails,
       T!Reported, T!Broadcast, T!SendMessage, T!DrainLead
  <2> QED BY <2>1, <2>2, <2>3, <2>4, <2>6
<1> QED BY <1>1, <1>2

(* What a teammate is sent while it lives it has read when it leaves.      *)
LEMMA ReadStep ==
    ASSUME TeamsType, TeamsRosters, T!ReadBeforeLeaving, T!Next
    PROVE  T!ReadBeforeLeaving'
<1> SUFFICES ASSUME NEW a \in Agents, task'[a] \in {"ended", "told"}, a \notin hasty'
             PROVE  "ontime" \notin inbox'[T!Home(a)'][a]
  BY DEF T!ReadBeforeLeaving
<1>1. a \in T!Boxes /\ a # Lead
  BY TeamworkAssumption DEF T!Boxes
<1> DEFINE Goal == "ontime" \notin inbox'[T!Home(a)'][a]
<1>2. ASSUME NEW k \in T!Keys, T!CreateTeam(k) PROVE Goal
  <2>1. PICK s \in Slugs : inbox' = [inbox EXCEPT ![s] = T!NoMail]
    BY <1>2 DEF T!CreateTeam
  <2>2. UNCHANGED <<task, teamOf, hasty>> /\ T!Home(a)' = T!Home(a)
    BY <1>2 DEF T!CreateTeam, T!Home, T!Slug
  <2>3. "ontime" \notin inbox[T!Home(a)][a] /\ T!Home(a) \in Slugs
    BY <2>2, SlugType DEF T!ReadBeforeLeaving, TeamsRosters, T!Home
  <2> QED BY <1>1, <2>1, <2>2, <2>3 DEF TeamsType, T!NoMail
<1>3. ASSUME NEW ks, T!Removes(ks), UNCHANGED <<task, teamOf, hasty>> PROVE Goal
  <2>1. T!Home(a)' = T!Home(a)
    BY <1>3 DEF T!Home, T!Slug
  <2>2. "ontime" \notin inbox[T!Home(a)][a] /\ T!Home(a) \in Slugs
    BY <1>3, SlugType DEF T!ReadBeforeLeaving, TeamsRosters, T!Home
  <2> QED BY <1>1, <1>3, <2>1, <2>2 DEF T!Removes, T!NoMail
<1>4. ASSUME NEW k \in T!Keys, NEW b \in Agents, T!Spawn(k, b) PROVE Goal
  BY <1>4 DEF T!Spawn, TeamsType, T!ReadBeforeLeaving, T!Home, T!Slug
<1>5. ASSUME NEW b \in Agents, T!TurnEnds(b) \/ T!Fails(b) \/ T!PollEmpty(b) PROVE Goal
  <2>1. UNCHANGED <<inbox, teamOf>> /\ T!Home(a)' = T!Home(a)
    BY <1>5 DEF T!TurnEnds, T!Fails, T!PollEmpty, T!Home, T!Slug
  <2>2. CASE a # b
    <3>1. task'[a] = task[a] /\ a \notin hasty
      BY <1>5, <2>2 DEF T!TurnEnds, T!Fails, T!PollEmpty, T!Ended, TeamsType
    <3> QED BY <2>1, <3>1 DEF T!ReadBeforeLeaving
  <2>3. CASE a = b
    <3>1. T!PollEmpty(a)
      BY <1>5, <2>3 DEF T!TurnEnds, T!Fails, TeamsType
    <3> QED BY <2>1, <3>1 DEF T!PollEmpty, T!Looks
  <2> QED BY <2>2, <2>3
<1>6. ASSUME NEW b \in Agents, T!PollMail(b) PROVE Goal
  <2>1. /\ T!Home(a)' = T!Home(a) /\ task'[a] = task[a] /\ a # b /\ hasty' = hasty
        /\ inbox' = [inbox EXCEPT ![T!Home(b)][b] = {}]
    BY <1>6 DEF T!PollMail, T!Home, T!Slug, TeamsType
  <2>2. "ontime" \notin inbox[T!Home(a)][a] /\ T!Home(a) \in Slugs
    BY <2>1, SlugType DEF T!ReadBeforeLeaving, TeamsRosters, T!Home
  <2> QED BY <2>1, <2>2 DEF TeamsType
<1>7. ASSUME NEW b \in Agents, T!Broadcast(b) \/ \E n \in Names : T!SendMessage(b, n) PROVE Goal
  <2>1. T!Home(a)' = T!Home(a) /\ task'[a] = task[a] /\ hasty' = hasty
    BY <1>7 DEF T!Broadcast, T!SendMessage, T!Home, T!Slug
  <2>2. /\ "ontime" \notin inbox[T!Home(a)][a] /\ T!Home(a) \in Slugs /\ T!Home(b) \in Slugs
        /\ \A s : T!Kind(s, a) # "ontime"
    BY <1>1, <1>7, <2>1, SlugType DEF T!ReadBeforeLeaving, TeamsRosters, T!Home, T!Kind, T!Live,
       T!Broadcast, T!SendMessage
  <2>3. CASE T!Broadcast(b)
    <3>1. inbox'[T!Home(a)][a] \in {inbox[T!Home(a)][a],
                                     inbox[T!Home(a)][a] \cup {T!Kind(T!Home(b), a)}}
      BY <1>1, <2>2, <2>3 DEF T!Broadcast, TeamsType
    <3> QED BY <2>1, <2>2, <3>1
  <2>4. ASSUME NEW n \in Names, T!SendMessage(b, n) PROVE Goal
    <3>1. CASE registry[n] = a
      <4>1. inbox' = [inbox EXCEPT ![T!Home(b)][a] = @ \cup {T!Kind(T!Home(b), a)}]
        BY <2>4, <3>1 DEF T!SendMessage, T!Wrote
      <4> QED BY <1>1, <2>1, <2>2, <4>1 DEF TeamsType
    <3>2. CASE registry[n] # a
      <4>1. inbox'[T!Home(a)][a] = inbox[T!Home(a)][a]
        BY <1>1, <2>2, <2>4, <3>2 DEF T!SendMessage, T!Wrote, TeamsType
      <4> QED BY <2>1, <2>2, <4>1
    <3> QED BY <3>1, <3>2
  <2> QED BY <1>7, <2>3, <2>4
<1>8. ASSUME NEW b \in Agents, T!Reported(b) PROVE Goal
  <2>1. T!Home(a)' = T!Home(a) /\ task[a] \in {"ended", "told"} /\ hasty' = hasty
    BY <1>8 DEF T!Reported, T!Home, T!Slug, TeamsType
  <2>2. "ontime" \notin inbox[T!Home(a)][a] /\ T!Home(a) \in Slugs
    BY <2>1, SlugType DEF T!ReadBeforeLeaving, TeamsRosters, T!Home
  <2>3. CASE inbox' = inbox
    BY <2>1, <2>2, <2>3
  <2>4. CASE T!Wrote(T!Home(b), Lead, "ontime")
    BY <1>1, <2>1, <2>2, <2>4 DEF T!Wrote, TeamsType
  <2> QED BY <1>8, <2>3, <2>4 DEF T!Reported
<1>9. CASE T!DrainLead
  <2>1. T!Home(a)' = T!Home(a) /\ task' = task /\ hasty' = hasty
    BY <1>9 DEF T!DrainLead, T!Home, T!Slug
  <2>2. "ontime" \notin inbox[T!Home(a)][a] /\ T!Home(a) \in Slugs
    BY <2>1, SlugType DEF T!ReadBeforeLeaving, TeamsRosters, T!Home
  <2>3. inbox'[T!Home(a)][a] = inbox[T!Home(a)][a]
    BY <1>1, <1>9, <2>2 DEF T!DrainLead, TeamsType
  <2> QED BY <2>1, <2>2, <2>3
<1>10. ~T!ExitCleanup
  BY DEF T!ExitCleanup
<1>11. ASSUME NEW k \in T!Keys, T!DeleteTeam(k) PROVE Goal
  BY <1>3, <1>11 DEF T!DeleteTeam
<1> HIDE DEF Goal
<1>12. Goal
  <2>1. CASE \E k \in T!Keys : T!CreateTeam(k) \/ T!DeleteTeam(k) \/ \E b \in Agents : T!Spawn(k, b)
    BY <2>1, <1>2, <1>4, <1>11
  <2>2. CASE \E b \in Agents : T!TurnEnds(b) \/ T!PollMail(b) \/ T!PollEmpty(b) \/ T!Fails(b)
                              \/ T!Reported(b)
    BY <2>2, <1>5, <1>6, <1>8
  <2>3. CASE \E b \in Agents : T!Broadcast(b) \/ \E n \in Names : T!SendMessage(b, n)
    BY <2>3, <1>7
  <2>4. CASE T!DrainLead
    BY <2>4, <1>9 DEF Goal
  <2> QED BY TeamsActions, <2>1, <2>2, <2>3, <2>4, <1>10
<1> QED BY <1>12 DEF Goal

(* Only a creation narrows the tools, only the last deletion widens them.  *)
LEMMA ToolsStep == ASSUME T!FullToolsReturn, T!Next PROVE T!FullToolsReturn'
<1>1. surface # "over"
  BY DEF T!Next
<1>2. ASSUME NEW k \in T!Keys, T!CreateTeam(k) PROVE T!FullToolsReturn'
  BY <1>1, <1>2 DEF T!FullToolsReturn, T!CreateTeam, T!Narrow, T!Saves
<1>3. ASSUME NEW k \in T!Keys, T!DeleteTeam(k) PROVE T!FullToolsReturn'
  BY <1>1, <1>3 DEF T!FullToolsReturn, T!DeleteTeam, T!Restore
<1>4. CASE T!ExitCleanup
  BY <1>4 DEF T!FullToolsReturn, T!ExitCleanup
<1>5. CASE UNCHANGED <<coordinator, registryTools, full, surface>> /\ known \subseteq known'
  BY <1>5 DEF T!FullToolsReturn
<1>6. ASSUME NEW k \in T!Keys, NEW a \in Agents, T!Spawn(k, a)
      PROVE  UNCHANGED <<coordinator, registryTools, full, surface>> /\ known \subseteq known'
  BY <1>6 DEF T!Spawn, T!Saves
<1>7. ASSUME NEW a \in Agents,
             \/ T!TurnEnds(a) \/ T!PollMail(a) \/ T!PollEmpty(a) \/ T!Fails(a) \/ T!Reported(a)
             \/ T!Broadcast(a) \/ \E n \in Names : T!SendMessage(a, n)
      PROVE  UNCHANGED <<coordinator, registryTools, full, surface>> /\ known \subseteq known'
  BY <1>7 DEF T!TurnEnds, T!PollMail, T!PollEmpty, T!Fails, T!Reported, T!Broadcast, T!SendMessage,
     T!Saves
<1>8. T!DrainLead => UNCHANGED <<coordinator, registryTools, full, surface>> /\ known \subseteq known'
  BY DEF T!DrainLead
<1> QED BY TeamsActions, <1>2, <1>3, <1>4, <1>5, <1>6, <1>7, <1>8

(* The invariant of the teams holds in every reachable state.              *)
LEMMA TeamsAlways == Spec => []TeamsInv
<1>1. Init => TeamsInv
  <2> SUFFICES ASSUME T!Init PROVE TeamsInv
    BY DEF Init
  <2>1. PICK left \in SUBSET Agents :
          /\ dirs = IF left = {} THEN {} ELSE {First}
          /\ saved = [s \in Slugs |-> IF s \in dirs THEN [members |-> left, active |-> left]
                                                    ELSE T!Nobody]
          /\ task = [a \in Agents |-> IF a \in left THEN "lost" ELSE "none"]
    BY DEF T!Init
  <2>2. /\ boxes = dirs /\ known = {} /\ team = [k \in T!Keys |-> T!Nobody]
        /\ registry = [n \in Names |-> NoOne] /\ teamOf = [a \in Agents |-> NoTeam]
        /\ name = [a \in Agents |-> CHOOSE n \in Names : TRUE]
        /\ inbox = [s \in Slugs |-> T!NoMail]
        /\ coordinator = FALSE /\ registryTools = "full"
    BY DEF T!Init
  <2>3. (CHOOSE n \in Names : TRUE) \in Names
    BY TeamworkAssumption
  <2>4. T!Nobody \in T!Roster /\ T!Nobody.members = {}
        /\ T!NoMail \in [T!Boxes -> SUBSET {"ontime", "late"}]
    BY DEF T!Nobody, T!Roster, T!NoMail
  <2>5. [members |-> left, active |-> left] \in T!Roster
    BY DEF T!Roster
  <2>6. TeamsType
    BY <2>1, <2>2, <2>3, <2>4, <2>5, TeamworkAssumption DEF TeamsType
  <2>7. TeamsRosters
    BY <2>1, <2>2, <2>4 DEF TeamsRosters, Belongs
  <2>8. \A a \in Agents : ~T!Live(a) /\ task[a] \notin {"ended", "told"}
    BY <2>1 DEF T!Live
  <2>9. T!Reachable /\ T!ReadBeforeLeaving /\ TeamsHome
    BY <2>8 DEF T!Reachable, T!ReadBeforeLeaving, TeamsHome
  <2> QED BY <2>2, <2>6, <2>7, <2>9 DEF TeamsInv, T!FullToolsReturn
<1>2. TeamsInv /\ [Next]_<<focus, post, board, teams, kids>> => TeamsInv'
  <2>1. ASSUME TeamsInv, UNCHANGED teams PROVE TeamsInv'
    <3>1. UNCHANGED <<dirs, boxes, saved, known, team, registry, teamOf, name, task, inbox,
                      coordinator, registryTools, full, surface, hasty, spelled>>
      BY <2>1 DEF teams
    <3>2. TeamsType' /\ TeamsRosters' /\ TeamsHome'
      BY <2>1, <3>1 DEF TeamsInv, TeamsType, TeamsRosters, Belongs, TeamsHome, T!Home, T!Slug, T!Live
    <3>3. T!Reachable' /\ T!ReadBeforeLeaving'
      BY <2>1, <3>1 DEF TeamsInv, T!Reachable, T!ReadBeforeLeaving, T!Home, T!Slug, T!Live
    <3>4. T!FullToolsReturn'
      BY <2>1, <3>1 DEF TeamsInv, T!FullToolsReturn
    <3> QED BY <3>2, <3>3, <3>4 DEF TeamsInv
  <2>2. [Next]_<<focus, post, board, teams, kids>> => T!Next \/ UNCHANGED teams
    BY DEF Next
  <2>3. TeamsInv /\ T!Next => TeamsInv'
    BY TeamsTypeStep, TeamsRostersStep, TeamsHomeStep, ReachableStep, ReadStep, ToolsStep
       DEF TeamsInv
  <2> QED BY <2>1, <2>2, <2>3
<1> QED BY <1>1, <1>2, PTL DEF Spec

(* A living teammate has a team and a name it is found under, unless the   *)
(* name or the team was taken by another, and what it was sent it reads    *)
(* before it leaves.                                                       *)
THEOREM TeammatesStayReached == Spec => []TeammatesReached
<1>1. TeamsInv => TeammatesReached
  BY DEF TeamsInv, TeammatesReached, TeamsHome, T!OutlivesMembers
<1> QED BY <1>1, TeamsAlways, PTL

(* Coordinator mode ends with the last team and gives the full tools back. *)
THEOREM ToolsReturn == Spec => []FullToolsReturn
<1>1. TeamsInv => FullToolsReturn
  BY DEF TeamsInv, FullToolsReturn
<1> QED BY <1>1, TeamsAlways, PTL
=============================================================================
