---------------------------- MODULE MessageProofs ----------------------------
(***************************************************************************)
(* Proofs about the user messages of AgentLoop: a submitted message is in  *)
(* exactly one place, and a run that reports LoopComplete has answered the *)
(* last one it took in.  The cardinalities of NoMessageLost are replaced   *)
(* by the statement Once, which the steps of run() preserve; the lemmas on *)
(* Once follow the ways run() changes a conversation: one message more,    *)
(* the queue taken in, messages of its own, a compaction.                  *)
(***************************************************************************)
EXTENDS AgentLoopProofs, FiniteSetTheorems

(* The messages 1..n are each in one message of the conversation c, or at  *)
(* one position of the queue q, and not in both.                           *)
Once(c, q, n) ==
    /\ \A i \in 1..Len(c) : c[i].msgs \subseteq 1..n
    /\ \A i, j \in 1..Len(c) : i # j => c[i].msgs \cap c[j].msgs = {}
    /\ \A i \in 1..Len(q) : q[i] \in 1..n
    /\ \A i, j \in 1..Len(q) : i # j => q[i] # q[j]
    /\ \A i \in 1..Len(q) : \A j \in 1..Len(c) : q[i] \notin c[j].msgs
    /\ \A m \in 1..n :
        \/ \E i \in 1..Len(c) : m \in c[i].msgs
        \/ \E i \in 1..Len(q) : q[i] = m

(* A message that carries no user message.                                 *)
Silent(m) == m.msgs = {}

(* A message typed while no run is active goes into the conversation.      *)
LEMMA StartedOnce ==
    ASSUME NEW c \in Seq(Message), NEW q \in Seq(Nat), NEW n \in Nat, Once(c, q, n)
    PROVE  Once(Append(c, User(n + 1)), q, n + 1)
<1> DEFINE d == Append(c, User(n + 1))
<1>1. User(n + 1) \in Message
  BY MessagesTyped
<1>2. Len(d) = Len(c) + 1 /\ d[Len(c) + 1] = User(n + 1)
  BY <1>1
<1>3. \A i \in 1..Len(c) : d[i] = c[i]
  BY <1>1
<1>4. User(n + 1).msgs = {n + 1}
  BY DEF User
<1> HIDE DEF d
<1>5. \A i \in 1..Len(d) : (i \in 1..Len(c) /\ d[i] = c[i])
                            \/ (i = Len(c) + 1 /\ d[i].msgs = {n + 1})
  BY <1>2, <1>3, <1>4
<1>6. n + 1 \notin 1..n /\ 1..n \subseteq 1..(n + 1) /\ n + 1 \in 1..(n + 1)
  OBVIOUS
<1>7. \A i \in 1..Len(d) : d[i].msgs \subseteq 1..(n + 1)
  <2> TAKE i \in 1..Len(d)
  <2>1. \A k \in 1..Len(c) : c[k].msgs \subseteq 1..n
    BY Zenon DEF Once
  <2>2. CASE i \in 1..Len(c) /\ d[i] = c[i]
    BY <2>1, <2>2, <1>6
  <2>3. CASE i = Len(c) + 1 /\ d[i].msgs = {n + 1}
    BY <2>3, <1>6
  <2> QED BY <1>5, <2>2, <2>3
<1>8. ASSUME NEW i \in 1..Len(d), NEW j \in 1..Len(d), i # j
      PROVE  d[i].msgs \cap d[j].msgs = {}
  <2>1. CASE i \in 1..Len(c) /\ j \in 1..Len(c)
    BY <2>1, <1>3, <1>8, Zenon DEF Once
  <2>2. CASE ~(i \in 1..Len(c) /\ j \in 1..Len(c))
    <3>1. \A k \in 1..Len(c) : n + 1 \notin d[k].msgs
      BY <1>3, <1>6, Zenon DEF Once
    <3> QED BY <2>2, <3>1, <1>5, <1>8
  <2> QED BY <2>1, <2>2
<1>9. \A i \in 1..Len(q) : q[i] \in 1..(n + 1) /\ \A j \in 1..Len(d) : q[i] \notin d[j].msgs
  <2> TAKE i \in 1..Len(q)
  <2>1. q[i] \in 1..n
    BY Zenon DEF Once
  <2>2. q[i] \in 1..(n + 1) /\ q[i] # n + 1
    BY <2>1
  <2>3. \A k \in 1..Len(c) : q[i] \notin c[k].msgs
    BY Zenon DEF Once
  <2> QED BY <2>2, <2>3, <1>5
<1>10. \A m \in 1..(n + 1) :
         (\E i \in 1..Len(d) : m \in d[i].msgs) \/ (\E i \in 1..Len(q) : q[i] = m)
  <2> TAKE m \in 1..(n + 1)
  <2>1. CASE m = n + 1
    BY <2>1, <1>2, <1>4
  <2>2. CASE m # n + 1
    <3>1. m \in 1..n
      BY <2>2
    <3>2. 1..Len(c) \subseteq 1..Len(d)
      BY <1>2
    <3> QED BY <3>1, <3>2, <1>3 DEF Once
  <2> QED BY <2>1, <2>2
<1>11. \A i, j \in 1..Len(q) : i # j => q[i] # q[j]
  BY DEF Once
<1> QED BY <1>7, <1>8, <1>9, <1>10, <1>11 DEF Once, d

(* A message typed during a run goes to the end of the queue.              *)
LEMMA QueuedOnce ==
    ASSUME NEW c \in Seq(Message), NEW q \in Seq(Nat), NEW n \in Nat, Once(c, q, n)
    PROVE  Once(c, Append(q, n + 1), n + 1)
<1> DEFINE r == Append(q, n + 1)
<1>1. Len(r) = Len(q) + 1 /\ r[Len(q) + 1] = n + 1
  OBVIOUS
<1>2. \A i \in 1..Len(q) : r[i] = q[i]
  OBVIOUS
<1> HIDE DEF r
<1>3. \A i \in 1..Len(r) : i \in 1..Len(q) \/ i = Len(q) + 1
  BY <1>1
<1>4. n + 1 \notin 1..n /\ 1..n \subseteq 1..(n + 1) /\ n + 1 \in 1..(n + 1)
  OBVIOUS
<1>5. /\ \A i \in 1..Len(c) : c[i].msgs \subseteq 1..(n + 1)
      /\ \A i, j \in 1..Len(c) : i # j => c[i].msgs \cap c[j].msgs = {}
  BY <1>4 DEF Once
<1>6. \A i \in 1..Len(r) : r[i] \in 1..(n + 1)
  BY <1>1, <1>2, <1>3, <1>4 DEF Once
<1>7. ASSUME NEW i \in 1..Len(r), NEW j \in 1..Len(r), i # j
      PROVE  r[i] # r[j]
  <2>1. CASE i \in 1..Len(q) /\ j \in 1..Len(q)
    BY <2>1, <1>2, <1>7, Zenon DEF Once
  <2>2. CASE ~(i \in 1..Len(q) /\ j \in 1..Len(q))
    <3>1. \A k \in 1..Len(q) : r[k] # n + 1
      BY <1>2, <1>4, Zenon DEF Once
    <3> QED BY <2>2, <3>1, <1>1, <1>3, <1>7
  <2> QED BY <2>1, <2>2
<1>8. ASSUME NEW i \in 1..Len(r), NEW j \in 1..Len(c)
      PROVE  r[i] \notin c[j].msgs
  <2>1. CASE i \in 1..Len(q)
    BY <2>1, <1>2, Zenon DEF Once
  <2>2. CASE i = Len(q) + 1
    <3>1. c[j].msgs \subseteq 1..n
      BY Zenon DEF Once
    <3>2. r[i] = n + 1
      BY <2>2, <1>1
    <3> QED BY <3>1, <3>2, <1>4
  <2> QED BY <2>1, <2>2, <1>3
<1>9. \A m \in 1..(n + 1) :
        (\E i \in 1..Len(c) : m \in c[i].msgs) \/ (\E i \in 1..Len(r) : r[i] = m)
  <2> TAKE m \in 1..(n + 1)
  <2>1. CASE m = n + 1
    <3>1. Len(q) + 1 \in 1..Len(r)
      BY <1>1
    <3> QED BY <2>1, <3>1, <1>1
  <2>2. CASE m # n + 1
    <3>1. m \in 1..n
      BY <2>2
    <3>2. 1..Len(q) \subseteq 1..Len(r)
      BY <1>1
    <3> QED BY <3>1, <3>2, <1>2 DEF Once
  <2> QED BY <2>1, <2>2
<1> QED BY <1>5, <1>6, <1>7, <1>8, <1>9 DEF Once, r

(* Taking in the queue moves its messages into the conversation.           *)
LEMMA InjectedOnce ==
    ASSUME NEW c \in Seq(Message), queue \in Seq(Nat), NEW n \in Nat, Once(c, queue, n)
    PROVE  Once(Injected(c), <<>>, n)
<1> DEFINE q == [i \in 1..Len(queue) |-> User(queue[i])]
           d == c \o q
<1>1. \A i \in 1..Len(queue) : User(queue[i]) \in Message
  BY MessagesTyped
<1>2. q \in Seq(Message) /\ Len(q) = Len(queue)
  BY <1>1
<1>3. \A i \in 1..Len(queue) : q[i].msgs = {queue[i]}
  BY DEF User
<1>4. Len(d) = Len(c) + Len(queue) /\ Injected(c) = d
  BY <1>2 DEF Injected
<1>5. \A i \in 1..Len(c) : d[i] = c[i]
  BY <1>2
<1>6. \A i \in 1..Len(queue) : d[Len(c) + i] = q[i]
  BY <1>2
<1> HIDE DEF q, d
<1>7. \A i \in 1..Len(d) :
        \/ i \in 1..Len(c) /\ d[i].msgs = c[i].msgs
        \/ /\ i \notin 1..Len(c) /\ i - Len(c) \in 1..Len(queue)
           /\ d[i].msgs = {queue[i - Len(c)]}
  <2> TAKE i \in 1..Len(d)
  <2>1. CASE i \in 1..Len(c)
    BY <2>1, <1>5
  <2>2. CASE i \notin 1..Len(c)
    <3>1. i - Len(c) \in 1..Len(queue) /\ Len(c) + (i - Len(c)) = i
      BY <2>2, <1>4
    <3> QED BY <2>2, <3>1, <1>3, <1>6
  <2> QED BY <2>1, <2>2
<1>8. \A i \in 1..Len(d) : d[i].msgs \subseteq 1..n
  <2> TAKE i \in 1..Len(d)
  <2>1. \A k \in 1..Len(queue) : {queue[k]} \subseteq 1..n
    BY Zenon DEF Once
  <2>2. \A k \in 1..Len(c) : c[k].msgs \subseteq 1..n
    BY Zenon DEF Once
  <2>3. CASE i \in 1..Len(c)
    BY <2>2, <2>3, <1>5
  <2>4. CASE i \notin 1..Len(c)
    <3>1. i - Len(c) \in 1..Len(queue) /\ d[i].msgs = {queue[i - Len(c)]}
      BY <2>4, <1>7, Zenon
    <3> QED BY <2>1, <3>1, Zenon
  <2> QED BY <2>3, <2>4
<1>9. ASSUME NEW i \in 1..Len(d), NEW j \in 1..Len(d), i # j
      PROVE  d[i].msgs \cap d[j].msgs = {}
  <2>1. CASE i \in 1..Len(c) /\ j \in 1..Len(c)
    <3>1. c[i].msgs \cap c[j].msgs = {}
      BY <2>1, <1>9, Zenon DEF Once
    <3> QED BY <2>1, <3>1, <1>7, Zenon
  <2>2. CASE i \in 1..Len(c) /\ j \notin 1..Len(c)
    <3>1. queue[j - Len(c)] \notin c[i].msgs
      BY <2>2, <1>7, Zenon DEF Once
    <3> QED BY <2>2, <3>1, <1>7
  <2>3. CASE i \notin 1..Len(c) /\ j \in 1..Len(c)
    <3>1. queue[i - Len(c)] \notin c[j].msgs
      BY <2>3, <1>7, Zenon DEF Once
    <3> QED BY <2>3, <3>1, <1>7
  <2>4. CASE i \notin 1..Len(c) /\ j \notin 1..Len(c)
    <3>1. i - Len(c) # j - Len(c)
      BY <1>4, <1>9
    <3>2. i - Len(c) \in 1..Len(queue) /\ j - Len(c) \in 1..Len(queue)
      BY <2>4, <1>7, Zenon
    <3>3. \A k, l \in 1..Len(queue) : k # l => queue[k] # queue[l]
      BY Zenon DEF Once
    <3>4. queue[i - Len(c)] # queue[j - Len(c)]
      BY <3>1, <3>2, <3>3, Zenon
    <3>5. d[i].msgs = {queue[i - Len(c)]} /\ d[j].msgs = {queue[j - Len(c)]}
      BY <2>4, <1>7, Zenon
    <3> QED BY <3>4, <3>5
  <2> QED BY <2>1, <2>2, <2>3, <2>4
<1>10. \A m \in 1..n : \E i \in 1..Len(d) : m \in d[i].msgs
  <2> TAKE m \in 1..n
  <2>1. CASE \E i \in 1..Len(c) : m \in c[i].msgs
    <3>1. 1..Len(c) \subseteq 1..Len(d)
      BY <1>4
    <3> QED BY <2>1, <3>1, <1>5
  <2>2. CASE \E i \in 1..Len(queue) : queue[i] = m
    <3>1. PICK i \in 1..Len(queue) : queue[i] = m
      BY <2>2
    <3>2. Len(c) + i \in 1..Len(d)
      BY <1>4
    <3>3. d[Len(c) + i].msgs = {m}
      BY <3>1, <1>3, <1>6
    <3> QED BY <3>2, <3>3
  <2> QED BY <2>1, <2>2 DEF Once
<1>11. \A i, j \in 1..Len(d) : i # j => d[i].msgs \cap d[j].msgs = {}
  BY <1>9, Zenon
<1>12. Once(d, <<>>, n)
  BY <1>8, <1>10, <1>11 DEF Once
<1> QED BY <1>4, <1>12

(* Messages of run() itself (answers, tool results, reminders) carry no    *)
(* user message and disturb none.                                          *)
LEMMA SilentOnceMore ==
    ASSUME NEW c \in Seq(Message), NEW q \in Seq(Nat), NEW n \in Nat, Once(c, q, n),
           NEW s \in Seq(Message), \A i \in 1..Len(s) : Silent(s[i])
    PROVE  c \o s \in Seq(Message) /\ Once(c \o s, q, n)
<1> DEFINE d == c \o s
<1>1. Len(d) = Len(c) + Len(s) /\ d \in Seq(Message)
  OBVIOUS
<1>2. \A i \in 1..Len(c) : d[i] = c[i]
  OBVIOUS
<1>3. \A i \in 1..Len(s) : d[Len(c) + i] = s[i]
  OBVIOUS
<1> HIDE DEF d
<1>4. \A i \in 1..Len(d) : (i \in 1..Len(c) /\ d[i] = c[i]) \/ d[i].msgs = {}
  <2> TAKE i \in 1..Len(d)
  <2>1. CASE i \in 1..Len(c)
    BY <2>1, <1>2
  <2>2. CASE i \notin 1..Len(c)
    <3>1. i - Len(c) \in 1..Len(s) /\ Len(c) + (i - Len(c)) = i
      BY <2>2, <1>1
    <3> QED BY <3>1, <1>3 DEF Silent
  <2> QED BY <2>1, <2>2
<1>5. 1..Len(c) \subseteq 1..Len(d)
  BY <1>1
<1>6. \A m \in 1..n :
        (\E i \in 1..Len(d) : m \in d[i].msgs) \/ (\E i \in 1..Len(q) : q[i] = m)
  BY <1>2, <1>5 DEF Once
<1>7. /\ \A i \in 1..Len(d) : d[i].msgs \subseteq 1..n
      /\ \A i, j \in 1..Len(d) : i # j => d[i].msgs \cap d[j].msgs = {}
      /\ \A i \in 1..Len(q) : \A j \in 1..Len(d) : q[i] \notin d[j].msgs
  BY <1>4 DEF Once
<1> QED BY <1>1, <1>6, <1>7 DEF Once, d

(* The same for one message.                                               *)
LEMMA OneSilentMore ==
    ASSUME NEW c \in Seq(Message), NEW q \in Seq(Nat), NEW n \in Nat, Once(c, q, n),
           NEW m \in Message, Silent(m)
    PROVE  Append(c, m) \in Seq(Message) /\ Once(Append(c, m), q, n)
<1> DEFINE s == <<m>>
<1>1. s \in Seq(Message) /\ Len(s) = 1 /\ s[1] = m
  OBVIOUS
<1>2. \A i \in 1..Len(s) : Silent(s[i])
  BY <1>1
<1>3. Append(c, m) = c \o s
  OBVIOUS
<1> HIDE DEF s
<1>4. c \o s \in Seq(Message) /\ Once(c \o s, q, n)
  BY <1>1, <1>2, SilentOnceMore, Zenon
<1> QED BY <1>3, <1>4, Zenon

(* What a compaction leaves: a summary that carries the user messages in   *)
(* front of the cut, and the messages behind the cut word for word.        *)
LEMMA CompactionShape ==
    ASSUME NEW c \in Seq(Message), NEW d \in Compactions(c)
    PROVE  \E a \in 2..Len(c) :
              /\ Len(d) = Len(c) - a + 2
              /\ d[1].msgs = UNION {c[i].msgs : i \in 1..(a - 1)}
              /\ \A i \in 2..Len(d) : i + a - 2 \in a..Len(c) /\ d[i] = c[i + a - 2]
<1>1. PICK k \in 2..Len(c) : Align(c, k) > 1 /\ d = CompactAt(c, Align(c, k))
  BY DEF Compactions
<1> DEFINE a == Align(c, k)
           s == Summary(UNION {c[i].msgs : i \in 1..(a - 1)})
           t == SubSeq(c, a, Len(c))
<1>2. a \in 2..Len(c)
  BY <1>1 DEF Align
<1>3. d = <<s>> \o t
  BY <1>1 DEF CompactAt
<1>4. s.msgs = UNION {c[i].msgs : i \in 1..(a - 1)}
  BY DEF Summary
<1> HIDE DEF a
<1>5. t \in Seq(Message) /\ Len(t) = Len(c) - a + 1 /\ \A i \in 1..Len(t) : t[i] = c[a + i - 1]
  BY <1>2
<1> HIDE DEF s, t
<1>6. Len(d) = Len(t) + 1 /\ d[1] = s /\ \A i \in 1..Len(t) : d[i + 1] = t[i]
  BY <1>3, <1>5
<1>7. ASSUME NEW i \in 2..Len(d)
      PROVE  i + a - 2 \in a..Len(c) /\ d[i] = c[i + a - 2]
  <2>1. i - 1 \in 1..Len(t) /\ (i - 1) + 1 = i
    BY <1>5, <1>6, <1>2
  <2>2. d[(i - 1) + 1] = t[i - 1] /\ t[i - 1] = c[a + (i - 1) - 1]
    BY <2>1, <1>5, <1>6
  <2>3. a + (i - 1) - 1 = i + a - 2 /\ i + a - 2 \in a..Len(c)
    BY <2>1, <1>2, <1>5
  <2> QED BY <2>1, <2>2, <2>3
<1>8. Len(d) = Len(c) - a + 2
  BY <1>2, <1>5, <1>6
<1> QED BY <1>2, <1>4, <1>6, <1>7, <1>8

(* A compaction drops no user message and repeats none.                    *)
LEMMA CompactedOnce ==
    ASSUME NEW c \in Seq(Message), NEW d \in Compactions(c),
           NEW q \in Seq(Nat), NEW n \in Nat, Once(c, q, n)
    PROVE  Once(d, q, n)
<1>1. PICK a \in 2..Len(c) :
        /\ Len(d) = Len(c) - a + 2
        /\ d[1].msgs = UNION {c[i].msgs : i \in 1..(a - 1)}
        /\ \A i \in 2..Len(d) : i + a - 2 \in a..Len(c) /\ d[i] = c[i + a - 2]
  BY CompactionShape
<1>2. /\ \A i \in 1..(a - 1) : i \in 1..Len(c)
      /\ \A i \in a..Len(c) : i \in 1..Len(c) /\ i \notin 1..(a - 1) /\ i - a + 2 \in 2..Len(d)
      /\ \A i \in 1..Len(c) : i \in 1..(a - 1) \/ i \in a..Len(c)
      /\ \A i \in 1..Len(d) : i = 1 \/ i \in 2..Len(d)
      /\ 1 \in 1..Len(d) /\ \A i \in 2..Len(d) : i \in 1..Len(d)
  BY <1>1
<1>3. \A i \in 1..Len(c) : c[i].msgs \subseteq 1..n
  BY Zenon DEF Once
<1>4. \A i, j \in 1..Len(c) : i # j => c[i].msgs \cap c[j].msgs = {}
  BY Zenon DEF Once
<1>5. \A i \in 1..Len(d) : d[i].msgs \subseteq 1..n
  <2> TAKE i \in 1..Len(d)
  <2>1. CASE i = 1
    BY <2>1, <1>1, <1>2, <1>3
  <2>2. CASE i \in 2..Len(d)
    BY <2>2, <1>1, <1>2, <1>3
  <2> QED BY <2>1, <2>2, <1>2
<1>6. ASSUME NEW j \in 2..Len(d)
      PROVE  d[1].msgs \cap d[j].msgs = {}
  <2>1. j + a - 2 \in a..Len(c) /\ d[j] = c[j + a - 2]
    BY <1>1
  <2>2. ASSUME NEW i \in 1..(a - 1)
        PROVE  c[i].msgs \cap d[j].msgs = {}
    <3>1. i # j + a - 2 /\ i \in 1..Len(c) /\ j + a - 2 \in 1..Len(c)
      BY <2>1, <1>2
    <3> QED BY <3>1, <2>1, <1>4
  <2> QED BY <2>2, <1>1
<1>7. ASSUME NEW i \in 2..Len(d), NEW j \in 2..Len(d), i # j
      PROVE  d[i].msgs \cap d[j].msgs = {}
  <2>1. /\ i + a - 2 \in 1..Len(c) /\ d[i] = c[i + a - 2]
        /\ j + a - 2 \in 1..Len(c) /\ d[j] = c[j + a - 2]
    BY <1>1, <1>2
  <2>2. i + a - 2 # j + a - 2
    BY <1>7
  <2> QED BY <2>1, <2>2, <1>4
<1>8. \A i, j \in 1..Len(d) : i # j => d[i].msgs \cap d[j].msgs = {}
  BY <1>2, <1>6, <1>7
<1>9. ASSUME NEW i \in 1..Len(q), NEW j \in 1..Len(d)
      PROVE  q[i] \notin d[j].msgs
  <2>1. \A k \in 1..Len(c) : q[i] \notin c[k].msgs
    BY Zenon DEF Once
  <2>2. CASE j = 1
    BY <2>1, <2>2, <1>1, <1>2
  <2>3. CASE j \in 2..Len(d)
    BY <2>1, <2>3, <1>1, <1>2
  <2> QED BY <2>2, <2>3, <1>2
<1>10. ASSUME NEW i \in 1..Len(c), NEW m \in c[i].msgs
       PROVE  \E j \in 1..Len(d) : m \in d[j].msgs
  <2>1. CASE i \in 1..(a - 1)
    BY <2>1, <1>1, <1>2
  <2>2. CASE i \in a..Len(c)
    <3>1. i - a + 2 \in 2..Len(d) /\ (i - a + 2) + a - 2 = i
      BY <2>2, <1>1, <1>2
    <3>2. d[i - a + 2] = c[i]
      BY <3>1, <1>1
    <3> QED BY <3>1, <3>2, <1>2
  <2> QED BY <2>1, <2>2, <1>2
<1>11. \A m \in 1..n :
         (\E i \in 1..Len(d) : m \in d[i].msgs) \/ (\E i \in 1..Len(q) : q[i] = m)
  BY <1>10, Zenon DEF Once
<1>12. (\A i \in 1..Len(q) : q[i] \in 1..n) /\ \A i, j \in 1..Len(q) : i # j => q[i] # q[j]
  BY Zenon DEF Once
<1> QED BY <1>5, <1>8, <1>9, <1>11, <1>12 DEF Once

(* The messages run() adds on its own account carry no user message.       *)
LEMMA OwnMessagesSilent ==
    /\ \A ids : Silent(Assistant(ids)) /\ Silent(ToolResults(ids))
    /\ Silent(Reminder)
    /\ \A ids \in SUBSET Nat : Assistant(ids) \in Message /\ ToolResults(ids) \in Message
    /\ Reminder \in Message
BY DEF Silent, Assistant, ToolResults, Reminder, Message

(* An answer and a reminder behind it disturb no user message.             *)
LEMMA ResumedOnce ==
    ASSUME NEW c \in Seq(Message), NEW q \in Seq(Nat), NEW n \in Nat, Once(c, q, n)
    PROVE  Once(c \o <<Assistant({}), Reminder>>, q, n)
<1> DEFINE s == <<Assistant({}), Reminder>>
<1>1. s \in Seq(Message) /\ Len(s) = 2 /\ s[1] = Assistant({}) /\ s[2] = Reminder
  BY OwnMessagesSilent
<1>2. \A i \in 1..Len(s) : Silent(s[i])
  BY <1>1, OwnMessagesSilent
<1> HIDE DEF s
<1>3. Once(c \o s, q, n)
  BY <1>1, <1>2, SilentOnceMore, Zenon
<1> QED BY <1>3 DEF s

(* The calls of a response over a limit, and their "Skipped" results.      *)
LEMMA SkippedOnce ==
    ASSUME NEW c \in Seq(Message), NEW q \in Seq(Nat), NEW n \in Nat, Once(c, q, n),
           NEW ids \in SUBSET Nat
    PROVE  Once(Append(c, Assistant(ids)) \o SkippedResults(ids), q, n)
<1> DEFINE e == Append(c, Assistant(ids))
           s == SkippedResults(ids)
<1>1. e \in Seq(Message) /\ Once(e, q, n)
  BY OneSilentMore, OwnMessagesSilent
<1>2. s \in Seq(Message) /\ \A i \in 1..Len(s) : Silent(s[i])
  BY OwnMessagesSilent DEF SkippedResults
<1> HIDE DEF e, s
<1>3. Once(e \o s, q, n)
  BY <1>1, <1>2, SilentOnceMore, Zenon
<1> QED BY <1>3 DEF e, s

(* Recording the results takes the queue in behind them.                   *)
LEMMA ResultsOnce ==
    ASSUME TypeOK, ToolsOK, Observed, Once(conv, queue, sent)
    PROVE  Once(WithResults, <<>>, sent)
<1>1. conv \in Seq(Message) /\ queue \in Seq(Nat) /\ sent \in Nat
  BY DEF TypeOK, RunTyped
<1>2. RecordedIds \in SUBSET Nat
  BY RecordedIdsAreTheCalls DEF TypeOK
<1> DEFINE c == Append(conv, ToolResults(RecordedIds))
<1>3. c \in Seq(Message) /\ Once(c, queue, sent)
  BY <1>1, <1>2, OneSilentMore, OwnMessagesSilent
<1> HIDE DEF c
<1>4. Once(Injected(c), <<>>, sent)
  BY <1>1, <1>3, InjectedOnce
<1> QED BY <1>4 DEF WithResults, c

(* Every step of AgentLoop keeps each submitted message in one place.      *)
LEMMA OnceStep ==
    ASSUME TypeOK, ToolsOK, Once(conv, queue, sent), [Next]_vars
    PROVE  Once(conv', queue', sent')
<1>0. conv \in Seq(Message) /\ queue \in Seq(Nat) /\ sent \in Nat /\ RunTyped
  BY DEF TypeOK, RunTyped
<1>1. CASE Start
  BY <1>0, <1>1, StartedOnce DEF Start
<1>2. CASE QueueUserMessage
  BY <1>0, <1>2, QueuedOnce DEF QueueUserMessage
<1>3. CASE TopProceed
  BY <1>0, <1>3, InjectedOnce DEF TopProceed, InjectQueue
<1>4. CASE PreSend
  <2>1. (conv' = conv \/ conv' \in Compactions(conv)) /\ queue' = queue /\ sent' = sent
    BY <1>4 DEF PreSend, inputVars
  <2> QED BY <2>1, <1>0, CompactedOnce
<1>5. CASE Recovered
  BY <1>0, <1>5, CompactedOnce DEF Recovered, inputVars
<1>6. CASE OverLimit
  <2>1. NewIds \in SUBSET Nat
    BY <1>0, NewIdsTyped
  <2>2. /\ conv' = Append(conv, Assistant(NewIds)) \o SkippedResults(NewIds)
        /\ queue' = queue /\ sent' = sent
    BY <1>6 DEF OverLimit, inputVars
  <2> QED BY <2>1, <2>2, <1>0, SkippedOnce
<1>7. CASE Escalate \/ RecoverOutput \/ AnswerRefused
  <2>1. /\ conv' = conv \/ conv' = conv \o <<Assistant({}), Reminder>>
        /\ queue' = queue /\ sent' = sent
    BY <1>7 DEF Escalate, RecoverOutput, AnswerRefused, Resume, inputVars
  <2> QED BY <2>1, <1>0, ResumedOnce
<1>8. CASE AnswerAccepted
  <2>1. conv' = Append(conv, Assistant({})) /\ queue' = queue /\ sent' = sent
    BY <1>8 DEF AnswerAccepted, inputVars
  <2> QED BY <2>1, <1>0, OneSilentMore, OwnMessagesSilent
<1>9. CASE Finish
  BY <1>0, <1>9, InjectedOnce DEF Finish, InjectQueue
<1>10. CASE CallTools
  <2>1. NewIds \in SUBSET Nat
    BY <1>0, NewIdsTyped
  <2>2. conv' = Append(conv, Assistant(NewIds)) /\ queue' = queue /\ sent' = sent
    BY <1>10 DEF CallTools, inputVars
  <2> QED BY <2>1, <2>2, <1>0, OneSilentMore, OwnMessagesSilent
<1>11. CASE RecordResults
  BY <1>11, ResultsOnce DEF RecordResults, InjectQueue
<1>12. CASE ExitPlanMode
  BY <1>12, ResultsOnce DEF ExitPlanMode, InjectQueue
<1>13. CASE \/ Cancel \/ Expire \/ OrphanEnds \/ TimesOut \/ TopLimit
            \/ StreamEvent \/ TransientError \/ Resend \/ Overflow \/ RequestFails
            \/ Receive \/ Rejected \/ NextTurn \/ Complete
  <2>1. conv' = conv /\ queue' = queue /\ sent' = sent
    BY <1>13, Zenon DEF Cancel, Expire, OrphanEnds, TimesOut, TopLimit, StreamEvent,
        TransientError, Resend, Overflow, RequestFails, Receive, Rejected, NextTurn,
        Complete, inputVars
  <2> QED BY <2>1
<1>14. CASE \/ StartBatch \/ SkipCall \/ Ask \/ Deny \/ StartCall
            \/ FinishCall \/ InterruptCall \/ ExpireCall \/ ToolsDone \/ ObserveResult
            \/ TooManyUnknown \/ UNCHANGED vars
  <2>1. conv' = conv /\ queue' = queue /\ sent' = sent
    BY <1>14, Zenon DEF StartBatch, SkipCall, Ask, Deny, StartCall,
        FinishCall, InterruptCall, ExpireCall, ToolsDone, ObserveResult, TooManyUnknown,
        NotRun, Finished, inputVars, vars
  <2> QED BY <2>1
<1> QED
  BY <1>1, <1>2, <1>3, <1>4, <1>5, <1>6, <1>7, <1>8, <1>9, <1>10, <1>11, <1>12, <1>13, <1>14
     DEF Next, Step, Surroundings

(* To be held once, by the conversation or by the queue, is what the       *)
(* cardinalities of NoMessageLost say.                                     *)
LEMMA OnceIsCounted ==
    ASSUME TypeOK, Once(conv, queue, sent)
    PROVE  NoMessageLost
<1>1. conv \in Seq(Message) /\ queue \in Seq(Nat) /\ sent \in Nat
  BY DEF TypeOK, RunTyped
<1>2. SUFFICES ASSUME NEW m \in 1..sent
               PROVE  Cardinality(Holders(m)) + Cardinality(Waiting(m)) = 1
  BY DEF NoMessageLost
<1>3. /\ Holders(m) = {i \in 1..Len(conv) : m \in conv[i].msgs}
      /\ Waiting(m) = {i \in 1..Len(queue) : queue[i] = m}
  BY <1>1 DEF Holders, Waiting
<1>4. \A i, j \in Holders(m) : i = j
  BY <1>3, Zenon DEF Once
<1>5. \A i, j \in Waiting(m) : i = j
  BY <1>3, Zenon DEF Once
<1>6. ASSUME NEW i \in Waiting(m), NEW j \in Holders(m)
      PROVE  FALSE
  <2>1. i \in 1..Len(queue) /\ queue[i] = m /\ j \in 1..Len(conv) /\ m \in conv[j].msgs
    BY <1>3
  <2> QED BY <2>1, Zenon DEF Once
<1>7. (\E i : i \in Holders(m)) \/ (\E i : i \in Waiting(m))
  BY <1>3, Zenon DEF Once
<1>8. Cardinality({}) = 0 /\ \A i : Cardinality({i}) = 1
  BY FS_EmptySet, FS_Singleton
<1>9. CASE \E i : i \in Holders(m)
  <2>1. PICK i : i \in Holders(m)
    BY <1>9
  <2>2. Holders(m) = {i} /\ Waiting(m) = {}
    BY <2>1, <1>4, <1>6
  <2>3. Cardinality(Holders(m)) = 1 /\ Cardinality(Waiting(m)) = 0
    BY <2>2, <1>8, Zenon
  <2> QED BY <2>3
<1>10. CASE \E i : i \in Waiting(m)
  <2>1. PICK i : i \in Waiting(m)
    BY <1>10
  <2>2. Waiting(m) = {i} /\ Holders(m) = {}
    BY <2>1, <1>5, <1>6
  <2>3. Cardinality(Waiting(m)) = 1 /\ Cardinality(Holders(m)) = 0
    BY <2>2, <1>8, Zenon
  <2> QED BY <2>3
<1> QED BY <1>7, <1>9, <1>10

(* A message the user submits to Agent.run, at its start or while it runs, *)
(* is never lost and never delivered twice: it waits in the queue or is in *)
(* the conversation or in a summary, at one place.                         *)
THEOREM MessagesKept == Spec => []NoMessageLost
<1>1. Init => Once(conv, queue, sent)
  BY DEF Init, Once
<1>2. IInv /\ Once(conv, queue, sent) /\ [Next]_vars => Once(conv, queue, sent)'
  BY OnceStep DEF IInv
<1>3. IInv /\ Once(conv, queue, sent) => NoMessageLost
  BY OnceIsCounted DEF IInv
<1> QED BY <1>1, <1>2, <1>3, Invariance, PTL DEF Spec

(* The model speaks after every user message of c.                         *)
Spoken(c) ==
    \A i \in 1..Len(c) : c[i].kind = "user" =>
        \E j \in i + 1 .. Len(c) : c[j].kind = "assistant"

(* Only user messages come after position k of c, and the model spoke just *)
(* before it: what ExitPlanMode leaves.                                    *)
Trailing(c, k) ==
    /\ k \in 2..Len(c) /\ c[k].kind = "tool" /\ c[k - 1].kind = "assistant"
    /\ \A j \in k + 1 .. Len(c) : c[j].kind = "user"

(* A run on its way to LoopComplete, or that reported it, has spoken.      *)
AnswerOK ==
    /\ Completed => pc = "idle"
    /\ outcome = "complete" \/ pc = "finish" \/ (pc = "turnend" /\ ~again) => Spoken(conv)
    /\ outcome = "plan" => \E k \in 2..Len(conv) : Trailing(conv, k)

(* An answer at the end answers everything.                                *)
LEMMA AnswerSpeaks ==
    ASSUME NEW c \in Seq(Message)
    PROVE  Spoken(Append(c, Assistant({})))
<1>1. Assistant({}) \in Message /\ Assistant({}).kind = "assistant"
  BY DEF Assistant, Message
<1> DEFINE d == Append(c, Assistant({}))
<1>2. Len(d) = Len(c) + 1 /\ d[Len(d)] = Assistant({})
  BY <1>1
<1> HIDE DEF d
<1>3. ASSUME NEW i \in 1..Len(d), d[i].kind = "user"
      PROVE  \E j \in i + 1 .. Len(d) : d[j].kind = "assistant"
  <2>1. i # Len(d) /\ (i # Len(d) => Len(d) \in i + 1 .. Len(d))
    BY <1>1, <1>2, <1>3 DEF Assistant
  <2> QED BY <2>1, <1>1, <1>2
<1> QED BY <1>3 DEF Spoken, d

(* ExitPlanMode records its results right behind the calls of the model    *)
(* and takes in the queue behind them.                                     *)
LEMMA PlanTrails ==
    ASSUME IInv, ExitPlanMode
    PROVE  \E k \in 2..Len(conv') : Trailing(conv', k)
<1>1. conv \in Seq(Message) /\ queue \in Seq(Nat)
  BY DEF IInv, TypeOK, RunTyped
<1>2. Len(conv) > 0 /\ conv[Len(conv)].kind = "assistant"
  BY DEF IInv, ExitPlanMode, Observed, ConvOK, ToolPcs, Assistant
<1>3. conv' = Injected(Append(conv, ToolResults(RecordedIds)))
  BY DEF ExitPlanMode, WithResults
<1> DEFINE m == ToolResults(RecordedIds)
           c == Append(conv, m)
           u == [i \in 1..Len(queue) |-> User(queue[i])]
           n == Len(conv)
<1>4. m \in Message /\ m.kind = "tool"
  BY RecordedIdsAreTheCalls DEF IInv, TypeOK, ExitPlanMode, ToolResults, Message
<1> HIDE DEF m
<1>5. /\ c \in Seq(Message) /\ Len(c) = n + 1 /\ n \in Nat
      /\ c[n + 1] = m /\ c[n] = conv[n]
  BY <1>1, <1>2, <1>4
<1>6. \A i \in 1..Len(queue) : User(queue[i]) \in Message /\ User(queue[i]).kind = "user"
  BY <1>1 DEF User, Message
<1>7. u \in Seq(Message) /\ Len(u) = Len(queue) /\ Len(queue) \in Nat
  BY <1>1, <1>6
<1>8. \A i \in 1..Len(u) : u[i].kind = "user"
  BY <1>6, <1>7
<1>9. conv' = c \o u
  BY <1>3 DEF Injected, m
<1> HIDE DEF c, u, n
<1>10. /\ Len(conv') = n + 1 + Len(u)
       /\ \A i \in 1 .. n + 1 : conv'[i] = c[i]
       /\ \A i \in n + 2 .. n + 1 + Len(u) : conv'[i] = u[i - (n + 1)]
  <2>1. Len(c \o u) = Len(c) + Len(u) /\ Len(u) \in Nat
    BY <1>5, <1>7
  <2>2. \A i \in 1 .. Len(c) : conv'[i] = c[i]
    BY <1>5, <1>7, <1>9
  <2>3. \A i \in Len(c) + 1 .. Len(c) + Len(u) : conv'[i] = u[i - Len(c)]
    BY <1>5, <1>7, <1>9
  <2> QED BY <2>1, <2>2, <2>3, <1>5, <1>9
<1>11. n >= 1
  BY <1>2 DEF n
<1>12. conv'[n + 1].kind = "tool" /\ conv'[n].kind = "assistant"
  BY <1>2, <1>4, <1>5, <1>10, <1>11 DEF n
<1>13. \A j \in n + 2 .. n + 1 + Len(u) : conv'[j].kind = "user"
  BY <1>5, <1>7, <1>8, <1>10
<1>14. n + 1 \in 2..Len(conv')
  BY <1>5, <1>7, <1>10, <1>11
<1>15. Trailing(conv', n + 1)
  <2>1. (n + 1) - 1 = n /\ (n + 1) + 1 = n + 2
    BY <1>5
  <2> QED BY <2>1, <1>10, <1>12, <1>13, <1>14 DEF Trailing
<1> QED BY <1>14, <1>15

(* Every step keeps that; a step that leaves the idle state or ends a run  *)
(* otherwise has nothing to show.                                          *)
LEMMA AnswerStep ==
    ASSUME IInv, AnswerOK, [Next]_vars
    PROVE  AnswerOK'
<1>0. conv \in Seq(Message) /\ queue \in Seq(Nat)
  BY DEF IInv, TypeOK, RunTyped
<1>1. CASE AnswerAccepted
  <2>1. Spoken(conv')
    BY <1>0, <1>1, AnswerSpeaks DEF AnswerAccepted
  <2>2. outcome' = outcome /\ pc = "received" /\ pc' = "finish"
    BY <1>1 DEF AnswerAccepted, Usable
  <2> QED BY <2>1, <2>2 DEF AnswerOK, Completed
<1>2. CASE Finish
  <2>1. pc = "finish" /\ pc' = "turnend" /\ outcome' = outcome /\ again' = (queue # <<>>)
    BY <1>2, Zenon DEF Finish, MoreQueued
  <2>2. conv' = Injected(conv)
    BY <1>2 DEF Finish
  <2>3. queue = <<>> => conv' = conv
    BY <1>0, <2>2 DEF Injected
  <2> QED BY <2>1, <2>3 DEF AnswerOK, Completed
<1>3. CASE Complete
  <2>1. pc' = "idle" /\ outcome' = "complete" /\ conv' = conv /\ pc = "turnend" /\ ~again
    BY <1>3 DEF Complete, EndRun
  <2> QED BY <2>1 DEF AnswerOK, Completed
<1>4. CASE \/ Cancel \/ TimesOut \/ TopLimit \/ RequestFails \/ OverLimit \/ Rejected
           \/ TooManyUnknown
  <2>1. pc' = "idle" /\ outcome' \notin {"complete", "plan"}
    BY <1>4 DEF Cancel, TimesOut, TopLimit, RequestFails, OverLimit, Rejected,
         TooManyUnknown, EndRun
  <2> QED BY <2>1 DEF AnswerOK, Completed
<1>9. CASE ExitPlanMode
  <2>1. pc' = "idle" /\ outcome' = "plan"
    BY <1>9 DEF ExitPlanMode, EndRun
  <2> QED BY <2>1, <1>9, PlanTrails DEF AnswerOK, Completed
<1>5. CASE \/ Start \/ TopProceed \/ PreSend \/ StreamEvent \/ TransientError \/ Resend
           \/ Overflow \/ Recovered \/ Receive \/ Escalate \/ RecoverOutput
           \/ AnswerRefused \/ NextTurn \/ CallTools
  <2>1. pc' \notin {"idle", "finish", "turnend"} /\ outcome' \notin {"complete", "plan"}
    BY <1>5 DEF Start, TopProceed, PreSend, StreamEvent, TransientError, Resend, Overflow,
         Recovered, Receive, Escalate, RecoverOutput, AnswerRefused, NextTurn, CallTools,
         Usable, AnswerOK, Completed
  <2> QED BY <2>1 DEF AnswerOK, Completed
<1>6. CASE \/ StartBatch \/ SkipCall \/ Ask \/ Deny \/ StartCall
           \/ FinishCall \/ InterruptCall \/ ExpireCall \/ ToolsDone \/ ObserveResult
  <2>1. pc' \notin {"idle", "finish", "turnend"} /\ outcome' \notin {"complete", "plan"}
    BY <1>6 DEF StartBatch, SkipCall, Ask, Deny, StartCall, FinishCall,
         InterruptCall, ExpireCall, ToolsDone, ObserveResult, NotRun, Finished, AtSerial,
         AnswerOK, Completed
  <2> QED BY <2>1 DEF AnswerOK, Completed
<1>7. CASE RecordResults
  <2>1. pc' = "turnend" /\ again' /\ outcome' \notin {"complete", "plan"}
    BY <1>7 DEF RecordResults, Observed, AnswerOK, Completed
  <2> QED BY <2>1 DEF AnswerOK, Completed
<1>8. CASE QueueUserMessage \/ Expire \/ OrphanEnds \/ UNCHANGED vars
  <2>1. pc' = pc /\ outcome' = outcome /\ again' = again /\ conv' = conv
    BY <1>8, Zenon DEF QueueUserMessage, Expire, OrphanEnds, vars
  <2> QED BY <2>1 DEF AnswerOK, Completed
<1> QED
  BY <1>1, <1>2, <1>3, <1>4, <1>5, <1>6, <1>7, <1>8, <1>9 DEF Next, Step, Surroundings

(* A run of Agent.run that reports LoopComplete has answered every message *)
(* it took in: the model spoke after the last one.  Only what a run ended  *)
(* by ExitPlanMode took in behind its last results waits for the next run. *)
THEOREM CompletedRunsAnswer == Spec => []CompletedAnswered
<1>1. Init => AnswerOK
  BY DEF Init, AnswerOK, Completed
<1>2. IInv /\ AnswerOK /\ [Next]_vars => AnswerOK'
  BY AnswerStep
<1>3. ASSUME TypeOK, AnswerOK
      PROVE  CompletedAnswered
  <2>1. DOMAIN conv = 1..Len(conv) /\ Len(conv) \in Nat
    BY <1>3 DEF TypeOK
  <2>2. CASE outcome = "plan"
    <3>1. PICK k \in 2..Len(conv) : Trailing(conv, k)
      BY <2>2, <1>3 DEF AnswerOK
    <3>2. ASSUME NEW i \in 1..Len(conv), conv[i].kind = "user"
          PROVE  SpokenAfter(i) \/ BehindLastResults(i)
      <4>1. conv[k].kind = "tool" /\ conv[k - 1].kind = "assistant" /\ k - 1 \in 1..Len(conv)
        BY <3>1, <2>1 DEF Trailing
      <4>2. \A j \in k + 1 .. Len(conv) : conv[j].kind = "user"
        BY <3>1 DEF Trailing
      <4>3. i # k /\ i # k - 1
        BY <3>2, <4>1
      <4>4. CASE i < k - 1
        <5>1. k - 1 \in i + 1 .. Len(conv)
          BY <4>1, <4>4
        <5> QED BY <5>1, <4>1 DEF SpokenAfter
      <4>5. CASE i > k
        <5>1. k \in 1 .. i - 1
          BY <4>5
        <5> QED BY <5>1, <4>1, <4>2 DEF BehindLastResults
      <4> QED BY <4>3, <4>4, <4>5
    <3> QED BY <2>1, <2>2, <3>2 DEF CompletedAnswered
  <2>3. CASE outcome = "complete"
    BY <2>1, <2>3, <1>3 DEF AnswerOK, Spoken, SpokenAfter, CompletedAnswered
  <2>4. CASE ~Completed
    BY <2>4 DEF CompletedAnswered
  <2> QED BY <2>2, <2>3, <2>4 DEF Completed
<1>4. IInv => TypeOK
  BY DEF IInv
<1> QED BY <1>1, <1>2, <1>3, <1>4, Invariance, PTL DEF Spec
=============================================================================
