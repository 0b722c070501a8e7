-------------------------- MODULE SessionLogProofs ---------------------------
(***************************************************************************)
(* What resume restores, for any number of messages and of crashes.        *)
(*                                                                         *)
(* The numbers of the messages carry the argument: they grow along the     *)
(* conversation and along the file behind its last boundary, and a message *)
(* that is not written yet is newer than everything in the file.  While no *)
(* crash has hit a write, the file behind its last boundary holds what     *)
(* lies before the cursor, and every call in it has its result.            *)
(***************************************************************************)
EXTENDS SessionLog, FiniteSetTheorems, SequenceTheorems, WellFoundedInduction, TLAPS

-----------------------------------------------------------------------------
(* Largest elements.                                                       *)

(* A set of naturals that is not empty has a least element.                *)
LEMMA Least ==
    ASSUME NEW Y, Y \subseteq Nat, Y # {}
    PROVE  \E m \in Y : \A k \in Y : m <= k
<1>1. PICK m \in Y : \A k \in Y : ~(<<k, m>> \in OpToRel(<, Nat))
  BY NatLessThanWellFounded, WFMin
<1>2. \A k \in Y : ~(k < m)
  BY <1>1 DEF OpToRel
<1> QED BY <1>2

(* Largest takes the greatest element of a bounded set.                    *)
LEMMA LargestIs ==
    ASSUME NEW n \in Nat, NEW Y, Y \subseteq 0..n, Y # {}
    PROVE  Largest(Y) \in Y /\ \A y \in Y : y <= Largest(Y)
<1> DEFINE below == {n - y : y \in Y}
<1>0. \A y \in Y : n - y \in Nat
  OBVIOUS
<1>1. below \subseteq Nat /\ below # {}
  <2>1. \E y \in Y : TRUE
    OBVIOUS
  <2> QED BY <1>0, <2>1, Zenon
<1>2. PICK m \in below : \A k \in below : m <= k
  BY <1>1, Least
<1>3. PICK x \in Y : m = n - x
  OBVIOUS
<1>4. \A y \in Y : y <= x
  <2> TAKE y \in Y
  <2>1. m <= n - y
    BY <1>2
  <2> QED BY <1>3, <2>1
<1>5. \E z \in Y : \A y \in Y : y <= z
  BY <1>4
<1> QED BY <1>5 DEF Largest

-----------------------------------------------------------------------------
(* Messages, lines and files.                                              *)

(* Messages in the order of their numbers, none above b; the summary has   *)
(* number 0, so there is one at most and it comes first.                   *)
Chat(msgs, b) ==
    /\ msgs \in Seq(Message) /\ InOrder(msgs)
    /\ \A i \in DOMAIN msgs : msgs[i].n <= b /\ (msgs[i].n = 0 <=> msgs[i].kind = "summary")

Plain(line) == line[1].kind # "summary"

Line(line, b) == line # <<>> /\ Chat(line, b) /\ (Plain(line) => Len(line) = 1)

(* The plain lines are newer than everything in the other file.            *)
Newer(lines, file) ==
    \A j \in DOMAIN lines : Plain(lines[j]) =>
        \A i \in DOMAIN file : \A k \in DOMAIN file[i] : file[i][k].n < lines[j][1].n

Log(lines, b) ==
    /\ lines \in Seq(Seq(Message))
    /\ \A i \in DOMAIN lines : Line(lines[i], b)
    /\ \A i, j \in DOMAIN lines : i < j /\ Plain(lines[j]) =>
           \A k \in DOMAIN lines[i] : lines[i][k].n < lines[j][1].n

(* The conversation and the file are in order, and what is not written yet *)
(* is newer than what is.                                                  *)
OrderInv ==
    /\ last \in Nat /\ cursor \in 0..Len(conv)
    /\ phase \in {"idle", "top", "acting", "acted", "answered", "down"}
    /\ tail \in {"ended", "torn", "whole", "split"}
    /\ Chat(conv, last) /\ Log(disk, last)
    /\ \A i \in (cursor + 1)..Len(conv) :
           /\ conv[i].n # 0
           /\ \A j \in DOMAIN disk : \A k \in DOMAIN disk[j] : disk[j][k].n < conv[i].n

-----------------------------------------------------------------------------
(* Parts of files.                                                         *)

(* What a part of a sequence is.                                           *)
LEMMA PartIs ==
    ASSUME NEW S, NEW s \in Seq(S), NEW p \in Nat \ {0}, NEW q \in Nat, p <= q, q <= Len(s)
    PROVE  /\ SubSeq(s, p, q) \in Seq(S) /\ Len(SubSeq(s, p, q)) = q - p + 1
           /\ \A i \in 1..(q - p + 1) : SubSeq(s, p, q)[i] = s[p + i - 1]
<1>1. DOMAIN s = 1..Len(s) /\ Len(s) \in Nat
  OBVIOUS
<1>2. \A i \in p..q : s[i] \in S
  BY <1>1
<1>3. /\ SubSeq(s, p, q) \in Seq(S)
      /\ Len(SubSeq(s, p, q)) = IF p <= q THEN q - p + 1 ELSE 0
      /\ \A i \in 1..Len(SubSeq(s, p, q)) : SubSeq(s, p, q)[i] = s[p + i - 1]
  BY <1>2, SubSeqProperties
<1> QED BY <1>3

(* A part of a file in order is in order.                                  *)
LEMMA PartInOrder ==
    ASSUME NEW lines, NEW b \in Nat, Log(lines, b),
           NEW p \in Nat \ {0}, NEW q \in Int, q <= Len(lines)
    PROVE  /\ Log(SubSeq(lines, p, q), b)
           /\ \A i \in DOMAIN SubSeq(lines, p, q) :
                  p + i - 1 \in DOMAIN lines /\ SubSeq(lines, p, q)[i] = lines[p + i - 1]
<1> DEFINE part == SubSeq(lines, p, q)
<1>0. lines \in Seq(Seq(Message)) /\ Len(lines) \in Nat /\ DOMAIN lines = 1..Len(lines)
  BY DEF Log
<1>1. \A i \in p..q : lines[i] \in Seq(Message)
  BY <1>0
<1>2. /\ part \in Seq(Seq(Message))
      /\ Len(part) = IF p <= q THEN q - p + 1 ELSE 0
      /\ \A i \in 1..Len(part) : part[i] = lines[p + i - 1]
  BY <1>1, SubSeqProperties
<1>3. DOMAIN part = 1..Len(part) /\ Len(part) \in Nat
  BY <1>2
<1> DEFINE n == Len(lines)
<1> HIDE DEF part, n
<1>4. \A i \in DOMAIN part : p + i - 1 \in DOMAIN lines
  <2>1. q <= n /\ n \in Nat /\ DOMAIN lines = 1..n
    BY <1>0 DEF n
  <2>2. \A i \in DOMAIN part : i \in Nat \ {0} /\ i <= q - p + 1
    BY <1>2, <1>3
  <2> QED BY <2>1, <2>2
<1>5. \A i \in DOMAIN part : Line(part[i], b)
  BY <1>2, <1>3, <1>4 DEF Log
<1>6. ASSUME NEW i \in DOMAIN part, NEW j \in DOMAIN part, i < j, Plain(part[j])
      PROVE  \A k \in DOMAIN part[i] : part[i][k].n < part[j][1].n
  <2>0. \A x, y \in Nat : x < y => p + x - 1 < p + y - 1
    OBVIOUS
  <2>1. p + i - 1 < p + j - 1
    BY <1>6, <1>3, <2>0
  <2>2. part[i] = lines[p + i - 1] /\ part[j] = lines[p + j - 1]
    BY <1>2, <1>3
  <2> QED BY <1>4, <1>6, <2>1, <2>2 DEF Log
<1>7. Log(part, b)
  BY <1>2, <1>5, <1>6 DEF Log
<1> QED BY <1>2, <1>3, <1>4, <1>7 DEF part

(* A file in order is in order after newer lines were added.               *)
LEMMA JoinedInOrder ==
    ASSUME NEW lines, NEW more, NEW b \in Nat, Log(lines, b), Log(more, b), Newer(more, lines)
    PROVE  Log(lines \o more, b)
<1> DEFINE all == lines \o more
<1> DEFINE n == Len(lines)
<1> DEFINE m == Len(more)
<1>0. lines \in Seq(Seq(Message)) /\ more \in Seq(Seq(Message))
  BY DEF Log
<1>1. n \in Nat /\ m \in Nat /\ DOMAIN lines = 1..n /\ DOMAIN more = 1..m
  BY <1>0
<1>2. /\ all \in Seq(Seq(Message)) /\ Len(all) = n + m
      /\ \A i \in 1..(n + m) : all[i] = IF i <= n THEN lines[i] ELSE more[i - n]
  BY <1>0, ConcatProperties
<1>3. DOMAIN all = 1..(n + m)
  BY <1>1, <1>2
<1> HIDE DEF all, n, m
<1>4. \A i \in 1..(n + m) : i <= n => i \in DOMAIN lines /\ all[i] = lines[i]
  BY <1>1, <1>2
<1>5. \A i \in 1..(n + m) : i > n => i - n \in DOMAIN more
  BY <1>1
<1>6. \A i \in 1..(n + m) : i > n => all[i] = more[i - n]
  BY <1>1, <1>2
<1>7. \A i \in DOMAIN all : Line(all[i], b)
  <2> TAKE i \in DOMAIN all
  <2>1. CASE i <= n
    BY <1>3, <1>4, <2>1 DEF Log
  <2>2. CASE i > n
    BY <1>3, <1>5, <1>6, <2>2 DEF Log
  <2> QED BY <1>1, <1>3, <2>1, <2>2
<1>8. ASSUME NEW i \in DOMAIN all, NEW j \in DOMAIN all, i < j, Plain(all[j])
      PROVE  \A k \in DOMAIN all[i] : all[i][k].n < all[j][1].n
  <2>0. i \in 1..(n + m) /\ j \in 1..(n + m)
    BY <1>3
  <2>1. CASE j <= n
    <3>1. i <= n
      BY <1>1, <1>8, <2>0, <2>1
    <3>2. i \in DOMAIN lines /\ j \in DOMAIN lines /\ all[i] = lines[i] /\ all[j] = lines[j]
      BY <1>4, <2>0, <2>1, <3>1
    <3> QED BY <1>8, <3>2 DEF Log
  <2>2. CASE i <= n /\ j > n
    <3>1. i \in DOMAIN lines /\ j - n \in DOMAIN more /\ all[i] = lines[i] /\ all[j] = more[j - n]
      BY <1>4, <1>5, <1>6, <2>0, <2>2
    <3> QED BY <1>8, <3>1 DEF Newer
  <2>3. CASE i > n
    <3>1. j > n /\ i - n < j - n
      BY <1>1, <1>8, <2>0, <2>3
    <3>2. /\ i - n \in DOMAIN more /\ j - n \in DOMAIN more
          /\ all[i] = more[i - n] /\ all[j] = more[j - n]
      BY <1>5, <1>6, <2>0, <2>3, <3>1
    <3> QED BY <1>8, <3>1, <3>2 DEF Log
  <2> QED BY <1>1, <2>0, <2>1, <2>2, <2>3
<1> QED BY <1>2, <1>7, <1>8 DEF Log, all

(* A higher bound does no harm.                                            *)
LEMMA Raised ==
    ASSUME NEW b \in Nat, NEW c \in Nat, b <= c
    PROVE  /\ \A msgs : Chat(msgs, b) => Chat(msgs, c)
           /\ \A lines : Log(lines, b) => Log(lines, c)
<1>1. ASSUME NEW msgs, Chat(msgs, b) PROVE Chat(msgs, c)
  <2>1. \A i \in DOMAIN msgs : msgs[i] \in Message
    BY <1>1 DEF Chat
  <2>2. \A i \in DOMAIN msgs : msgs[i].n \in Nat /\ msgs[i].n <= c
    BY <1>1, <2>1 DEF Chat, Message
  <2> QED BY <1>1, <2>2 DEF Chat
<1> QED BY <1>1 DEF Log, Line

(* Newer lines written as After says, all of them or cut off after some,   *)
(* leave the file in order.                                                *)
LEMMA WritingInOrder ==
    ASSUME NEW lines, NEW b \in Nat, Log(lines, b), Log(disk, b), Newer(lines, disk)
    PROVE  /\ Log(Front(disk), b) /\ Log(After(lines), b)
           /\ \A k \in 0..Len(lines) : Log(After(SubSeq(lines, 1, k)), b)
<1>0. /\ Len(disk) \in Nat /\ Len(disk) - 1 \in Int /\ Len(disk) - 1 <= Len(disk)
      /\ 1 \in Nat \ {0} /\ 2 \in Nat \ {0}
  BY DEF Log
<1>1. /\ Log(Front(disk), b)
      /\ \A i \in DOMAIN Front(disk) : i \in DOMAIN disk /\ Front(disk)[i] = disk[i]
  <2>1. /\ Log(SubSeq(disk, 1, Len(disk) - 1), b)
        /\ \A i \in DOMAIN SubSeq(disk, 1, Len(disk) - 1) :
               1 + i - 1 \in DOMAIN disk /\ SubSeq(disk, 1, Len(disk) - 1)[i] = disk[1 + i - 1]
    BY <1>0, PartInOrder
  <2>2. \A i \in DOMAIN Front(disk) : 1 + i - 1 = i
    <3>1. Front(disk) \in Seq(Seq(Message))
      BY <2>1 DEF Front, Log
    <3>2. DOMAIN Front(disk) = 1..Len(Front(disk)) /\ Len(Front(disk)) \in Nat
      BY <3>1
    <3> QED BY <3>2
  <2> QED BY <2>1, <2>2 DEF Front
<1>2. ASSUME NEW more, Log(more, b), Newer(more, disk)
      PROVE  Log(After(more), b)
  <2>1. CASE more = <<>>
    BY <2>1 DEF After
  <2>2. CASE more # <<>>
    <3>0. Len(more) \in Nat /\ more \in Seq(Seq(Message)) /\ Tail(more) = SubSeq(more, 2, Len(more))
      BY <1>2, <2>2, TailIsSubSeq DEF Log
    <3>1. /\ Log(Tail(more), b)
          /\ \A i \in DOMAIN Tail(more) :
                 2 + i - 1 \in DOMAIN more /\ Tail(more)[i] = more[2 + i - 1]
      <4>1. Len(more) \in Int /\ Len(more) <= Len(more) /\ Log(more, b)
        BY <1>2, <3>0
      <4>2. /\ Log(SubSeq(more, 2, Len(more)), b)
            /\ \A i \in DOMAIN SubSeq(more, 2, Len(more)) :
                   2 + i - 1 \in DOMAIN more /\ SubSeq(more, 2, Len(more))[i] = more[2 + i - 1]
        BY <1>0, <4>1, PartInOrder
      <4> QED BY <3>0, <4>2
    <3>2. Newer(Tail(more), disk) /\ Newer(Tail(more), Front(disk))
      BY <1>1, <1>2, <3>1 DEF Newer
    <3>3. Log(disk \o more, b) /\ Log(disk \o Tail(more), b) /\ Log(Front(disk) \o Tail(more), b)
      BY <1>1, <1>2, <3>1, <3>2, JoinedInOrder
    <3> QED BY <2>2, <3>3 DEF After
  <2> QED BY <2>1, <2>2
<1>3. ASSUME NEW k \in 0..Len(lines)
      PROVE  Log(After(SubSeq(lines, 1, k)), b)
  <2>0. Len(lines) \in Nat
    BY DEF Log
  <2>1. /\ Log(SubSeq(lines, 1, k), b)
        /\ \A i \in DOMAIN SubSeq(lines, 1, k) :
               1 + i - 1 \in DOMAIN lines /\ SubSeq(lines, 1, k)[i] = lines[1 + i - 1]
    <3>1. k \in Int /\ k <= Len(lines)
      BY <2>0
    <3> QED BY <1>0, <3>1, PartInOrder
  <2>2. Newer(SubSeq(lines, 1, k), disk)
    BY <2>1 DEF Newer
  <2> QED BY <1>2, <2>1, <2>2
<1> QED BY <1>1, <1>2, <1>3

-----------------------------------------------------------------------------
(* What resume makes of a file in order.                                   *)

(* Replayed, of any file.                                                  *)
Replay(lines) ==
    LET B == {i \in DOMAIN lines : ~Plain(lines[i])}
    IN  IF B = {} THEN lines ELSE From(lines, Largest(B))

(* Resume replays the lines from the last boundary on.                     *)
LEMMA ReplayedIsReplay == Replayed = Replay(disk)
BY DEF Replayed, Replay, Plain

(* Behind the last boundary all lines are plain.                           *)
Single(lines, b) == Log(lines, b) /\ \A i \in 2..Len(lines) : Plain(lines[i])

(* What is replayed begins with the last boundary.                         *)
LEMMA ReplayIsSingle ==
    ASSUME NEW lines, NEW b \in Nat, Log(lines, b)
    PROVE  Single(Replay(lines), b)
<1> DEFINE B == {i \in DOMAIN lines : ~Plain(lines[i])}
<1> DEFINE n == Len(lines)
<1>0. n \in Nat /\ DOMAIN lines = 1..n
  BY DEF Log
<1>1. CASE B = {}
  <2>1. \A i \in 2..n : i \in DOMAIN lines
    BY <1>0
  <2> QED BY <1>1, <2>1 DEF Replay, Single
<1>2. CASE B # {}
  <2> DEFINE p == Largest(B)
  <2>1. B \subseteq 0..n
    BY <1>0
  <2>2. p \in B /\ \A y \in B : y <= p
    BY <1>0, <1>2, <2>1, LargestIs
  <2>3. Replay(lines) = SubSeq(lines, p, n)
    BY <1>2 DEF Replay, From
  <2> HIDE DEF p
  <2>4. p \in Nat \ {0} /\ n \in Int /\ n <= n
    BY <1>0, <2>2
  <2>5. /\ Log(SubSeq(lines, p, n), b)
        /\ \A i \in DOMAIN SubSeq(lines, p, n) :
               p + i - 1 \in DOMAIN lines /\ SubSeq(lines, p, n)[i] = lines[p + i - 1]
    BY <2>4, PartInOrder
  <2>6. ASSUME NEW i \in 2..Len(SubSeq(lines, p, n))
        PROVE  Plain(SubSeq(lines, p, n)[i])
    <3>1. i \in DOMAIN SubSeq(lines, p, n)
      BY <2>5 DEF Log
    <3>2. p + i - 1 \notin B
      BY <2>2, <2>4
    <3> QED BY <2>5, <3>1, <3>2
  <2> QED BY <2>3, <2>5, <2>6 DEF Single
<1> QED BY <1>1, <1>2

(* The lines taken for valid are a beginning after which no call waits.    *)
LEMMA ValidIs ==
    ASSUME NEW lines, Len(lines) \in Nat, DOMAIN lines = 1..Len(lines)
    PROVE  /\ Valid(lines) \in 0..Len(lines)
           /\ Valid(lines) # 0 => Waiting(lines, Valid(lines)) = {}
           /\ \A i \in DOMAIN lines : Waiting(lines, i) = {} => i <= Valid(lines)
<1> DEFINE whole == {i \in DOMAIN lines : Waiting(lines, i) = {}}
<1> DEFINE Y == {0} \cup whole
<1>1. Y \subseteq 0..Len(lines) /\ Y # {}
  OBVIOUS
<1>2. Largest(Y) \in Y /\ \A y \in Y : y <= Largest(Y)
  BY <1>1, LargestIs
<1>3. Valid(lines) = Largest(Y)
  BY DEF Valid
<1> QED BY <1>1, <1>2, <1>3

(* Where the messages of the lines end up: first those of the first line,  *)
(* then the first message of each other line.                              *)
LEMMA MessagesAre ==
    ASSUME NEW lines, NEW b \in Nat, Single(lines, b), lines # <<>>
    PROVE  \E h, n \in Nat \ {0} :
               /\ h = Len(lines[1]) /\ n = Len(lines)
               /\ Messages(lines) \in Seq(Message)
               /\ DOMAIN Messages(lines) = 1..(h + n - 1)
               /\ \A k \in 1..h : Messages(lines)[k] = lines[1][k]
               /\ \A i \in 1..(n - 1) : Messages(lines)[h + i] = lines[i + 1][1]
<1> DEFINE h == Len(lines[1])
<1> DEFINE n == Len(lines)
<1> DEFINE rest == [i \in 1..(n - 1) |-> lines[i + 1][1]]
<1>1. lines \in Seq(Seq(Message)) /\ n \in Nat \ {0}
  <2>1. lines \in Seq(Seq(Message))
    BY DEF Single, Log
  <2> QED BY <2>1, EmptySeq
<1>2. \A i \in 1..n : lines[i] \in Seq(Message) /\ lines[i] # <<>>
  BY <1>1 DEF Single, Log, Line
<1>3. \A i \in 1..n : Len(lines[i]) \in Nat \ {0} /\ lines[i][1] \in Message
  BY <1>2, EmptySeq
<1>4. lines[1] \in Seq(Message) /\ h \in Nat \ {0}
  BY <1>1, <1>2, <1>3
<1>5. \A i \in 1..(n - 1) : lines[i + 1][1] \in Message
  BY <1>1, <1>3
<1>6. rest \in Seq(Message) /\ Len(rest) = n - 1
  BY <1>1, <1>5
<1>7. Messages(lines) = lines[1] \o rest
  BY DEF Messages
<1>8. \A i \in 1..(n - 1) : rest[i] = lines[i + 1][1]
  OBVIOUS
<1> HIDE DEF rest, h, n
<1>9. /\ Messages(lines) \in Seq(Message) /\ Len(Messages(lines)) = h + n - 1
      /\ \A i \in 1..(h + n - 1) :
             Messages(lines)[i] = IF i <= h THEN lines[1][i] ELSE rest[i - h]
  BY <1>1, <1>4, <1>6, <1>7, ConcatProperties DEF h
<1>10. \A i \in 1..(n - 1) : h + i \in 1..(h + n - 1) /\ ~(h + i <= h) /\ h + i - h = i
  BY <1>1, <1>4
<1>11. \A k \in 1..h : k \in 1..(h + n - 1) /\ k <= h
  BY <1>1, <1>4
<1>12. h + n - 1 \in Nat
  BY <1>1, <1>4
<1>13. DOMAIN Messages(lines) = 1..(h + n - 1)
  BY <1>9, <1>12
<1>14. \A i \in 1..(n - 1) : Messages(lines)[h + i] = lines[i + 1][1]
  <2> TAKE i \in 1..(n - 1)
  <2> DEFINE j == h + i
  <2>1. j \in 1..(h + n - 1) /\ ~(j <= h) /\ j - h = i /\ j = h + i
    BY <1>1, <1>4
  <2> HIDE DEF j
  <2>2. Messages(lines)[j] = IF j <= h THEN lines[1][j] ELSE rest[j - h]
    BY <1>9, <2>1, Zenon
  <2>3. Messages(lines)[h + i] = rest[i]
    BY <2>1, <2>2, Zenon
  <2>4. rest[i] = lines[i + 1][1]
    BY <1>8
  <2> QED BY <2>3, <2>4, Zenon
<1>15. \A k \in 1..h : Messages(lines)[k] = lines[1][k]
  BY <1>9, <1>11
<1>16. h = Len(lines[1]) /\ n = Len(lines)
  BY DEF h, n
<1> QED BY <1>1, <1>4, <1>9, <1>13, <1>14, <1>15, <1>16

(* Every message comes from the first line, or is the first message of     *)
(* another one.                                                            *)
LEMMA MessagesFrom ==
    ASSUME NEW lines, NEW b \in Nat, Single(lines, b), lines # <<>>,
           NEW k \in DOMAIN Messages(lines)
    PROVE  \/ k \in DOMAIN lines[1] /\ Messages(lines)[k] = lines[1][k]
           \/ \E i \in DOMAIN lines : /\ i > 1 /\ k = Len(lines[1]) + i - 1
                                      /\ Messages(lines)[k] = lines[i][1]
<1>1. PICK h, n \in Nat \ {0} :
          /\ h = Len(lines[1]) /\ n = Len(lines)
          /\ Messages(lines) \in Seq(Message)
          /\ DOMAIN Messages(lines) = 1..(h + n - 1)
          /\ \A x \in 1..h : Messages(lines)[x] = lines[1][x]
          /\ \A i \in 1..(n - 1) : Messages(lines)[h + i] = lines[i + 1][1]
  BY MessagesAre
<1>2. lines \in Seq(Seq(Message)) /\ DOMAIN lines = 1..n /\ 1 \in 1..n
  BY <1>1 DEF Single, Log
<1>3. lines[1] \in Seq(Message) /\ DOMAIN lines[1] = 1..h
  BY <1>1, <1>2
<1>4. CASE k <= h
  BY <1>1, <1>3, <1>4
<1>5. CASE ~(k <= h)
  <2> DEFINE i == k - h
  <2> DEFINE j == i + 1
  <2>0. h \in Nat /\ n \in Nat /\ k \in 1..(h + n - 1)
    BY <1>1, Zenon
  <2>1. i \in 1..(n - 1) /\ k = h + i
    BY <1>5, <2>0
  <2>2. j \in 1..n /\ j > 1 /\ k = h + j - 1
    BY <1>5, <2>0
  <2> HIDE DEF i
  <2>3. Messages(lines)[h + i] = lines[i + 1][1]
    BY <1>1, <2>1, Zenon
  <2>4. Messages(lines)[k] = lines[j][1]
    BY <2>1, <2>3, Zenon
  <2> QED BY <1>1, <1>2, <2>2, <2>4
<1> QED BY <1>4, <1>5

(* The messages of lines in order are in order.                            *)
LEMMA MessagesInOrder ==
    ASSUME NEW lines, NEW b \in Nat, Single(lines, b)
    PROVE  Chat(Messages(lines), b)
<1>1. CASE lines = <<>>
  <2>1. Messages(lines) = <<>>
    BY <1>1 DEF Messages
  <2>2. <<>> \in Seq(Message) /\ DOMAIN <<>> = {}
    OBVIOUS
  <2> QED BY <2>1, <2>2 DEF Chat, InOrder
<1>2. CASE lines # <<>>
  <2> DEFINE out == Messages(lines)
  <2>1. out \in Seq(Message) /\ DOMAIN out \subseteq Nat
    <3>1. \E h, n \in Nat \ {0} : out \in Seq(Message) /\ DOMAIN out = 1..(h + n - 1)
      BY <1>2, MessagesAre
    <3> QED BY <3>1
  <2>2. /\ lines \in Seq(Seq(Message)) /\ 1 \in DOMAIN lines
        /\ DOMAIN lines \subseteq Nat
    <3>1. lines \in Seq(Seq(Message))
      BY DEF Single, Log
    <3>2. Len(lines) \in Nat \ {0}
      BY <1>2, <3>1, EmptySeq
    <3> QED BY <3>1, <3>2
  <2>3. \A i \in DOMAIN lines : Chat(lines[i], b) /\ 1 \in DOMAIN lines[i] /\ DOMAIN lines[i] \subseteq Nat
    <3> TAKE i \in DOMAIN lines
    <3>1. lines[i] # <<>> /\ Chat(lines[i], b) /\ lines[i] \in Seq(Message)
      BY <2>2 DEF Single, Log, Line, Chat
    <3>2. Len(lines[i]) \in Nat \ {0}
      BY <3>1, EmptySeq
    <3> QED BY <3>1, <3>2
  <2>4. ASSUME NEW k \in DOMAIN out
        PROVE  \/ k \in DOMAIN lines[1] /\ out[k] = lines[1][k]
               \/ \E i \in DOMAIN lines : /\ i > 1 /\ k = Len(lines[1]) + i - 1
                                          /\ out[k] = lines[i][1]
    BY <1>2, MessagesFrom
  <2> HIDE DEF out
  <2>5. \A k \in DOMAIN out : out[k].n <= b /\ (out[k].n = 0 <=> out[k].kind = "summary")
    BY <2>2, <2>3, <2>4, SMTT(40) DEF Chat
  <2>6. ASSUME NEW k \in DOMAIN out, NEW m \in DOMAIN out, k < m
        PROVE  out[k].n < out[m].n
    <3>1. CASE m \in DOMAIN lines[1] /\ out[m] = lines[1][m]
      <4>1. k \in DOMAIN lines[1] /\ out[k] = lines[1][k]
        <5>1. lines[1] \in Seq(Message)
          BY <2>2
        <5>2. DOMAIN lines[1] = 1..Len(lines[1]) /\ Len(lines[1]) \in Nat
          BY <5>1
        <5>3. ~\E i \in DOMAIN lines : i > 1 /\ k = Len(lines[1]) + i - 1
          BY <2>2, <2>6, <3>1, <5>2
        <5> QED BY <2>4, <5>3
      <4> QED BY <2>2, <2>3, <2>6, <3>1, <4>1 DEF Chat, InOrder
    <3>2. CASE ~(m \in DOMAIN lines[1] /\ out[m] = lines[1][m])
      <4>1. PICK j \in DOMAIN lines : j > 1 /\ m = Len(lines[1]) + j - 1 /\ out[m] = lines[j][1]
        BY <2>4, <3>2
      <4>2. Plain(lines[j])
        <5>1. j \in 2..Len(lines)
          BY <2>2, <4>1, SMTT(40)
        <5> QED BY <5>1 DEF Single
      <4>3. \A i \in DOMAIN lines : i < j => \A x \in DOMAIN lines[i] : lines[i][x].n < out[m].n
        BY <4>1, <4>2 DEF Single, Log
      <4>4. CASE k \in DOMAIN lines[1] /\ out[k] = lines[1][k]
        BY <2>2, <4>1, <4>3, <4>4
      <4>5. CASE \E i \in DOMAIN lines : i > 1 /\ k = Len(lines[1]) + i - 1 /\ out[k] = lines[i][1]
        <5>1. PICK i \in DOMAIN lines : i > 1 /\ k = Len(lines[1]) + i - 1 /\ out[k] = lines[i][1]
          BY <4>5
        <5>2. i < j
          <6>1. lines[1] \in Seq(Message)
            BY <2>2
          <6>2. Len(lines[1]) \in Nat
            BY <6>1
          <6> QED BY <2>2, <2>6, <4>1, <5>1, <6>2
        <5> QED BY <2>3, <4>3, <5>1, <5>2
      <4> QED BY <2>4, <4>4, <4>5
    <3> QED BY <3>1, <3>2
  <2> QED BY <2>1, <2>5, <2>6 DEF Chat, InOrder, out
<1> QED BY <1>1, <1>2

(* A beginning of lines of which the first at most is a boundary is one.   *)
LEMMA BeginningIsSingle ==
    ASSUME NEW lines, NEW b \in Nat, Single(lines, b), NEW k \in 0..Len(lines)
    PROVE  /\ Single(SubSeq(lines, 1, k), b)
           /\ SubSeq(lines, 1, k) \in Seq(Seq(Message)) /\ Len(SubSeq(lines, 1, k)) = k
           /\ \A i \in 1..k : SubSeq(lines, 1, k)[i] = lines[i]
<1> DEFINE part == SubSeq(lines, 1, k)
<1>0. lines \in Seq(Seq(Message)) /\ Len(lines) \in Nat /\ Log(lines, b)
  BY DEF Single, Log
<1>1. k \in Int /\ k <= Len(lines) /\ 1 \in Nat \ {0}
  BY <1>0
<1>2. Log(part, b)
  BY <1>0, <1>1, PartInOrder
<1>3. /\ part \in Seq(Seq(Message)) /\ Len(part) = k
      /\ \A i \in 1..k : part[i] = lines[i]
  <2>1. \A i \in 1..k : lines[i] \in Seq(Message)
    BY <1>0
  <2>2. /\ Len(part) = IF 1 <= k THEN k - 1 + 1 ELSE 0
        /\ \A i \in 1..Len(part) : part[i] = lines[1 + i - 1]
    BY <1>1, <2>1, SubSeqProperties
  <2>3. Len(part) = k
    BY <1>0, <2>2
  <2> HIDE DEF part
  <2>4. \A i \in 1..k : 1 + i - 1 = i
    BY <1>0
  <2>5. part \in Seq(Seq(Message))
    BY <1>2 DEF Log
  <2> QED BY <2>2, <2>3, <2>4, <2>5
<1> HIDE DEF part
<1>4. \A i \in 2..Len(part) : Plain(part[i])
  <2> TAKE i \in 2..Len(part)
  <2>1. i \in 1..k /\ i \in 2..Len(lines)
    BY <1>0, <1>3
  <2> QED BY <1>3, <2>1 DEF Single
<1> QED BY <1>2, <1>3, <1>4 DEF Single, part

(* Resume restores messages in order from a file in order.                 *)
LEMMA RestoredIsChat ==
    ASSUME last \in Nat, Log(disk, last)
    PROVE  Chat(Restored, last)
<1>1. Single(Replayed, last)
  BY ReplayIsSingle, ReplayedIsReplay
<1>2. Len(Replayed) \in Nat /\ DOMAIN Replayed = 1..Len(Replayed)
  BY <1>1 DEF Single, Log
<1>3. Valid(Replayed) \in 0..Len(Replayed)
  BY <1>2, ValidIs
<1>4. Single(SubSeq(Replayed, 1, Valid(Replayed)), last)
  BY <1>1, <1>3, BeginningIsSingle
<1> QED BY <1>4, MessagesInOrder DEF Restored

(* The same of the next state.                                             *)
LEMMA RestoredIsChatNext ==
    (last \in Nat /\ Log(disk, last) => Chat(Restored, last))'
<1>1. last \in Nat /\ Log(disk, last) => Chat(Restored, last)
  BY RestoredIsChat
<1> QED BY <1>1, PTL

-----------------------------------------------------------------------------
(* What is written is in order.                                            *)

(* A new message keeps the messages in order.                              *)
LEMMA AppendedInOrder ==
    ASSUME NEW msgs, NEW b \in Nat, Chat(msgs, b),
           NEW m \in Message, m.n = b + 1, m.kind # "summary"
    PROVE  /\ Chat(Append(msgs, m), b + 1)
           /\ Len(msgs) \in Nat /\ Len(Append(msgs, m)) = Len(msgs) + 1
           /\ DOMAIN msgs = 1..Len(msgs) /\ DOMAIN Append(msgs, m) = 1..(Len(msgs) + 1)
           /\ Append(msgs, m)[Len(msgs) + 1] = m
           /\ \A i \in 1..Len(msgs) : Append(msgs, m)[i] = msgs[i]
<1> DEFINE all == Append(msgs, m)
<1> DEFINE n == Len(msgs)
<1>1. msgs \in Seq(Message) /\ n \in Nat /\ DOMAIN msgs = 1..n
  BY DEF Chat
<1>2. /\ all \in Seq(Message) /\ Len(all) = n + 1
      /\ \A i \in 1..n : all[i] = msgs[i]
      /\ all[n + 1] = m
  BY <1>1, AppendProperties
<1>3. DOMAIN all = 1..(n + 1)
  BY <1>1, <1>2
<1>4. \A i \in 1..n : msgs[i].n \in Nat /\ msgs[i].n <= b
  <2> TAKE i \in 1..n
  <2>1. msgs[i] \in Message
    BY <1>1
  <2> QED BY <1>1, <2>1 DEF Chat, Message
<1> HIDE DEF all, n
<1>5. \A i \in 1..(n + 1) : all[i].n <= b + 1 /\ (all[i].n = 0 <=> all[i].kind = "summary")
  <2> TAKE i \in 1..(n + 1)
  <2>1. CASE i \in 1..n
    <3>1. \A j \in Nat : j <= b => j <= b + 1
      OBVIOUS
    <3>2. all[i].n = msgs[i].n /\ all[i].kind = msgs[i].kind
      BY <1>2, <2>1
    <3>3. all[i].n <= b + 1
      BY <1>4, <2>1, <3>1, <3>2
    <3>4. msgs[i].n = 0 <=> msgs[i].kind = "summary"
      BY <1>1, <2>1 DEF Chat
    <3> QED BY <3>2, <3>3, <3>4
  <2>2. CASE i = n + 1
    <3>1. m.n <= b + 1 /\ m.n # 0
      OBVIOUS
    <3>2. all[i] = m
      BY <1>2, <2>2
    <3> QED BY <3>1, <3>2
  <2> QED BY <1>1, <2>1, <2>2
<1>6. ASSUME NEW i \in 1..(n + 1), NEW j \in 1..(n + 1), i < j
      PROVE  all[i].n < all[j].n
  <2>1. i \in 1..n
    BY <1>1, <1>6
  <2>2. CASE j \in 1..n
    BY <1>1, <1>2, <1>6, <2>1, <2>2 DEF Chat, InOrder
  <2>3. CASE j = n + 1
    BY <1>2, <1>4, <2>1, <2>3
  <2> QED BY <1>1, <2>2, <2>3
<1>7. Chat(all, b + 1)
  BY <1>2, <1>3, <1>5, <1>6 DEF Chat, InOrder
<1> QED BY <1>1, <1>2, <1>3, <1>7 DEF all, n

(* The user message that is sent, as a line of its own.                    *)
LEMMA AddedInOrder ==
    ASSUME OrderInv
    PROVE  /\ Added \in Message /\ Added.n = last + 1 /\ Added.kind = "user"
           /\ Log(<< <<Added>> >>, last + 1) /\ Newer(<< <<Added>> >>, disk)
<1>1. last \in Nat /\ last + 1 \in Nat
  BY DEF OrderInv
<1>2. Added \in Message /\ Added.n = last + 1 /\ Added.kind = "user"
  BY <1>1 DEF Added, Message, Kinds
<1>3. <<Added>> \in Seq(Message) /\ Len(<<Added>>) = 1 /\ DOMAIN <<Added>> = {1} /\ <<Added>>[1] = Added
  BY <1>2
<1>4. Chat(<<Added>>, last + 1)
  BY <1>1, <1>2, <1>3 DEF Chat, InOrder
<1>5. Line(<<Added>>, last + 1)
  BY <1>3, <1>4 DEF Line
<1>6. /\ << <<Added>> >> \in Seq(Seq(Message)) /\ DOMAIN << <<Added>> >> = {1}
      /\ << <<Added>> >>[1] = <<Added>>
  BY <1>3
<1>7. Log(<< <<Added>> >>, last + 1)
  BY <1>5, <1>6 DEF Log
<1>8. \A i \in DOMAIN disk : \A k \in DOMAIN disk[i] : disk[i][k].n < last + 1
  <2> TAKE i \in DOMAIN disk
  <2> TAKE k \in DOMAIN disk[i]
  <2>1. Chat(disk[i], last)
    BY DEF OrderInv, Log, Line
  <2>2. disk[i][k] \in Message
    BY <2>1 DEF Chat
  <2>3. disk[i][k].n \in Nat /\ disk[i][k].n <= last
    BY <2>1, <2>2 DEF Chat, Message
  <2> QED BY <1>1, <2>3
<1>9. Newer(<< <<Added>> >>, disk)
  BY <1>2, <1>3, <1>6, <1>8 DEF Newer
<1> QED BY <1>2, <1>7, <1>9

(* What the run has added since its cursor, one line each.                 *)
LEMMA UnflushedInOrder ==
    ASSUME OrderInv
    PROVE  /\ Log(Unflushed, last) /\ Newer(Unflushed, disk)
           /\ Len(Unflushed) = Len(conv) - cursor /\ DOMAIN Unflushed = 1..(Len(conv) - cursor)
           /\ \A i \in 1..(Len(conv) - cursor) :
                  /\ cursor + i \in DOMAIN conv /\ cursor + i \in (cursor + 1)..Len(conv)
                  /\ Unflushed[i] = <<conv[cursor + i]>>
                  /\ Plain(Unflushed[i])
<1> DEFINE n == Len(conv) - cursor
<1>1. /\ conv \in Seq(Message) /\ Len(conv) \in Nat /\ DOMAIN conv = 1..Len(conv)
      /\ cursor \in 0..Len(conv) /\ n \in Nat /\ last \in Nat
  BY DEF OrderInv, Chat
<1>2. \A i \in 1..n : cursor + i \in DOMAIN conv /\ cursor + i \in (cursor + 1)..Len(conv)
  BY <1>1
<1>3. \A i \in 1..n : conv[cursor + i] \in Message /\ conv[cursor + i].kind # "summary"
  BY <1>1, <1>2 DEF OrderInv, Chat
<1>4. \A i \in 1..n : <<conv[cursor + i]>> \in Seq(Message)
  BY <1>3
<1>5. Unflushed = [i \in 1..n |-> <<conv[cursor + i]>>]
  BY DEF Unflushed
<1>6. Unflushed \in Seq(Seq(Message)) /\ Len(Unflushed) = n /\ DOMAIN Unflushed = 1..n
  BY <1>1, <1>4, <1>5
<1>7. \A i \in 1..n : Unflushed[i] = <<conv[cursor + i]>>
  BY <1>5
<1> HIDE DEF n
<1>8. \A i \in 1..n : /\ DOMAIN Unflushed[i] = {1} /\ Unflushed[i][1] = conv[cursor + i]
                      /\ Len(Unflushed[i]) = 1 /\ Unflushed[i] # <<>>
  <2> TAKE i \in 1..n
  <2> DEFINE m == conv[cursor + i]
  <2>1. Unflushed[i] = <<m>>
    BY <1>7
  <2> HIDE DEF m
  <2>2. DOMAIN <<m>> = {1} /\ <<m>>[1] = m /\ Len(<<m>>) = 1 /\ <<m>> # <<>>
    OBVIOUS
  <2> QED BY <2>1, <2>2 DEF m
<1>9. \A i \in 1..n : Plain(Unflushed[i]) /\ Line(Unflushed[i], last)
  <2> TAKE i \in 1..n
  <2>1. Plain(Unflushed[i])
    BY <1>3, <1>8 DEF Plain
  <2>2. Chat(Unflushed[i], last)
    <3>1. Unflushed[i] \in Seq(Message)
      BY <1>4, <1>7
    <3>2. conv[cursor + i].n <= last /\ (conv[cursor + i].n = 0 <=> conv[cursor + i].kind = "summary")
      BY <1>2 DEF OrderInv, Chat
    <3> QED BY <1>8, <3>1, <3>2 DEF Chat, InOrder
  <2> QED BY <1>8, <2>1, <2>2 DEF Line
<1>10. ASSUME NEW i \in 1..n, NEW j \in 1..n, i < j
       PROVE  Unflushed[i][1].n < Unflushed[j][1].n
  <2>0. \A x, y \in Nat : x < y => cursor + x < cursor + y
    BY <1>1
  <2>1. cursor + i < cursor + j
    BY <1>1, <1>10, <2>0
  <2>2. cursor + i \in DOMAIN conv /\ cursor + j \in DOMAIN conv
    BY <1>2
  <2> QED BY <1>8, <2>1, <2>2 DEF OrderInv, Chat, InOrder
<1>11. Log(Unflushed, last)
  BY <1>6, <1>8, <1>9, <1>10 DEF Log
<1>12. Newer(Unflushed, disk)
  BY <1>2, <1>6, <1>8 DEF Newer, OrderInv
<1> QED BY <1>2, <1>6, <1>7, <1>9, <1>11, <1>12 DEF n

(* A boundary: the summary and the messages that are kept.                 *)
LEMMA CompactedInOrder ==
    ASSUME OrderInv, NEW k \in Cuts
    PROVE  /\ Chat(Compacted(k), last)
           /\ Log(<<Compacted(k)>>, last) /\ Newer(<<Compacted(k)>>, disk)
           /\ Compacted(k)[1] = Summary /\ ~Plain(Compacted(k))
           /\ Compacted(k) # <<>> /\ k \in 2..Len(conv)
           /\ DOMAIN Compacted(k) = 1..(Len(conv) - k + 2)
           /\ \A i \in 2..(Len(conv) - k + 2) :
                  k + i - 2 \in k..Len(conv) /\ Compacted(k)[i] = conv[k + i - 2]
<1>1. /\ conv \in Seq(Message) /\ Len(conv) \in Nat /\ DOMAIN conv = 1..Len(conv)
      /\ last \in Nat /\ k \in 2..Len(conv)
  BY DEF OrderInv, Chat, Cuts
<1>2. Summary \in Message /\ Summary.n = 0 /\ Summary.kind = "summary"
  BY DEF Summary, Message, Kinds
<1> DEFINE kept == SubSeq(conv, k, Len(conv))
<1> DEFINE n == Len(conv) - k + 1
<1>3. /\ kept \in Seq(Message) /\ Len(kept) = n
      /\ \A i \in 1..n : kept[i] = conv[k + i - 1]
  <2>1. \A i \in k..Len(conv) : conv[i] \in Message
    BY <1>1
  <2> QED BY <1>1, <2>1, SubSeqProperties
<1>4. <<Summary>> \in Seq(Message) /\ Len(<<Summary>>) = 1 /\ <<Summary>>[1] = Summary
  BY <1>2
<1>5. Compacted(k) = <<Summary>> \o kept
  BY DEF Compacted, From
<1>6. n \in Nat
  BY <1>1
<1>6a. Len(conv) - k + 2 = n + 1
  BY <1>1
<1> HIDE DEF kept, n
<1>7. /\ Compacted(k) \in Seq(Message) /\ Len(Compacted(k)) = 1 + n
      /\ \A i \in 1..(1 + n) :
             Compacted(k)[i] = IF i <= 1 THEN <<Summary>>[i] ELSE kept[i - 1]
  BY <1>3, <1>4, <1>5, <1>6, ConcatProperties
<1>8. Compacted(k)[1] = Summary /\ Compacted(k) # <<>>
  <2>1. 1 \in 1..(1 + n) /\ 1 <= 1
    BY <1>6
  <2>2. Compacted(k)[1] = Summary
    BY <1>4, <1>7, <2>1
  <2> QED BY <1>6, <1>7, <2>2
<1>9. \A i \in 2..(n + 1) : k + i - 2 \in k..Len(conv) /\ Compacted(k)[i] = conv[k + i - 2]
  <2> TAKE i \in 2..(n + 1)
  <2>1. i \in 1..(1 + n) /\ ~(i <= 1) /\ i - 1 \in 1..n /\ k + (i - 1) - 1 = k + i - 2
    BY <1>1, <1>6
  <2>2. k + i - 2 \in k..Len(conv)
    BY <1>1, <1>6 DEF n
  <2>3. Compacted(k)[i] = kept[i - 1]
    BY <1>7, <2>1
  <2>4. kept[i - 1] = conv[k + (i - 1) - 1]
    BY <1>3, <2>1
  <2> QED BY <2>1, <2>2, <2>3, <2>4
<1>10. DOMAIN Compacted(k) = 1..(n + 1)
  BY <1>6, <1>7
<1>11. \A i \in 2..(n + 1) : /\ Compacted(k)[i].n \in Nat \ {0} /\ Compacted(k)[i].n <= last
                             /\ Compacted(k)[i].kind # "summary"
  <2> TAKE i \in 2..(n + 1)
  <2> DEFINE j == k + i - 2
  <2>1. j \in 1..Len(conv) /\ 1 \in 1..Len(conv) /\ 1 < j
    BY <1>1, <1>9
  <2> HIDE DEF j
  <2>2. conv[1] \in Message /\ conv[j] \in Message
    BY <1>1, <2>1
  <2>3. conv[1].n < conv[j].n /\ conv[j].n <= last /\ (conv[j].n = 0 <=> conv[j].kind = "summary")
    BY <1>1, <2>1 DEF OrderInv, Chat, InOrder
  <2>4. conv[1].n \in Nat /\ conv[j].n \in Nat
    BY <2>2 DEF Message
  <2>5. Compacted(k)[i] = conv[j]
    BY <1>9 DEF j
  <2> QED BY <2>3, <2>4, <2>5
<1>12. InOrder(Compacted(k))
  <2> SUFFICES ASSUME NEW i \in 1..(n + 1), NEW j \in 1..(n + 1), i < j
               PROVE  Compacted(k)[i].n < Compacted(k)[j].n
    BY <1>10 DEF InOrder
  <2>1. j \in 2..(n + 1)
    BY <1>6
  <2>2. CASE i = 1
    BY <1>2, <1>8, <1>11, <2>1, <2>2
  <2>3. CASE i \in 2..(n + 1)
    <3>1. \A x, y \in Nat : x < y => k + x - 2 < k + y - 2
      BY <1>1
    <3>2. k + i - 2 < k + j - 2
      BY <1>6, <3>1
    <3>3. k + i - 2 \in DOMAIN conv /\ k + j - 2 \in DOMAIN conv
      BY <1>1, <1>9, <2>1, <2>3
    <3>4. conv[k + i - 2].n < conv[k + j - 2].n
      BY <3>2, <3>3 DEF OrderInv, Chat, InOrder
    <3> QED BY <1>9, <2>1, <2>3, <3>4
  <2> QED BY <1>6, <2>2, <2>3
<1>13. Chat(Compacted(k), last)
  <2> SUFFICES ASSUME NEW i \in 1..(n + 1)
               PROVE  /\ Compacted(k)[i].n <= last
                      /\ Compacted(k)[i].n = 0 <=> Compacted(k)[i].kind = "summary"
    BY <1>7, <1>10, <1>12 DEF Chat
  <2>1. CASE i = 1
    BY <1>1, <1>2, <1>8, <2>1
  <2>2. CASE i \in 2..(n + 1)
    BY <1>11, <2>2
  <2> QED BY <1>6, <2>1, <2>2
<1>14. ~Plain(Compacted(k))
  BY <1>2, <1>8 DEF Plain
<1>15. /\ <<Compacted(k)>> \in Seq(Seq(Message)) /\ DOMAIN <<Compacted(k)>> = {1}
       /\ <<Compacted(k)>>[1] = Compacted(k)
  BY <1>7
<1>16. Log(<<Compacted(k)>>, last)
  BY <1>8, <1>13, <1>14, <1>15 DEF Log, Line
<1>17. Newer(<<Compacted(k)>>, disk)
  BY <1>14, <1>15 DEF Newer
<1> QED BY <1>1, <1>6a, <1>8, <1>9, <1>10, <1>13, <1>14, <1>16, <1>17

-----------------------------------------------------------------------------
(* Every step keeps conversation and file in order.                        *)

Phases == {"idle", "top", "acting", "acted", "answered", "down"}

(* Nothing in the file has a number above the last.                        *)
LEMMA DiskBelow ==
    ASSUME last \in Nat, Log(disk, last)
    PROVE  \A j \in DOMAIN disk : \A k \in DOMAIN disk[j] :
               disk[j][k].n \in Nat /\ disk[j][k].n <= last
<1> TAKE j \in DOMAIN disk
<1> TAKE k \in DOMAIN disk[j]
<1>1. Chat(disk[j], last)
  BY DEF Log, Line
<1>2. disk[j][k] \in Message
  BY <1>1 DEF Chat
<1> QED BY <1>1, <1>2 DEF Chat, Message

(* A new message in memory.                                                *)
LEMMA AppendStep ==
    ASSUME OrderInv, NEW m \in Message, m.n = last + 1, m.kind # "summary",
           conv' = Append(conv, m), last' = last + 1,
           cursor' \in {cursor, Len(conv')}, phase' \in Phases,
           UNCHANGED <<disk, tail>>
    PROVE  OrderInv'
<1>1. last \in Nat /\ last' \in Nat /\ last <= last'
  BY DEF OrderInv
<1>2. /\ Chat(conv', last')
      /\ Len(conv) \in Nat /\ Len(conv') = Len(conv) + 1
      /\ conv'[Len(conv) + 1] = m
      /\ \A i \in 1..Len(conv) : conv'[i] = conv[i]
  BY AppendedInOrder, <1>1 DEF OrderInv
<1>3. Log(disk', last')
  BY <1>1, Raised DEF OrderInv
<1>4. cursor' \in 0..Len(conv')
  BY <1>2 DEF OrderInv
<1>5. ASSUME NEW i \in (cursor' + 1)..Len(conv')
      PROVE  /\ conv'[i].n # 0
             /\ \A j \in DOMAIN disk : \A k \in DOMAIN disk[j] : disk[j][k].n < conv'[i].n
  <2>1. cursor' = cursor /\ cursor \in Nat
    <3>1. Len(conv') \in Nat /\ cursor \in Nat
      BY <1>2 DEF OrderInv
    <3>2. ~\E n \in Nat : i \in (n + 1)..n
      OBVIOUS
    <3>3. cursor' # Len(conv')
      BY <1>5, <3>1, <3>2
    <3> QED BY <3>1, <3>3
  <2>2. CASE i = Len(conv) + 1
    <3>1. conv'[i].n = last + 1
      BY <1>2, <2>2
    <3>2. \A j \in DOMAIN disk : \A k \in DOMAIN disk[j] :
              disk[j][k].n \in Nat /\ disk[j][k].n <= last
      BY <1>1, DiskBelow DEF OrderInv
    <3> QED BY <1>1, <3>1, <3>2
  <2>3. CASE i # Len(conv) + 1
    <3>1. i \in 1..Len(conv) /\ i \in (cursor + 1)..Len(conv)
      BY <1>2, <1>5, <2>1, <2>3
    <3>2. conv'[i] = conv[i]
      BY <1>2, <3>1
    <3> QED BY <3>1, <3>2 DEF OrderInv
  <2> QED BY <2>2, <2>3
<1> QED BY <1>1, <1>2, <1>3, <1>4, <1>5 DEF OrderInv, Phases

(* Lines are written, and the cursor moves to the end.                     *)
LEMMA WriteStep ==
    ASSUME OrderInv, NEW lines, last' \in Nat, last <= last',
           Chat(conv', last'), cursor' = Len(conv'), phase' \in Phases,
           Log(lines, last'), Newer(lines, disk), Write(lines)
    PROVE  OrderInv'
<1>1. Log(disk, last') /\ last \in Nat
  BY Raised DEF OrderInv
<1>2. Log(After(lines), last')
  BY <1>1, WritingInOrder
<1>3. Log(disk', last')
  BY <1>2 DEF Write
<1>4. tail' \in {"ended", "torn", "whole", "split"}
  BY DEF Write, OrderInv
<1>5. Len(conv') \in Nat /\ cursor' \in 0..Len(conv') /\ (cursor' + 1)..Len(conv') = {}
  <2>1. Len(conv') \in Nat
    BY DEF Chat
  <2> QED BY <2>1
<1> QED BY <1>3, <1>4, <1>5 DEF OrderInv, Phases

(* Nothing is in memory any more, or what resume has restored is.          *)
LEMMA ReloadStep ==
    ASSUME last' \in Nat, Chat(conv', last'), cursor' = Len(conv'), phase' \in Phases,
           Log(disk', last'), tail' \in {"ended", "torn", "whole", "split"}
    PROVE  OrderInv'
<1>1. Len(conv') \in Nat
  BY DEF Chat
<1>2. cursor' \in 0..Len(conv') /\ (cursor' + 1)..Len(conv') = {}
  BY <1>1
<1> QED BY <1>2 DEF OrderInv, Phases

(* No messages are in order.                                               *)
LEMMA EmptyChat == \A b : Chat(<<>>, b) /\ Len(<<>>) = 0
<1>1. <<>> \in Seq(Message) /\ DOMAIN <<>> = {} /\ Len(<<>>) = 0
  OBVIOUS
<1> QED BY <1>1 DEF Chat, InOrder

(* An empty session is in order.                                           *)
LEMMA OrderInit == Init => OrderInv
<1>1. Log(<<>>, 0)
  <2>1. <<>> \in Seq(Seq(Message)) /\ DOMAIN <<>> = {}
    OBVIOUS
  <2> QED BY <2>1 DEF Log
<1>2. 0 \in Nat /\ 0 \in 0..0 /\ (0 + 1)..0 = {}
  OBVIOUS
<1> QED BY <1>1, <1>2, EmptyChat DEF Init, OrderInv

(* Each step of surface, process and resume keeps log and memory so.        *)
LEMMA OrderStep == OrderInv /\ [Next]_vars => OrderInv'
<1> SUFFICES ASSUME OrderInv, [Next]_vars PROVE OrderInv'
  OBVIOUS
<1>0. /\ last \in Nat /\ last + 1 \in Nat /\ last <= last + 1 /\ last <= last
      /\ Chat(conv, last) /\ Len(conv) \in Nat /\ DOMAIN conv = 1..Len(conv)
  BY DEF OrderInv, Chat
<1>a. Added \in Message /\ Added.n = last + 1 /\ Added.kind # "summary"
  BY AddedInOrder
<1>1. CASE Send
  <2>1. Chat(conv', last + 1)
    BY <1>0, <1>1, <1>a, AppendedInOrder DEF Send
  <2>2. last' = last + 1 /\ cursor' = Len(conv') /\ phase' \in Phases /\ Write(<< <<Added>> >>)
    BY <1>1 DEF Send, Phases
  <2>3. Log(<< <<Added>> >>, last + 1) /\ Newer(<< <<Added>> >>, disk)
    BY AddedInOrder
  <2> QED BY <1>0, <2>1, <2>2, <2>3, WriteStep
<1>2. CASE SendNotification
  BY <1>2, <1>a, AppendStep DEF SendNotification, OnDisk, Phases
<1>3. CASE Inject
  <2>1. phase' \in Phases
    BY <1>3 DEF Inject, Phases
  <2> QED BY <1>3, <1>a, <2>1, AppendStep DEF Inject, OnDisk
<1>4. ASSUME NEW kind \in {"answer", "calls"}, Respond(kind), phase' \in Phases
      PROVE  OrderInv'
  <2> DEFINE m == [n |-> last', kind |-> kind, of |-> 0]
  <2>1. last' = last + 1 /\ conv' = Append(conv, m) /\ cursor' = cursor /\ UNCHANGED <<disk, tail>>
    BY <1>4 DEF Respond, OnDisk
  <2>2. m \in Message /\ m.n = last + 1 /\ m.kind # "summary"
    BY <1>0, <1>4, <2>1 DEF Message, Kinds
  <2> HIDE DEF m
  <2> QED BY <1>4, <2>1, <2>2, AppendStep
<1>5. CASE Answer
  BY <1>4, <1>5 DEF Answer, Phases
<1>6. CASE CallTools
  BY <1>4, <1>6 DEF CallTools, Phases
<1>7. CASE Results
  <2> DEFINE m == [n |-> last', kind |-> "results", of |-> last]
  <2>1. /\ last' = last + 1 /\ conv' = Append(conv, m) /\ cursor' = cursor
        /\ UNCHANGED <<disk, tail>> /\ phase' \in Phases
    BY <1>7 DEF Results, OnDisk, Phases
  <2>2. m \in Message /\ m.n = last + 1 /\ m.kind # "summary"
    BY <1>0, <2>1 DEF Message, Kinds
  <2> HIDE DEF m
  <2> QED BY <2>1, <2>2, AppendStep
<1>8. ASSUME NEW next \in Phases, GoesOn(next) PROVE OrderInv'
  BY <1>8, <1>a, AppendStep DEF GoesOn, OnDisk
<1>9. CASE CutOff \/ Refused
  BY <1>8, <1>9 DEF CutOff, Refused, Phases
<1>10. CASE TurnComplete \/ LoopComplete
  <2>1. Flush /\ phase' \in Phases
    BY <1>10 DEF TurnComplete, LoopComplete, Phases
  <2>2. Log(Unflushed, last) /\ Newer(Unflushed, disk)
    BY UnflushedInOrder
  <2>3. Write(Unflushed) /\ conv' = conv /\ last' = last /\ cursor' = Len(conv')
    BY <2>1 DEF Flush
  <2> QED BY <1>0, <2>1, <2>2, <2>3, WriteStep
<1>11. CASE Stop
  <2>1. phase' \in Phases /\ conv' = conv /\ last' = last /\ cursor' = Len(conv')
        /\ UNCHANGED <<disk, tail>>
    BY <1>11 DEF Stop, OnDisk, Phases
  <2> QED BY <1>0, <2>1, ReloadStep DEF OrderInv
<1>12. ASSUME NEW k \in Cuts, Compact(k) PROVE OrderInv'
  <2>1. /\ phase' \in Phases /\ conv' = Compacted(k) /\ last' = last
        /\ cursor' = Len(conv') /\ Write(<<Compacted(k)>>)
    BY <1>12 DEF Compact, Boundary, Phases
  <2>2. Chat(Compacted(k), last) /\ Log(<<Compacted(k)>>, last) /\ Newer(<<Compacted(k)>>, disk)
    BY CompactedInOrder
  <2> QED BY <1>0, <2>1, <2>2, WriteStep
<1>13. CASE Crash
  <2>1. /\ last' = last /\ conv' = <<>> /\ cursor' = 0 /\ phase' \in Phases
        /\ UNCHANGED <<disk, tail>>
    BY <1>13 DEF Crash, Ends, Phases
  <2>2. Chat(conv', last') /\ cursor' = Len(conv')
    BY <2>1, EmptyChat
  <2> QED BY <1>0, <2>1, <2>2, ReloadStep DEF OrderInv
<1>14. CASE CrashWriting
  <2>1. /\ last' = last + 1 /\ conv' = <<>> /\ cursor' = 0 /\ phase' \in Phases
    BY <1>14 DEF CrashWriting, Ends, Phases
  <2>2. PICK lines \in Writes : WriteCut(lines)
    BY <1>14 DEF CrashWriting
  <2>3. Log(lines, last + 1) /\ Newer(lines, disk)
    <3>1. CASE lines = << <<Added>> >>
      BY <3>1, AddedInOrder
    <3>2. CASE lines = Unflushed
      BY <1>0, <3>2, UnflushedInOrder, Raised
    <3>3. CASE \E k \in Cuts : lines = <<Compacted(k)>>
      BY <1>0, <3>3, CompactedInOrder, Raised
    <3> QED BY <2>2, <3>1, <3>2, <3>3 DEF Writes, Boundary
  <2>4. Log(disk, last + 1)
    BY <1>0, Raised DEF OrderInv
  <2>5. /\ Log(Front(disk), last + 1)
        /\ \A k \in 0..Len(lines) : Log(After(SubSeq(lines, 1, k)), last + 1)
    BY <1>0, <2>3, <2>4, WritingInOrder
  <2>6. Log(disk', last + 1)
    BY <2>2, <2>5 DEF WriteCut
  <2>7. tail' \in {"ended", "torn", "whole", "split"}
    BY <2>2 DEF WriteCut, OrderInv
  <2>8. Chat(conv', last') /\ cursor' = Len(conv')
    BY <2>1, EmptyChat
  <2> QED BY <1>0, <2>1, <2>6, <2>7, <2>8, ReloadStep
<1>15. CASE Resume
  <2>1. /\ last' = last /\ conv' = Restored /\ cursor' = Len(conv') /\ phase' \in Phases
        /\ UNCHANGED <<disk, tail>>
    BY <1>15 DEF Resume, Phases
  <2>2. Chat(conv', last')
    BY <1>0, <2>1, RestoredIsChat DEF OrderInv
  <2> QED BY <1>0, <2>1, <2>2, ReloadStep DEF OrderInv
<1>16. CASE UNCHANGED vars
  BY <1>16 DEF vars, OrderInv
<1> QED BY <1>1, <1>2, <1>3, <1>5, <1>6, <1>7, <1>9, <1>10, <1>11, <1>12, <1>13, <1>14,
           <1>15, <1>16 DEF Next

(* Log and memory are in order in every reachable state.                   *)
LEMMA OrderAlways == Spec => []OrderInv
<1> QED BY OrderInit, OrderStep, PTL DEF Spec

(* Wherever the process was killed, resume restores the messages in their  *)
(* order and none of them twice.                                           *)
THEOREM RestoresInOrder == Spec => []RestoredInOrder
<1>1. OrderInv => RestoredInOrder
  BY RestoredIsChat DEF OrderInv, RestoredInOrder, Chat
<1> QED BY <1>1, OrderAlways, PTL

(* The first message of each line is among the messages.                   *)
LEMMA FirstsAmongMessages ==
    ASSUME NEW lines, NEW b \in Nat, Single(lines, b), NEW j \in DOMAIN lines
    PROVE  \E k \in DOMAIN Messages(lines) : Messages(lines)[k] = lines[j][1]
<1>0. lines \in Seq(Seq(Message))
  BY DEF Single, Log
<1>1. lines # <<>> /\ DOMAIN lines = 1..Len(lines)
  BY <1>0
<1>2. PICK h, n \in Nat \ {0} :
          /\ h = Len(lines[1]) /\ n = Len(lines)
          /\ DOMAIN Messages(lines) = 1..(h + n - 1)
          /\ \A k \in 1..h : Messages(lines)[k] = lines[1][k]
          /\ \A i \in 1..(n - 1) : Messages(lines)[h + i] = lines[i + 1][1]
  BY <1>1, MessagesAre
<1>3. CASE j = 1
  <2>1. 1 \in 1..h /\ 1 \in 1..(h + n - 1)
    OBVIOUS
  <2>2. Messages(lines)[1] = lines[j][1]
    BY <1>2, <1>3, <2>1
  <2> QED BY <1>2, <2>1, <2>2
<1>4. CASE j # 1
  <2> DEFINE i == j - 1
  <2> DEFINE k == h + i
  <2>0. j \in 1..n
    BY <1>1, <1>2
  <2>1. i \in 1..(n - 1) /\ i + 1 = j /\ k \in 1..(h + n - 1)
    BY <1>4, <2>0
  <2> HIDE DEF i
  <2>2. Messages(lines)[k] = lines[i + 1][1]
    BY <1>2, <2>1, Zenon
  <2>3. k \in DOMAIN Messages(lines) /\ Messages(lines)[k] = lines[j][1]
    BY <1>2, <2>1, <2>2, Zenon
  <2> QED BY <2>3, Zenon
<1> QED BY <1>3, <1>4

(* A call in a line of its own that is restored lies in the lines taken    *)
(* for valid, and so does its result.                                      *)
LEMMA AnsweredFromOrder == OrderInv => RestoredAnswered
<1> SUFFICES ASSUME OrderInv, NEW i \in DOMAIN Replayed, Replayed[i][1].kind = "calls",
                    Replayed[i][1].n \in Numbers(Restored)
             PROVE  \E j \in DOMAIN Restored : Restored[j].of = Replayed[i][1].n
  BY DEF RestoredAnswered
<1> DEFINE r == Replayed
<1> DEFINE v == Valid(r)
<1> DEFINE s == SubSeq(r, 1, v)
<1> DEFINE c == r[i][1].n
<1>0. last \in Nat /\ Log(disk, last)
  BY DEF OrderInv
<1>1. Single(r, last)
  BY <1>0, ReplayIsSingle, ReplayedIsReplay
<1>2. Len(r) \in Nat /\ DOMAIN r = 1..Len(r) /\ Log(r, last)
  BY <1>1 DEF Single, Log
<1>3. v \in 0..Len(r) /\ (v # 0 => Waiting(r, v) = {})
  BY <1>2, ValidIs
<1>4. /\ Single(s, last) /\ s \in Seq(Seq(Message)) /\ Len(s) = v
      /\ \A j \in 1..v : s[j] = r[j]
  BY <1>0, <1>1, <1>3, BeginningIsSingle
<1>5. Restored = Messages(s)
  BY DEF Restored
<1>6. r[i][1].kind = "calls" /\ i \in DOMAIN r /\ c \in Numbers(Messages(s))
  BY <1>5
<1> HIDE DEF r, v, s, c
<1>7. DOMAIN s = 1..v
  BY <1>3, <1>4
<1>8. s # <<>> /\ v # 0
  <2>1. Messages(<<>>) = <<>> /\ DOMAIN <<>> = {}
    BY DEF Messages
  <2>2. s # <<>>
    BY <1>6, <2>1 DEF Numbers
  <2> QED BY <1>4, <2>2, EmptySeq
<1>9. PICK k \in DOMAIN Messages(s) : Messages(s)[k].n = c
  BY <1>6 DEF Numbers
<1>10. Plain(r[i])
  BY <1>6 DEF Plain
<1>11. \A x \in DOMAIN r : DOMAIN r[x] \subseteq Nat /\ 1 \in DOMAIN r[x]
       /\ \A y \in DOMAIN r[x] : r[x][y].n \in Nat
  <2> TAKE x \in DOMAIN r
  <2>1. r[x] \in Seq(Message) /\ r[x] # <<>>
    BY <1>2 DEF Log, Line, Chat
  <2>2. Len(r[x]) \in Nat \ {0}
    BY <2>1, EmptySeq
  <2>3. DOMAIN r[x] = 1..Len(r[x])
    BY <2>1
  <2>4. \A y \in DOMAIN r[x] : r[x][y] \in Message
    BY <2>1
  <2>5. \A y \in DOMAIN r[x] : r[x][y].n \in Nat
    BY <2>4 DEF Message
  <2> QED BY <2>2, <2>3, <2>5
<1>12. i \in 1..v
  <2>0. 1 \in 1..v /\ 1 \in DOMAIN r /\ s[1] = r[1]
    BY <1>2, <1>3, <1>4, <1>8
  <2>1. CASE k \in DOMAIN s[1] /\ Messages(s)[k] = s[1][k]
    <3>1. r[1][k].n = c /\ k \in DOMAIN r[1]
      BY <1>9, <2>0, <2>1
    <3>2. ~(1 < i)
      <4>1. 1 < i => r[1][k].n < r[i][1].n
        BY <1>2, <1>6, <1>10, <2>0, <3>1 DEF Log
      <4> QED BY <1>11, <2>0, <3>1, <4>1 DEF c
    <3> QED BY <1>2, <1>3, <1>6, <1>8, <3>2
  <2>2. CASE \E j \in DOMAIN s : j > 1 /\ Messages(s)[k] = s[j][1]
    <3>1. PICK j \in DOMAIN s : j > 1 /\ Messages(s)[k] = s[j][1]
      BY <2>2
    <3>2. j \in 1..v /\ j \in DOMAIN r /\ r[j][1].n = c
      BY <1>2, <1>3, <1>4, <1>7, <1>9, <3>1
    <3>3. Plain(r[j])
      <4>1. j \in 2..Len(r)
        BY <1>2, <3>1, <3>2
      <4> QED BY <1>1, <4>1 DEF Single
    <3>4. ~(j < i)
      <4>1. j < i => r[j][1].n < r[i][1].n
        BY <1>2, <1>6, <1>10, <1>11, <3>2 DEF Log
      <4> QED BY <1>6, <1>11, <3>2, <4>1 DEF c
    <3> QED BY <1>2, <1>3, <1>6, <3>2, <3>4
  <2>3. \/ k \in DOMAIN s[1] /\ Messages(s)[k] = s[1][k]
        \/ \E j \in DOMAIN s : j > 1 /\ Messages(s)[k] = s[j][1]
    <3>1. \/ k \in DOMAIN s[1] /\ Messages(s)[k] = s[1][k]
          \/ \E j \in DOMAIN s : /\ j > 1 /\ k = Len(s[1]) + j - 1
                                /\ Messages(s)[k] = s[j][1]
      <4>1. last \in Nat /\ Single(s, last) /\ s # <<>>
        BY <1>0, <1>4, <1>8
      <4> QED BY <4>1, MessagesFrom
    <3> QED BY <3>1
  <2> QED BY <2>1, <2>2, <2>3
<1>13. PICK j \in 1..v : r[j][1].of = c
  <2>1. c \in {r[x][1].n : x \in {y \in 1..v : r[y][1].kind = "calls"}}
    BY <1>6, <1>12 DEF c
  <2>2. Waiting(r, v) = {}
    BY <1>3, <1>8
  <2>3. c \in {r[x][1].of : x \in 1..v}
    BY <2>1, <2>2 DEF Waiting
  <2> QED BY <2>3
<1>14. \E m \in DOMAIN Messages(s) : Messages(s)[m] = s[j][1]
  BY <1>0, <1>4, <1>7, FirstsAmongMessages
<1> QED BY <1>4, <1>5, <1>13, <1>14 DEF c, r

(* Wherever the process was killed, a call that resume restores from a     *)
(* line of its own is restored with its result.                            *)
THEOREM RestoredCallsAnswered == Spec => []RestoredAnswered
<1> QED BY AnsweredFromOrder, OrderAlways, PTL

-----------------------------------------------------------------------------
(* While no crash has hit a write.                                         *)

Items(s) == {s[i] : i \in DOMAIN s}

(* All messages of the lines.                                              *)
Content(lines) == UNION {Items(lines[i]) : i \in DOMAIN lines}

(* Every call in a line of its own has its result in the lines.            *)
Answered(lines) ==
    \A i \in DOMAIN lines : lines[i][1].kind = "calls" =>
        \E j \in DOMAIN lines : lines[j][1].of = lines[i][1].n

(* The messages before the cursor that are in the file.                    *)
Saved(msgs, k, out) == {m \in {msgs[i] : i \in 1..k} : m.n \notin out}

(* What is not written yet will be, with the results of its calls; the     *)
(* last message of a run that acts is the call it waits for.               *)
PendingInv ==
    /\ unsaved \subseteq 1..last
    /\ phase = "idle" => cursor = Len(conv)
    /\ phase = "down" => unsaved = {}
    /\ \A i \in (cursor + 1)..Len(conv) : conv[i].n \notin unsaved
    /\ \A i \in (cursor + 1)..Len(conv) : conv[i].kind = "calls" =>
           \/ \E j \in (cursor + 1)..Len(conv) : conv[j].of = conv[i].n
           \/ phase = "acting" /\ i = Len(conv) /\ conv[i].n = last

MirrorInv ==
    ~damaged =>
        /\ tail = "ended" /\ Answered(Replay(disk))
        /\ phase # "down" => Content(Replay(disk)) = Saved(conv, cursor, unsaved)

(* The messages of lines in order are all there is in them.                *)
LEMMA MessagesAreContent ==
    ASSUME NEW lines, NEW b \in Nat, Single(lines, b)
    PROVE  Items(Messages(lines)) = Content(lines)
<1> DEFINE out == Messages(lines)
<1>0. lines \in Seq(Seq(Message)) /\ Len(lines) \in Nat /\ DOMAIN lines = 1..Len(lines)
  BY DEF Single, Log
<1>1. CASE lines = <<>>
  <2>1. DOMAIN <<>> = {} /\ out = <<>>
    BY <1>1 DEF Messages
  <2> QED BY <1>1, <2>1 DEF Items, Content
<1>2. CASE lines # <<>>
  <2>1. PICK h, n \in Nat \ {0} :
            /\ h = Len(lines[1]) /\ n = Len(lines)
            /\ DOMAIN out = 1..(h + n - 1)
            /\ \A k \in 1..h : out[k] = lines[1][k]
    BY <1>2, MessagesAre
  <2>2. 1 \in DOMAIN lines /\ lines[1] \in Seq(Message)
    BY <1>0, <2>1
  <2>3. DOMAIN lines[1] = 1..h /\ \A k \in 1..h : k \in 1..(h + n - 1)
    BY <2>1, <2>2
  <2>4. ASSUME NEW k \in DOMAIN out
        PROVE  out[k] \in Content(lines)
    <3>1. \/ k \in DOMAIN lines[1] /\ out[k] = lines[1][k]
          \/ \E i \in DOMAIN lines : i > 1 /\ out[k] = lines[i][1]
      <4>1. \/ k \in DOMAIN lines[1] /\ out[k] = lines[1][k]
            \/ \E i \in DOMAIN lines : /\ i > 1 /\ k = Len(lines[1]) + i - 1
                                       /\ out[k] = lines[i][1]
        BY <1>2, MessagesFrom
      <4> QED BY <4>1
    <3>2. \A i \in DOMAIN lines : 1 \in DOMAIN lines[i]
      <4> TAKE i \in DOMAIN lines
      <4>1. lines[i] \in Seq(Message) /\ lines[i] # <<>>
        BY <1>0 DEF Single, Log, Line
      <4>2. Len(lines[i]) \in Nat \ {0}
        BY <4>1, EmptySeq
      <4> QED BY <4>1, <4>2
    <3> HIDE DEF out
    <3> QED BY <2>2, <3>1, <3>2 DEF Content, Items
  <2>5. ASSUME NEW i \in DOMAIN lines, NEW k \in DOMAIN lines[i]
        PROVE  lines[i][k] \in Items(out)
    <3>1. CASE i = 1
      BY <2>1, <2>3, <3>1 DEF Items
    <3>2. CASE i # 1
      <4>1. i \in 2..Len(lines)
        BY <1>0, <3>2
      <4>2. Len(lines[i]) = 1 /\ lines[i] \in Seq(Message)
        BY <1>0, <4>1 DEF Single, Log, Line
      <4>3. k = 1
        BY <4>2
      <4>4. \E x \in DOMAIN out : out[x] = lines[i][1]
        BY FirstsAmongMessages
      <4> HIDE DEF out
      <4> QED BY <4>3, <4>4 DEF Items
    <3> QED BY <3>1, <3>2
  <2> HIDE DEF out
  <2>6. Items(out) \subseteq Content(lines)
    BY <2>4 DEF Items
  <2>7. Content(lines) \subseteq Items(out)
    BY <2>5 DEF Content, Items
  <2> QED BY <2>6, <2>7 DEF out
<1> QED BY <1>1, <1>2

(* Joining files: every line is one of the first or one of the second.     *)
LEMMA JoinedLines ==
    ASSUME NEW lines, NEW more, NEW b \in Nat, Log(lines, b), Log(more, b)
    PROVE  /\ lines \o more \in Seq(Seq(Message))
           /\ \A i \in DOMAIN (lines \o more) :
                  \/ i \in DOMAIN lines /\ (lines \o more)[i] = lines[i]
                  \/ \E j \in DOMAIN more : (lines \o more)[i] = more[j]
           /\ \A i \in DOMAIN lines :
                  i \in DOMAIN (lines \o more) /\ (lines \o more)[i] = lines[i]
           /\ \A j \in DOMAIN more :
                  \E i \in DOMAIN (lines \o more) : (lines \o more)[i] = more[j]
<1> DEFINE all == lines \o more
<1> DEFINE n == Len(lines)
<1> DEFINE m == Len(more)
<1>0. lines \in Seq(Seq(Message)) /\ more \in Seq(Seq(Message))
  BY DEF Log
<1>1. n \in Nat /\ m \in Nat /\ DOMAIN lines = 1..n /\ DOMAIN more = 1..m
  BY <1>0
<1>2. /\ all \in Seq(Seq(Message)) /\ Len(all) = n + m
      /\ \A i \in 1..(n + m) : all[i] = IF i <= n THEN lines[i] ELSE more[i - n]
  BY <1>0, ConcatProperties
<1>3. DOMAIN all = 1..(n + m)
  BY <1>1, <1>2
<1> HIDE DEF all, n, m
<1>4. ASSUME NEW i \in DOMAIN all
      PROVE  \/ i \in DOMAIN lines /\ all[i] = lines[i]
             \/ \E j \in DOMAIN more : all[i] = more[j]
  <2>1. CASE i <= n
    BY <1>1, <1>2, <1>3, <2>1
  <2>2. CASE ~(i <= n)
    <3> DEFINE j == i - n
    <3>1. j \in 1..m /\ i = n + j
      BY <1>1, <1>3, <2>2
    <3>2. all[i] = more[j]
      BY <1>2, <1>3, <2>2
    <3> QED BY <1>1, <3>1, <3>2
  <2> QED BY <2>1, <2>2
<1>5. ASSUME NEW i \in DOMAIN lines
      PROVE  i \in DOMAIN all /\ all[i] = lines[i]
  <2>1. i \in 1..(n + m) /\ i <= n
    BY <1>1
  <2> QED BY <1>2, <1>3, <2>1
<1>6. ASSUME NEW j \in DOMAIN more
      PROVE  \E i \in DOMAIN all : all[i] = more[j]
  <2> DEFINE i == n + j
  <2>1. i \in 1..(n + m) /\ ~(i <= n) /\ i - n = j
    BY <1>1
  <2> HIDE DEF i
  <2>2. all[i] = IF i <= n THEN lines[i] ELSE more[i - n]
    BY <1>2, <2>1, Zenon
  <2>3. all[i] = more[j]
    BY <2>1, <2>2, Zenon
  <2> QED BY <1>3, <2>1, <2>3
<1> QED BY <1>2, <1>4, <1>5, <1>6 DEF all

(* Joining files joins what is in them, and answers stay answers.          *)
LEMMA ContentJoined ==
    ASSUME NEW lines, NEW more, NEW b \in Nat, Log(lines, b), Log(more, b)
    PROVE  /\ Content(lines \o more) = Content(lines) \cup Content(more)
           /\ Answered(lines) /\ Answered(more) => Answered(lines \o more)
<1> DEFINE all == lines \o more
<1>1. /\ \A i \in DOMAIN all :
             \/ i \in DOMAIN lines /\ all[i] = lines[i]
             \/ \E j \in DOMAIN more : all[i] = more[j]
      /\ \A i \in DOMAIN lines : i \in DOMAIN all /\ all[i] = lines[i]
      /\ \A j \in DOMAIN more : \E i \in DOMAIN all : all[i] = more[j]
  BY JoinedLines, SMTT(30)
<1> HIDE DEF all
<1>2. Content(all) = Content(lines) \cup Content(more)
  BY <1>1 DEF Content
<1>3. Answered(lines) /\ Answered(more) => Answered(all)
  BY <1>1 DEF Answered
<1> QED BY <1>2, <1>3 DEF all

(* What is replayed goes on with plain lines that are added.               *)
LEMMA ReplayAppended ==
    ASSUME NEW lines, NEW more, NEW b \in Nat, Log(lines, b), Log(more, b),
           \A j \in DOMAIN more : Plain(more[j])
    PROVE  Replay(lines \o more) = Replay(lines) \o more
<1> DEFINE all == lines \o more
<1> DEFINE n == Len(lines)
<1> DEFINE m == Len(more)
<1> DEFINE B == {i \in DOMAIN lines : ~Plain(lines[i])}
<1>0. /\ lines \in Seq(Seq(Message)) /\ more \in Seq(Seq(Message))
      /\ n \in Nat /\ m \in Nat /\ DOMAIN lines = 1..n
  BY DEF Log
<1>1. /\ \A i \in DOMAIN all :
             \/ i \in DOMAIN lines /\ all[i] = lines[i]
             \/ \E j \in DOMAIN more : all[i] = more[j]
      /\ \A i \in DOMAIN lines : i \in DOMAIN all /\ all[i] = lines[i]
  BY JoinedLines
<1>2. {i \in DOMAIN all : ~Plain(all[i])} = B
  <2> HIDE DEF all
  <2> QED BY <1>1
<1>3. CASE B = {}
  BY <1>2, <1>3 DEF Replay
<1>4. CASE B # {}
  <2> DEFINE p == Largest(B)
  <2>1. p \in 1..n
    <3>1. B \subseteq 0..n
      BY <1>0
    <3>2. p \in B
      BY <1>0, <1>4, <3>1, LargestIs
    <3> QED BY <1>0, <3>2
  <2>2. Replay(lines) = SubSeq(lines, p, n)
    BY <1>4 DEF Replay, From
  <2>3. Replay(all) = SubSeq(all, p, Len(all))
    BY <1>2, <1>4 DEF Replay, From
  <2> DEFINE q == Len(all)
  <2>4. /\ all \in Seq(Seq(Message)) /\ q = n + m /\ q \in Nat
        /\ \A i \in 1..q : all[i] = IF i <= n THEN lines[i] ELSE more[i - n]
    BY <1>0, ConcatProperties
  <2> DEFINE s == SubSeq(lines, p, n)
  <2> DEFINE t == SubSeq(all, p, q)
  <2> DEFINE k == n - p + 1
  <2> DEFINE l == q - p + 1
  <2> HIDE DEF p, n, m, all, B
  <2>5. s \in Seq(Seq(Message)) /\ Len(s) = k /\ \A i \in 1..k : s[i] = lines[p + i - 1]
    <3>1. p <= n /\ n <= Len(lines) /\ p \in Nat \ {0}
      BY <1>0, <2>1 DEF n
    <3> QED BY <1>0, <3>1, PartIs
  <2>6. t \in Seq(Seq(Message)) /\ Len(t) = l /\ \A i \in 1..l : t[i] = all[p + i - 1]
    <3>1. p <= q /\ q <= Len(all) /\ p \in Nat \ {0}
      BY <1>0, <2>1, <2>4
    <3> QED BY <2>4, <3>1, PartIs
  <2>7. k \in Nat /\ k + m = l /\ l \in Nat
    BY <1>0, <2>1, <2>4
  <2> HIDE DEF s, t, q
  <2>8. /\ s \o more \in Seq(Seq(Message)) /\ Len(s \o more) = l
        /\ \A i \in 1..l : (s \o more)[i] = IF i <= k THEN s[i] ELSE more[i - k]
    <3>1. m = Len(more) /\ Len(s) + Len(more) = l /\ Len(s) = k
      BY <2>5, <2>7 DEF m
    <3> HIDE DEF k, l
    <3>2. /\ s \o more \in Seq(Seq(Message)) /\ Len(s \o more) = Len(s) + Len(more)
          /\ \A i \in 1..(Len(s) + Len(more)) :
                 (s \o more)[i] = IF i <= Len(s) THEN s[i] ELSE more[i - Len(s)]
      BY <1>0, <2>5, ConcatProperties
    <3> QED BY <3>1, <3>2
  <2>9. ASSUME NEW i \in 1..l
        PROVE  t[i] = (s \o more)[i]
    <3> DEFINE x == p + i - 1
    <3>1. x \in 1..q /\ (i <= k => i \in 1..k) /\ (i <= k <=> x <= n) /\ x - n = i - k
      BY <1>0, <2>1, <2>4
    <3>2. t[i] = all[x] /\ (i \in 1..k => s[i] = lines[x])
      BY <2>5, <2>6
    <3> HIDE DEF x, k, l
    <3>3. all[x] = IF x <= n THEN lines[x] ELSE more[x - n]
      BY <2>4, <3>1, Zenon
    <3>4. (s \o more)[i] = IF i <= k THEN s[i] ELSE more[i - k]
      BY <2>8, Zenon
    <3> QED BY <3>1, <3>2, <3>3, <3>4, Zenon
  <2> HIDE DEF k, l
  <2>10. Len(t) = Len(s \o more) /\ DOMAIN t = 1..l /\ Len(t) = l
    BY <2>6, <2>7, <2>8
  <2>11. t = s \o more
    BY <2>6, <2>8, <2>9, <2>10, SeqEqual
  <2> QED BY <2>2, <2>3, <2>11 DEF s, t, all, q
<1> QED BY <1>3, <1>4

(* After a boundary, it alone is replayed.                                 *)
LEMMA ReplayBoundary ==
    ASSUME NEW lines, NEW b \in Nat, Log(lines, b), NEW line \in Seq(Message), ~Plain(line)
    PROVE  Replay(Append(lines, line)) = <<line>>
<1> DEFINE all == Append(lines, line)
<1> DEFINE n == Len(lines)
<1> DEFINE B == {i \in DOMAIN all : ~Plain(all[i])}
<1>0. lines \in Seq(Seq(Message)) /\ n \in Nat
  BY DEF Log
<1>1. all \in Seq(Seq(Message)) /\ Len(all) = n + 1 /\ all[n + 1] = line
  BY <1>0, AppendProperties
<1>2. DOMAIN all = 1..(n + 1)
  BY <1>0, <1>1
<1> HIDE DEF all, n
<1>3. n + 1 \in B /\ B \subseteq 0..(n + 1)
  BY <1>0, <1>1, <1>2
<1>4. Largest(B) \in B /\ n + 1 <= Largest(B)
  <2>1. n + 1 \in Nat /\ B # {}
    BY <1>0, <1>3
  <2> HIDE DEF B
  <2> QED BY <1>3, <2>1, LargestIs
<1>5. Largest(B) = n + 1
  BY <1>0, <1>2, <1>4
<1>6. Replay(all) = SubSeq(all, n + 1, n + 1)
  <2>1. B # {}
    BY <1>3
  <2> QED BY <1>1, <1>5, <2>1 DEF Replay, From
<1> DEFINE s == SubSeq(all, n + 1, n + 1)
<1>7. s \in Seq(Seq(Message)) /\ Len(s) = 1 /\ s[1] = line
  <2>1. n + 1 \in Nat \ {0} /\ n + 1 <= n + 1 /\ n + 1 <= Len(all) /\ (n + 1) - (n + 1) + 1 = 1
    BY <1>0, <1>1
  <2>2. Len(s) = 1 /\ s \in Seq(Seq(Message)) /\ \A i \in 1..1 : s[i] = all[n + 1 + i - 1]
    BY <1>1, <2>1, PartIs
  <2>3. n + 1 + 1 - 1 = n + 1 /\ 1 \in 1..1
    BY <1>0
  <2> HIDE DEF s
  <2>4. s[1] = all[n + 1 + 1 - 1]
    BY <2>2, <2>3
  <2> QED BY <1>1, <2>2, <2>3, <2>4
<1> HIDE DEF s
<1>8. s = <<line>>
  BY <1>7
<1> QED BY <1>6, <1>8 DEF s, all

(* What lies behind the cursor.                                            *)
LEMMA BehindIs ==
    ASSUME conv \in Seq(Message), cursor \in 0..Len(conv)
    PROVE  Items(From(conv, cursor + 1)) = {conv[i] : i \in (cursor + 1)..Len(conv)}
<1> DEFINE s == From(conv, cursor + 1)
<1> DEFINE n == Len(conv)
<1> DEFINE c == cursor
<1>0. n \in Nat /\ c \in Nat /\ c <= n
  OBVIOUS
<1>1. CASE c = n
  <2>1. s = <<>>
    BY <1>0, <1>1, SubSeqEmpty DEF From
  <2>2. (c + 1)..n = {}
    BY <1>0, <1>1
  <2>3. Items(<<>>) = {}
    BY DEF Items
  <2> QED BY <2>1, <2>2, <2>3
<1>2. CASE c # n
  <2> DEFINE p == c + 1
  <2> DEFINE l == n - c
  <2>1. p \in Nat \ {0} /\ p <= n /\ n - p + 1 = l /\ l \in Nat
    BY <1>0, <1>2
  <2>2. s = SubSeq(conv, p, n)
    BY DEF From
  <2> HIDE DEF s
  <2>3. s \in Seq(Message) /\ Len(s) = l /\ \A i \in 1..l : s[i] = conv[p + i - 1]
    BY <2>1, <2>2, PartIs
  <2>4. DOMAIN s = 1..l
    BY <2>1, <2>3
  <2>5. ASSUME NEW i \in p..n PROVE conv[i] \in Items(s)
    <3> DEFINE j == i - p + 1
    <3>1. j \in 1..l /\ p + j - 1 = i
      BY <1>0, <2>1
    <3> HIDE DEF j
    <3>2. s[j] = conv[i]
      BY <2>3, <3>1
    <3> QED BY <2>4, <3>1, <3>2 DEF Items
  <2>6. \A i \in 1..l : p + i - 1 \in p..n
    BY <1>0, <2>1
  <2>7. Items(s) \subseteq {conv[i] : i \in p..n}
    BY <2>3, <2>4, <2>6 DEF Items
  <2>8. {conv[i] : i \in p..n} \subseteq Items(s)
    BY <2>5
  <2>9. Items(s) = {conv[i] : i \in p..n}
    BY <2>7, <2>8, Zenon
  <2> QED BY <2>9 DEF s
<1> QED BY <1>1, <1>2

(* Plain lines written to a whole file.                                    *)
LEMMA WrittenPlain ==
    ASSUME NEW lines, NEW b \in Nat, Log(disk, b), Log(lines, b), tail = "ended",
           \A j \in DOMAIN lines : Plain(lines[j]), Write(lines)
    PROVE  /\ tail' = "ended"
           /\ Content(Replay(disk')) = Content(Replay(disk)) \cup Content(lines)
           /\ Answered(Replay(disk)) /\ Answered(lines) => Answered(Replay(disk'))
<1>0. disk \in Seq(Seq(Message)) /\ lines \in Seq(Seq(Message))
  BY DEF Log
<1>1. disk' = disk \o lines /\ tail' = "ended"
  <2>1. disk \o <<>> = disk
    BY <1>0, ConcatEmptySeq
  <2> QED BY <2>1 DEF Write, After
<1>2. Replay(disk') = Replay(disk) \o lines
  BY <1>1, ReplayAppended
<1>3. Log(Replay(disk), b)
  BY ReplayIsSingle DEF Single
<1>4. /\ Content(Replay(disk) \o lines) = Content(Replay(disk)) \cup Content(lines)
      /\ Answered(Replay(disk)) /\ Answered(lines) => Answered(Replay(disk) \o lines)
  BY <1>3, ContentJoined
<1> QED BY <1>1, <1>2, <1>4

(* A boundary written to a whole file.                                     *)
LEMMA WrittenBoundary ==
    ASSUME NEW line \in Seq(Message), NEW b \in Nat, Log(disk, b), tail = "ended",
           ~Plain(line), Write(<<line>>)
    PROVE  /\ tail' = "ended" /\ Replay(disk') = <<line>>
           /\ Content(Replay(disk')) = Items(line)
           /\ Answered(Replay(disk'))
<1>0. disk \in Seq(Seq(Message))
  BY DEF Log
<1>1. disk' = Append(disk, line) /\ tail' = "ended"
  <2>1. <<line>> # <<>>
    OBVIOUS
  <2>2. Append(disk, line) = disk \o <<line>>
    BY <1>0, AppendIsConcat
  <2> QED BY <2>1, <2>2 DEF Write, After
<1>2. Replay(disk') = <<line>>
  BY <1>1, ReplayBoundary
<1>3. DOMAIN <<line>> = {1} /\ <<line>>[1] = line
  OBVIOUS
<1>4. Content(<<line>>) = Items(line)
  BY <1>3 DEF Content
<1>5. Answered(<<line>>)
  BY <1>3 DEF Answered, Plain
<1> QED BY <1>1, <1>2, <1>4, <1>5

(* Where every call is answered, all that is replayed is taken for valid.  *)
LEMMA RestoredWhole ==
    ASSUME last \in Nat, Log(disk, last), Answered(Replay(disk))
    PROVE  Restored = Messages(Replay(disk)) /\ Items(Restored) = Content(Replay(disk))
<1> DEFINE r == Replay(disk)
<1>1. Single(r, last)
  BY ReplayIsSingle
<1>2. r \in Seq(Seq(Message)) /\ Len(r) \in Nat /\ DOMAIN r = 1..Len(r)
  BY <1>1 DEF Single, Log
<1>3. Answered(r)
  OBVIOUS
<1>4. Restored = Messages(SubSeq(r, 1, Valid(r)))
  BY ReplayedIsReplay DEF Restored
<1> HIDE DEF r
<1>5. Valid(r) = Len(r)
  <2>1. Valid(r) \in 0..Len(r)
    BY <1>2, ValidIs
  <2>2. CASE Len(r) = 0
    BY <2>1, <2>2
  <2>3. CASE Len(r) # 0
    <3>1. Len(r) \in DOMAIN r
      BY <1>2, <2>3
    <3> DEFINE n == Len(r)
    <3>a. \A j \in 1..n : r[j][1].kind = "calls" =>
             r[j][1].n \in {r[k][1].of : k \in 1..n}
      BY <1>2, <1>3 DEF Answered
    <3>b. Waiting(r, n) = {}
      <4> HIDE DEF n
      <4> QED BY <3>a DEF Waiting
    <3>2. Waiting(r, Len(r)) = {}
      BY <3>b
    <3>3. Len(r) <= Valid(r)
      BY <1>2, <3>1, <3>2, ValidIs
    <3> QED BY <1>2, <2>1, <3>3
  <2> QED BY <2>2, <2>3
<1>6. SubSeq(r, 1, Len(r)) = r
  BY <1>2, SubSeqFull
<1>7. Items(Messages(r)) = Content(r)
  BY <1>1, MessagesAreContent
<1> QED BY <1>4, <1>5, <1>6, <1>7 DEF r

-----------------------------------------------------------------------------
(* Every step keeps what is pending in order.                              *)

(* The conversation after a new message.                                   *)
LEMMA Longer ==
    ASSUME OrderInv, NEW m \in Message, m.n = last + 1, m.kind # "summary",
           conv' = Append(conv, m)
    PROVE  /\ last \in Nat /\ cursor \in 0..Len(conv)
           /\ Len(conv) \in Nat /\ Len(conv') = Len(conv) + 1
           /\ DOMAIN conv = 1..Len(conv) /\ DOMAIN conv' = 1..(Len(conv) + 1)
           /\ conv'[Len(conv) + 1] = m
           /\ \A i \in 1..Len(conv) : conv'[i] = conv[i]
<1>1. last \in Nat /\ Chat(conv, last) /\ cursor \in 0..Len(conv)
  BY DEF OrderInv
<1> QED BY <1>1, AppendedInOrder

(* A new message behind the cursor.                                        *)
LEMMA PendingAppend ==
    ASSUME OrderInv, PendingInv, NEW m \in Message, m.n = last + 1, m.kind # "summary",
           conv' = Append(conv, m), last' = last + 1, cursor' = cursor, unsaved' = unsaved,
           phase' \notin {"idle", "down"},
           m.kind = "calls" => phase' = "acting",
           phase = "acting" => m.of = last
    PROVE  PendingInv'
<1> DEFINE n == Len(conv)
<1>1. /\ last \in Nat /\ cursor \in 0..n
      /\ n \in Nat /\ Len(conv') = n + 1
      /\ conv'[n + 1] = m /\ \A i \in 1..n : conv'[i] = conv[i]
  BY Longer
<1> HIDE DEF n
<1>2. unsaved' \subseteq 1..last'
  BY <1>1 DEF PendingInv
<1>3. (cursor + 1)..(n + 1) = ((cursor + 1)..n) \cup {n + 1}
  BY <1>1
<1>4. \A i \in (cursor + 1)..n : i \in 1..n
  BY <1>1
<1>5. last + 1 \notin unsaved
  BY <1>1 DEF PendingInv
<1>6. \A i \in (cursor + 1)..n : conv'[i] = conv[i] /\ conv[i].n \notin unsaved
  BY <1>1, <1>4 DEF PendingInv, n
<1>7. \A i \in (cursor' + 1)..Len(conv') : conv'[i].n \notin unsaved'
  BY <1>1, <1>3, <1>5, <1>6
<1>8. ASSUME NEW i \in (cursor + 1)..(n + 1), conv'[i].kind = "calls"
      PROVE  \/ \E j \in (cursor + 1)..(n + 1) : conv'[j].of = conv'[i].n
             \/ phase' = "acting" /\ i = n + 1 /\ conv'[i].n = last'
  <2>1. CASE i = n + 1
    BY <1>1, <1>8, <2>1
  <2>2. CASE i \in (cursor + 1)..n
    <3>1. conv[i].kind = "calls"
      BY <1>6, <1>8, <2>2
    <3>2. CASE \E j \in (cursor + 1)..n : conv[j].of = conv[i].n
      BY <1>3, <1>6, <2>2, <3>2
    <3>3. CASE phase = "acting" /\ conv[i].n = last
      <4>1. n + 1 \in (cursor + 1)..(n + 1) /\ conv'[n + 1].of = conv'[i].n
        BY <1>1, <1>3, <1>6, <2>2, <3>3
      <4> QED BY <4>1
    <3> QED BY <2>2, <3>1, <3>2, <3>3 DEF PendingInv, n
  <2> QED BY <1>3, <2>1, <2>2
<1> QED BY <1>1, <1>2, <1>7, <1>8 DEF PendingInv

(* Nothing is left behind the cursor.                                      *)
LEMMA PendingEmpty ==
    ASSUME Len(conv') \in Nat, cursor' = Len(conv'), unsaved' \subseteq 1..last',
           phase' = "down" => unsaved' = {}
    PROVE  PendingInv'
<1>1. ~\E n \in Nat : \E i \in (n + 1)..n : TRUE
  OBVIOUS
<1>2. ~\E i \in (cursor' + 1)..Len(conv') : TRUE
  BY <1>1
<1> QED BY <1>2 DEF PendingInv

(* Nothing is pending in an empty session.                                 *)
LEMMA PendingInit == Init => PendingInv
<1>1. \A i \in (0 + 1)..0 : FALSE
  OBVIOUS
<1>2. Len(<<>>) = 0
  OBVIOUS
<1> QED BY <1>1, <1>2 DEF Init, PendingInv

(* Every step keeps the account of calls that still lack a result.         *)
LEMMA PendingStep == OrderInv /\ PendingInv /\ [Next]_vars => PendingInv'
<1> SUFFICES ASSUME OrderInv, PendingInv, [Next]_vars PROVE PendingInv'
  OBVIOUS
<1>0. /\ last \in Nat /\ last + 1 \in Nat /\ Len(conv) \in Nat /\ DOMAIN conv = 1..Len(conv)
      /\ unsaved \subseteq 1..last /\ \A u \in 1..last : u \in 1..(last + 1)
  BY DEF OrderInv, Chat, PendingInv
<1>a. Added \in Message /\ Added.n = last + 1 /\ Added.kind = "user"
  BY AddedInOrder
<1>b. OrderInv'
  BY OrderStep
<1>c. Len(conv') \in Nat
  BY <1>b DEF OrderInv, Chat
<1>1. CASE Send
  <2>1. cursor' = Len(conv') /\ last' = last + 1 /\ phase' = "top" /\ unsaved' = unsaved
    BY <1>1 DEF Send
  <2> QED BY <1>0, <1>c, <2>1, PendingEmpty
<1>2. CASE SendNotification
  <2>1. cursor' = Len(conv') /\ last' = last + 1 /\ phase' = "top" /\ unsaved' = unsaved \cup {last'}
    BY <1>2 DEF SendNotification
  <2>2. unsaved' \subseteq 1..last'
    BY <1>0, <2>1
  <2> QED BY <1>c, <2>1, <2>2, PendingEmpty
<1>3. CASE Inject
  BY <1>3, <1>a, PendingAppend DEF Inject
<1>4. ASSUME NEW kind \in {"answer", "calls"}, Respond(kind), phase = "top",
             phase' = IF kind = "calls" THEN "acting" ELSE "answered"
      PROVE  PendingInv'
  <2> DEFINE m == [n |-> last', kind |-> kind, of |-> 0]
  <2>1. last' = last + 1 /\ conv' = Append(conv, m) /\ cursor' = cursor /\ unsaved' = unsaved
    BY <1>4 DEF Respond
  <2>2. m \in Message /\ m.n = last + 1 /\ m.kind # "summary" /\ m.kind = kind
    BY <1>0, <1>4, <2>1 DEF Message, Kinds
  <2> HIDE DEF m
  <2> QED BY <1>4, <2>1, <2>2, PendingAppend
<1>5. CASE Answer
  BY <1>4, <1>5 DEF Answer
<1>6. CASE CallTools
  BY <1>4, <1>6 DEF CallTools
<1>7. CASE Results
  <2> DEFINE m == [n |-> last', kind |-> "results", of |-> last]
  <2>1. /\ last' = last + 1 /\ conv' = Append(conv, m) /\ cursor' = cursor
        /\ unsaved' = unsaved /\ phase' = "acted"
    BY <1>7 DEF Results
  <2>2. m \in Message /\ m.n = last + 1 /\ m.kind = "results" /\ m.of = last
    BY <1>0, <2>1 DEF Message, Kinds
  <2> HIDE DEF m
  <2> QED BY <2>1, <2>2, PendingAppend
<1>8. ASSUME NEW next \in {"top", "acted"}, GoesOn(next) PROVE PendingInv'
  BY <1>8, <1>a, PendingAppend DEF GoesOn
<1>9. CASE CutOff \/ Refused
  BY <1>8, <1>9 DEF CutOff, Refused
<1>10. CASE TurnComplete \/ LoopComplete
  <2>1. /\ conv' = conv /\ cursor' = Len(conv') /\ last' = last /\ unsaved' = unsaved
        /\ phase' # "down"
    BY <1>10 DEF TurnComplete, LoopComplete, Flush
  <2> QED BY <1>0, <1>c, <2>1, PendingEmpty
<1>11. CASE Stop
  <2>1. /\ conv' = conv /\ cursor' = Len(conv') /\ last' = last /\ phase' = "idle"
        /\ unsaved' = unsaved \cup Numbers(From(conv, cursor + 1))
    BY <1>11 DEF Stop
  <2>2. Numbers(From(conv, cursor + 1)) \subseteq 1..last
    <3>1. cursor \in 0..Len(conv) /\ conv \in Seq(Message)
      BY DEF OrderInv, Chat
    <3>2. \A i \in (cursor + 1)..Len(conv) : i \in 1..Len(conv)
      BY <1>0, <3>1
    <3>3. \A i \in (cursor + 1)..Len(conv) : conv[i] \in Message /\ conv[i].n <= last
      BY <1>0, <3>1, <3>2 DEF OrderInv, Chat
    <3>4. ASSUME NEW x \in Numbers(From(conv, cursor + 1))
          PROVE  x \in 1..last
      <4>1. x # 0 /\ \E i \in (cursor + 1)..Len(conv) : x = conv[i].n
        BY <3>1, BehindIs DEF Numbers, Items
      <4>2. PICK i \in (cursor + 1)..Len(conv) : x = conv[i].n
        BY <4>1
      <4>3. x \in Nat /\ x <= last
        BY <3>3, <4>2 DEF Message
      <4> QED BY <1>0, <4>1, <4>3
    <3> QED BY <3>4
  <2> QED BY <1>0, <1>c, <2>1, <2>2, PendingEmpty
<1>12. ASSUME NEW k \in Cuts, Compact(k) PROVE PendingInv'
  <2>1. /\ phase' # "down" /\ last' = last /\ cursor' = Len(conv')
        /\ unsaved' = unsaved \ Numbers(conv')
    BY <1>12 DEF Compact, Boundary
  <2> QED BY <1>0, <1>c, <2>1, PendingEmpty
<1>13. CASE Crash \/ CrashWriting
  <2>1. unsaved' = {} /\ cursor' = 0 /\ conv' = <<>>
    BY <1>13 DEF Crash, CrashWriting, Ends
  <2> QED BY <1>c, <2>1, EmptyChat, PendingEmpty
<1>14. CASE Resume
  <2>1. /\ last' = last /\ cursor' = Len(conv') /\ phase' = "idle" /\ unsaved' = unsaved
    BY <1>14 DEF Resume
  <2> QED BY <1>0, <1>c, <2>1, PendingEmpty
<1>15. CASE UNCHANGED vars
  BY <1>15 DEF vars, PendingInv
<1> QED BY <1>1, <1>2, <1>3, <1>5, <1>6, <1>7, <1>9, <1>10, <1>11, <1>12, <1>13, <1>14,
           <1>15 DEF Next

(* The account of calls without a result holds in every reachable state.   *)
LEMMA PendingAlways == Spec => []PendingInv
<1> QED BY OrderAlways, OrderInit, OrderStep, PendingInit, PendingStep, PTL DEF Spec

-----------------------------------------------------------------------------
(* Every step keeps the mirror.                                            *)

(* An empty transcript mirrors an empty conversation.                      *)
LEMMA MirrorInit == Init => MirrorInv
<1> SUFFICES ASSUME Init PROVE MirrorInv
  OBVIOUS
<1>1. disk = <<>> /\ DOMAIN <<>> = {}
  BY DEF Init
<1>2. Replay(disk) = <<>>
  BY <1>1 DEF Replay
<1>3. Answered(<<>>) /\ Content(<<>>) = {}
  BY <1>1 DEF Answered, Content
<1>4. Saved(conv, cursor, unsaved) = {}
  <2>1. cursor = 0 /\ 1..0 = {}
    BY DEF Init
  <2> QED BY <2>1 DEF Saved
<1> QED BY <1>2, <1>3, <1>4 DEF MirrorInv, Init

(* Every step keeps the transcript a mirror of what the cursor has passed. *)
LEMMA MirrorStep == OrderInv /\ PendingInv /\ MirrorInv /\ [Next]_vars => MirrorInv'
<1> SUFFICES ASSUME OrderInv, PendingInv, MirrorInv, [Next]_vars, ~damaged' PROVE MirrorInv'
  BY DEF MirrorInv
<1> DEFINE n == Len(conv)
<1>0. /\ last \in Nat /\ last + 1 \in Nat /\ last <= last + 1 /\ n \in Nat /\ DOMAIN conv = 1..n
      /\ cursor \in 0..n /\ Log(disk, last) /\ Log(disk, last + 1)
      /\ unsaved \subseteq 1..last /\ conv \in Seq(Message)
  BY Raised DEF OrderInv, Chat, PendingInv
<1>a. Added \in Message /\ Added.n = last + 1 /\ Added.kind = "user"
  BY AddedInOrder
<1>b. ~CrashWriting
  BY DEF CrashWriting
<1>c. ~damaged
  BY <1>b DEF Next, Send, SendNotification, Inject, Answer, CallTools, Results, CutOff, Refused,
       GoesOn, Respond, OnDisk, TurnComplete, LoopComplete, Flush, Stop, Compact, Boundary, Crash, Resume, vars
<1>d. tail = "ended" /\ Answered(Replay(disk))
  BY <1>c DEF MirrorInv
<1>e. phase # "down" => Content(Replay(disk)) = Saved(conv, cursor, unsaved)
  BY <1>c DEF MirrorInv
<1>f. last + 1 \notin unsaved
  BY <1>0
<1>g. \A i \in 1..n : conv[i] \in Message /\ conv[i].n \in 0..last
  <2> TAKE i \in 1..n
  <2>1. conv[i] \in Message
    BY <1>0
  <2>2. conv[i].n <= last
    BY <1>0 DEF OrderInv, Chat
  <2> QED BY <1>0, <2>1, <2>2 DEF Message
<1> HIDE DEF n
<1>h. ASSUME NEW m \in Message, m.n = last + 1, m.kind # "summary", conv' = Append(conv, m)
      PROVE  /\ Len(conv') = n + 1 /\ conv'[n + 1] = m /\ \A i \in 1..n : conv'[i] = conv[i]
             /\ 1..(n + 1) = (1..n) \cup {n + 1}
  <2>1. /\ Len(conv') = n + 1 /\ conv'[n + 1] = m /\ \A i \in 1..n : conv'[i] = conv[i]
    BY <1>h, Longer DEF n
  <2> QED BY <1>0, <2>1
<1>i. ASSUME NEW m \in Message, m.n = last + 1, m.kind # "summary", conv' = Append(conv, m),
             cursor' = cursor, unsaved' = unsaved, phase # "down", UNCHANGED <<disk, tail>>
      PROVE  MirrorInv'
  <2>1. Saved(conv', cursor, unsaved) = Saved(conv, cursor, unsaved)
    <3>1. \A i \in 1..n : conv'[i] = conv[i]
      BY <1>h, <1>i
    <3>2. \A i \in 1..cursor : conv'[i] = conv[i]
      BY <1>0, <3>1
    <3> QED BY <3>2 DEF Saved
  <2> QED BY <1>d, <1>e, <1>i, <2>1 DEF MirrorInv
<1>1. CASE Send
  <2>1. /\ conv' = Append(conv, Added) /\ cursor' = Len(conv') /\ unsaved' = unsaved
        /\ phase = "idle" /\ Write(<< <<Added>> >>)
    BY <1>1 DEF Send
  <2>2. cursor = n
    BY <2>1 DEF PendingInv, n
  <2>3. /\ Len(conv') = n + 1 /\ conv'[n + 1] = Added /\ \A i \in 1..n : conv'[i] = conv[i]
        /\ 1..(n + 1) = (1..n) \cup {n + 1}
    BY <1>a, <1>h, <2>1
  <2>4. Saved(conv', cursor', unsaved') = Saved(conv, cursor, unsaved) \cup {Added}
    BY <1>a, <1>f, <2>1, <2>2, <2>3, SMTT(40) DEF Saved
  <2> DEFINE lines == << <<Added>> >>
  <2>5. DOMAIN lines = {1} /\ lines[1] = <<Added>> /\ DOMAIN <<Added>> = {1} /\ <<Added>>[1] = Added
    OBVIOUS
  <2>6. Write(lines) /\ Log(lines, last + 1)
    BY <2>1, AddedInOrder
  <2> HIDE DEF lines
  <2>7. Content(lines) = {Added} /\ Answered(lines) /\ \A j \in DOMAIN lines : Plain(lines[j])
    BY <1>a, <2>5 DEF Content, Items, Answered, Plain
  <2>8. /\ tail' = "ended" /\ Answered(Replay(disk'))
        /\ Content(Replay(disk')) = Content(Replay(disk)) \cup {Added}
    BY <1>0, <1>d, <2>6, <2>7, WrittenPlain
  <2> QED BY <1>e, <2>1, <2>4, <2>8 DEF MirrorInv
<1>2. CASE SendNotification
  <2>1. /\ conv' = Append(conv, Added) /\ cursor' = Len(conv') /\ unsaved' = unsaved \cup {last + 1}
        /\ phase = "idle" /\ UNCHANGED <<disk, tail>>
    BY <1>2 DEF SendNotification, OnDisk
  <2>2. cursor = n
    BY <2>1 DEF PendingInv, n
  <2>3. /\ Len(conv') = n + 1 /\ conv'[n + 1] = Added /\ \A i \in 1..n : conv'[i] = conv[i]
        /\ 1..(n + 1) = (1..n) \cup {n + 1}
    BY <1>a, <1>h, <2>1
  <2>4. \A i \in 1..n : conv[i].n # last + 1
    <3>1. \A x \in 0..last : x # last + 1
      BY <1>0
    <3> QED BY <1>g, <3>1
  <2>5. Saved(conv', cursor', unsaved') = Saved(conv, cursor, unsaved)
    BY <1>a, <2>1, <2>2, <2>3, <2>4 DEF Saved
  <2> QED BY <1>d, <1>e, <2>1, <2>5 DEF MirrorInv
<1>3. CASE Inject
  BY <1>3, <1>a, <1>i DEF Inject, OnDisk
<1>4. ASSUME NEW kind \in {"answer", "calls"}, Respond(kind), phase # "down"
      PROVE  MirrorInv'
  <2> DEFINE m == [n |-> last', kind |-> kind, of |-> 0]
  <2>1. /\ last' = last + 1 /\ conv' = Append(conv, m) /\ cursor' = cursor /\ unsaved' = unsaved
        /\ UNCHANGED <<disk, tail>>
    BY <1>4 DEF Respond, OnDisk
  <2>2. m \in Message /\ m.n = last + 1 /\ m.kind # "summary"
    BY <1>0, <1>4, <2>1 DEF Message, Kinds
  <2> HIDE DEF m
  <2> QED BY <1>4, <1>i, <2>1, <2>2
<1>5. CASE Answer
  BY <1>4, <1>5 DEF Answer
<1>6. CASE CallTools
  BY <1>4, <1>6 DEF CallTools
<1>7. CASE Results
  <2> DEFINE m == [n |-> last', kind |-> "results", of |-> last]
  <2>1. /\ last' = last + 1 /\ conv' = Append(conv, m) /\ cursor' = cursor
        /\ unsaved' = unsaved /\ phase = "acting" /\ UNCHANGED <<disk, tail>>
    BY <1>7 DEF Results, OnDisk
  <2>2. m \in Message /\ m.n = last + 1 /\ m.kind # "summary"
    BY <1>0, <2>1 DEF Message, Kinds
  <2> HIDE DEF m
  <2> QED BY <1>i, <2>1, <2>2
<1>8. CASE CutOff \/ Refused
  BY <1>8, <1>a, <1>i DEF CutOff, Refused, GoesOn, OnDisk
<1>9. CASE TurnComplete \/ LoopComplete
  <2>1. /\ conv' = conv /\ cursor' = n /\ unsaved' = unsaved
        /\ phase \in {"acted", "answered"} /\ Write(Unflushed)
    BY <1>9 DEF TurnComplete, LoopComplete, Flush, n
  <2>2. /\ Log(Unflushed, last) /\ DOMAIN Unflushed = 1..(n - cursor)
        /\ \A i \in 1..(n - cursor) :
               /\ cursor + i \in DOMAIN conv /\ cursor + i \in (cursor + 1)..n
               /\ Unflushed[i] = <<conv[cursor + i]>> /\ Plain(Unflushed[i])
    BY UnflushedInOrder DEF n
  <2>3. \A i \in (cursor + 1)..n : \E j \in 1..(n - cursor) : Unflushed[j][1] = conv[i]
    <3> TAKE i \in (cursor + 1)..n
    <3> DEFINE j == i - cursor
    <3>1. j \in 1..(n - cursor) /\ cursor + j = i
      BY <1>0
    <3> HIDE DEF j
    <3>2. Unflushed[j] = <<conv[i]>>
      BY <2>2, <3>1
    <3>3. Unflushed[j][1] = conv[i]
      BY <3>2
    <3> QED BY <3>1, <3>3
  <2>4. \A j \in 1..(n - cursor) : \E i \in (cursor + 1)..n :
            /\ Unflushed[j][1] = conv[i] /\ Items(Unflushed[j]) = {conv[i]}
    <3> TAKE j \in 1..(n - cursor)
    <3> DEFINE m == conv[cursor + j]
    <3>1. Unflushed[j] = <<m>> /\ cursor + j \in (cursor + 1)..n
      BY <2>2
    <3>2. Unflushed[j][1] = m /\ Items(Unflushed[j]) = {m}
      <4> HIDE DEF m
      <4>1. DOMAIN <<m>> = {1} /\ <<m>>[1] = m
        OBVIOUS
      <4> QED BY <3>1, <4>1 DEF Items
    <3> QED BY <3>1, <3>2
  <2>5. \A j \in 1..(n - cursor) : Unflushed[j][1] \in Items(Unflushed[j])
    BY <2>4
  <2>6. Content(Unflushed) = {conv[i] : i \in (cursor + 1)..n}
    <3>1. ASSUME NEW x \in Content(Unflushed)
          PROVE  x \in {conv[i] : i \in (cursor + 1)..n}
      <4>1. PICK j \in 1..(n - cursor) : x \in Items(Unflushed[j])
        BY <2>2 DEF Content
      <4> QED BY <2>4, <4>1
    <3>2. ASSUME NEW i \in (cursor + 1)..n
          PROVE  conv[i] \in Content(Unflushed)
      <4>1. PICK j \in 1..(n - cursor) : Unflushed[j][1] = conv[i]
        BY <2>3
      <4> QED BY <2>2, <2>5, <4>1 DEF Content
    <3> QED BY <3>1, <3>2
  <2>7. Answered(Unflushed)
    <3> SUFFICES ASSUME NEW j \in 1..(n - cursor), Unflushed[j][1].kind = "calls"
                 PROVE  \E k \in 1..(n - cursor) : Unflushed[k][1].of = Unflushed[j][1].n
      BY <2>2 DEF Answered
    <3>1. PICK i \in (cursor + 1)..n : Unflushed[j][1] = conv[i]
      BY <2>4
    <3>2. PICK x \in (cursor + 1)..n : conv[x].of = conv[i].n
      BY <2>1, <3>1 DEF PendingInv, n
    <3> QED BY <2>3, <3>1, <3>2
  <2>8. /\ tail' = "ended" /\ Answered(Replay(disk'))
        /\ Content(Replay(disk')) = Content(Replay(disk)) \cup Content(Unflushed)
    <3>1. \A j \in DOMAIN Unflushed : Plain(Unflushed[j])
      BY <2>2
    <3> QED BY <1>0, <1>d, <2>1, <2>2, <2>7, <3>1, WrittenPlain
  <2>9. Saved(conv, n, unsaved) = Saved(conv, cursor, unsaved) \cup {conv[i] : i \in (cursor + 1)..n}
    <3>1. 1..n = (1..cursor) \cup ((cursor + 1)..n)
      BY <1>0
    <3>2. \A i \in (cursor + 1)..n : conv[i].n \notin unsaved
      BY DEF PendingInv, n
    <3> QED BY <3>1, <3>2 DEF Saved
  <2> QED BY <1>e, <2>1, <2>6, <2>8, <2>9 DEF MirrorInv
<1>10. CASE Stop
  <2> DEFINE behind == Numbers(From(conv, cursor + 1))
  <2>1. /\ conv' = conv /\ cursor' = n /\ unsaved' = unsaved \cup behind /\ phase # "down"
        /\ UNCHANGED <<disk, tail>>
    BY <1>10 DEF Stop, OnDisk, n
  <2>2. Items(From(conv, cursor + 1)) = {conv[i] : i \in (cursor + 1)..n}
    BY <1>0, BehindIs DEF n
  <2>3. behind = {conv[i].n : i \in (cursor + 1)..n} \ {0}
    <3>1. Numbers(From(conv, cursor + 1)) = {m.n : m \in Items(From(conv, cursor + 1))} \ {0}
      BY Zenon DEF Numbers, Items
    <3>2. {m.n : m \in {conv[i] : i \in (cursor + 1)..n}} = {conv[i].n : i \in (cursor + 1)..n}
      BY Zenon
    <3> QED BY <2>2, <3>1, <3>2, Zenon
  <2> HIDE DEF behind
  <2>4. 1..n = (1..cursor) \cup ((cursor + 1)..n)
    BY <1>0
  <2>5. \A i \in (cursor + 1)..n : conv[i].n \in behind
    BY <2>3 DEF OrderInv, n
  <2>6. ASSUME NEW i \in 1..cursor PROVE conv[i].n \notin behind
    <3>1. \A j \in (cursor + 1)..n : i < j /\ i \in 1..n /\ j \in 1..n
      BY <1>0
    <3>2. \A j \in (cursor + 1)..n : conv[i].n < conv[j].n
      BY <1>0, <3>1 DEF OrderInv, Chat, InOrder
    <3>3. \A j \in (cursor + 1)..n : conv[i].n # conv[j].n
      <4>1. \A x, y \in 0..last : x < y => x # y
        BY <1>0
      <4> QED BY <1>g, <3>1, <3>2, <4>1
    <3> QED BY <2>3, <3>3
  <2>7. Saved(conv, n, unsaved \cup behind) = Saved(conv, cursor, unsaved)
    BY <2>4, <2>5, <2>6 DEF Saved
  <2> QED BY <1>d, <1>e, <2>1, <2>7 DEF MirrorInv
<1>11. ASSUME NEW k \in Cuts, Compact(k) PROVE MirrorInv'
  <2>1. /\ conv' = Compacted(k) /\ cursor' = Len(conv') /\ unsaved' = unsaved \ Numbers(conv')
        /\ Write(<<Compacted(k)>>)
    BY <1>11 DEF Compact, Boundary
  <2>2. Compacted(k) \in Seq(Message) /\ ~Plain(Compacted(k))
    BY CompactedInOrder DEF Chat
  <2>3. /\ tail' = "ended" /\ Answered(Replay(disk'))
        /\ Content(Replay(disk')) = Items(conv')
    BY <1>0, <1>d, <2>1, <2>2, WrittenBoundary
  <2>4. DOMAIN conv' = 1..cursor'
    BY <2>1, <2>2
  <2>5. \A i \in 1..cursor' : conv'[i].n \notin unsaved'
    <3>1. 0 \notin unsaved
      BY <1>0
    <3> QED BY <2>1, <2>4, <3>1 DEF Numbers
  <2>6. Saved(conv', cursor', unsaved') = Items(conv')
    BY <2>4, <2>5 DEF Saved, Items
  <2> QED BY <2>3, <2>6 DEF MirrorInv
<1>12. CASE Crash
  BY <1>12, <1>d DEF Crash, Ends, MirrorInv
<1>13. CASE Resume
  <2>1. /\ conv' = Restored /\ cursor' = Len(conv') /\ unsaved' = {} /\ UNCHANGED <<disk, tail>>
    BY <1>13 DEF Resume, PendingInv
  <2>2. Items(Restored) = Content(Replay(disk))
    BY <1>0, <1>d, RestoredWhole
  <2>3. Restored \in Seq(Message)
    BY <1>0, RestoredIsChat DEF Chat
  <2>4. DOMAIN conv' = 1..cursor'
    BY <2>1, <2>3
  <2>5. Saved(conv', cursor', {}) = Items(conv')
    BY <2>4 DEF Saved, Items
  <2> QED BY <1>d, <2>1, <2>2, <2>5 DEF MirrorInv
<1>14. CASE UNCHANGED vars
  BY <1>14, <1>d, <1>e DEF vars, MirrorInv
<1> QED BY <1>b, <1>1, <1>2, <1>3, <1>5, <1>6, <1>7, <1>8, <1>9, <1>10, <1>11, <1>12, <1>13,
           <1>14 DEF Next

(* The transcript mirrors memory in every reachable state.                 *)
LEMMA MirrorAlways == Spec => []MirrorInv
<1> QED BY OrderAlways, PendingAlways, MirrorInit, MirrorStep, PTL DEF Spec

(* What the invariants say of a resume while the process lives.            *)
LEMMA MirrorHolds ==
    OrderInv /\ MirrorInv /\ phase # "down" /\ ~damaged =>
        Chat(Restored, last) /\ Items(Restored) = Saved(conv, cursor, unsaved)
<1> SUFFICES ASSUME OrderInv, MirrorInv, phase # "down", ~damaged
             PROVE  Chat(Restored, last) /\ Items(Restored) = Saved(conv, cursor, unsaved)
  OBVIOUS
<1>1. last \in Nat /\ Log(disk, last)
  BY DEF OrderInv
<1>2. Items(Restored) = Content(Replay(disk))
  BY <1>1, RestoredWhole DEF MirrorInv
<1> QED BY <1>1, <1>2, RestoredIsChat DEF MirrorInv

(* As long as no crash has hit a write, a resume gives back the            *)
(* conversation up to the cursor, in its order, but for what no flush will *)
(* ever write.                                                             *)
THEOREM LogMirrorsConversation == Spec => []Mirror
<1>1. OrderInv /\ MirrorInv => Mirror
  BY MirrorHolds DEF Mirror, Items, Saved, OrderInv, Chat
<1> QED BY <1>1, OrderAlways, MirrorAlways, PTL

-----------------------------------------------------------------------------
(* The provider's items.                                                   *)

(* The items f keeps under the number of an assistant turn of msgs are     *)
(* that turn's.                                                            *)
AlignedIn(msgs, f) ==
    \A i \in DOMAIN msgs :
        IsAssistant(msgs[i]) /\ TurnOf(msgs, i) \in DOMAIN f => f[TurnOf(msgs, i)] = msgs[i].n

Assistants(msgs) == {m \in Items(msgs) : IsAssistant(m)}

AlignInv ==
    ~damaged /\ ~skewed =>
        /\ AlignedIn(conv, opaque) /\ AlignedIn(Restored, meta)
        /\ \A i \in 1..cursor : IsAssistant(conv[i]) => conv[i].n \notin unsaved

(* The turns before a place count the assistant messages with a number     *)
(* below, so they are the same wherever those messages are the same.       *)
LEMMA TurnByNumbers ==
    ASSUME NEW msgs, NEW b \in Nat, Chat(msgs, b), NEW i \in DOMAIN msgs
    PROVE  TurnOf(msgs, i) = Cardinality({m \in Assistants(msgs) : m.n < msgs[i].n})
<1> DEFINE places == {j \in 1..(i - 1) : IsAssistant(msgs[j])}
<1> DEFINE before == {m \in Assistants(msgs) : m.n < msgs[i].n}
<1> DEFINE f == [j \in places |-> msgs[j]]
<1>0. DOMAIN msgs = 1..Len(msgs) /\ Len(msgs) \in Nat /\ \A j \in DOMAIN msgs : msgs[j] \in Message
  BY DEF Chat
<1>a. \A j \in DOMAIN msgs : msgs[j].n \in Nat
  BY <1>0 DEF Message
<1>1. \A j \in 1..(i - 1) : j \in DOMAIN msgs /\ j < i
  BY <1>0
<1>2. \A x, y \in Nat : (x < y => x # y /\ ~(y < x))
  OBVIOUS
<1>3. \A j, k \in DOMAIN msgs : msgs[j].n = msgs[k].n => j = k
  <2> TAKE j, k \in DOMAIN msgs
  <2>1. j < k => msgs[j].n < msgs[k].n
    BY DEF Chat, InOrder
  <2>2. k < j => msgs[k].n < msgs[j].n
    BY DEF Chat, InOrder
  <2> QED BY <1>0, <1>a, <1>2, <2>1, <2>2
<1>4. f \in [places -> before]
  <2>1. \A j \in places : msgs[j] \in before
    BY <1>1 DEF Chat, InOrder, Assistants, Items
  <2> QED BY <2>1
<1>5. \A j, k \in places : f[j] = f[k] => j = k
  BY <1>1, <1>3
<1>6. \A m \in before : \E j \in places : f[j] = m
  <2> TAKE m \in before
  <2>1. PICK j \in DOMAIN msgs : m = msgs[j] /\ IsAssistant(msgs[j]) /\ msgs[j].n < msgs[i].n
    BY DEF Assistants, Items
  <2>2. j < i
    <3>1. i < j => msgs[i].n < msgs[j].n
      BY DEF Chat, InOrder
    <3> QED BY <1>0, <1>a, <1>2, <2>1, <3>1
  <2>3. j \in places
    BY <1>0, <2>1, <2>2
  <2> QED BY <2>1, <2>3
<1>7. IsFiniteSet(places)
  <2>1. 1 \in Int /\ i - 1 \in Int
    BY <1>0
  <2>2. IsFiniteSet(1..(i - 1))
    BY <2>1, FS_Interval
  <2> QED BY <2>2, FS_Subset
<1> HIDE DEF places, before, f
<1>8. ExistsBijection(places, before)
  <2>0. DOMAIN f = places
    BY <1>4
  <2>1. f \in Injection(places, before)
    <3>1. IsInjective(f)
      BY <1>5, <2>0 DEF IsInjective
    <3> QED BY <1>4, <3>1 DEF Injection
  <2>2. f \in Surjection(places, before)
    BY <1>4, <1>6 DEF Surjection
  <2> QED BY <2>1, <2>2 DEF ExistsBijection, Bijection
<1>9. Cardinality(places) = Cardinality(before)
  BY <1>7, <1>8, FS_Bijection
<1> QED BY <1>9 DEF TurnOf, places, before

(* Alignment carries over to messages with the same assistant turns.       *)
LEMMA AlignedSame ==
    ASSUME NEW s, NEW t, NEW b \in Nat, NEW c \in Nat, Chat(s, b), Chat(t, c),
           Assistants(s) = Assistants(t), NEW f, AlignedIn(s, f)
    PROVE  AlignedIn(t, f)
<1> SUFFICES ASSUME NEW i \in DOMAIN t, IsAssistant(t[i]), TurnOf(t, i) \in DOMAIN f
             PROVE  f[TurnOf(t, i)] = t[i].n
  BY DEF AlignedIn
<1>1. t[i] \in Assistants(s)
  BY DEF Assistants, Items
<1>2. PICK j \in DOMAIN s : s[j] = t[i]
  BY <1>1 DEF Assistants, Items
<1>3. TurnOf(s, j) = Cardinality({m \in Assistants(s) : m.n < s[j].n})
  BY TurnByNumbers
<1>4. TurnOf(t, i) = Cardinality({m \in Assistants(t) : m.n < t[i].n})
  BY TurnByNumbers
<1>5. TurnOf(s, j) = TurnOf(t, i)
  BY <1>2, <1>3, <1>4
<1> QED BY <1>2, <1>5 DEF AlignedIn

(* With all flushed, the assistant turns in the file are those in memory.  *)
LEMMA TurnsAtEnd ==
    /\ OrderInv /\ MirrorInv /\ phase # "down" /\ ~damaged /\ cursor = Len(conv)
    /\ \A i \in 1..cursor : IsAssistant(conv[i]) => conv[i].n \notin unsaved
    => Assistants(Restored) = Assistants(conv)
<1> SUFFICES ASSUME OrderInv, MirrorInv, phase # "down", ~damaged, cursor = Len(conv),
                    \A i \in 1..cursor : IsAssistant(conv[i]) => conv[i].n \notin unsaved
             PROVE  Assistants(Restored) = Assistants(conv)
  OBVIOUS
<1>1. Items(Restored) = Saved(conv, cursor, unsaved)
  BY MirrorHolds
<1>2. DOMAIN conv = 1..cursor
  <2>1. conv \in Seq(Message)
    BY DEF OrderInv, Chat
  <2> QED BY <2>1
<1> QED BY <1>1, <1>2 DEF Assistants, Saved, Items

(* The same after a step.                                                  *)
LEMMA TurnsAtEndNext ==
    /\ OrderInv' /\ MirrorInv' /\ (phase # "down")' /\ ~damaged' /\ (cursor = Len(conv))'
    /\ (\A i \in 1..cursor : IsAssistant(conv[i]) => conv[i].n \notin unsaved)'
    => (Assistants(Restored) = Assistants(conv))'
BY TurnsAtEnd, PTL

(* No provider items, nothing to align.                                    *)
LEMMA AlignInit == Init => AlignInv
<1> SUFFICES ASSUME Init PROVE AlignInv
  OBVIOUS
<1>1. DOMAIN None = {} /\ opaque = None /\ meta = None /\ cursor = 0 /\ 1..0 = {}
  BY DEF Init, None
<1> QED BY <1>1 DEF AlignInv, AlignedIn

(* Every step keeps the provider items, saved or not, aligned with turns.  *)
LEMMA AlignStep ==
    OrderInv /\ PendingInv /\ MirrorInv /\ AlignInv /\ [Next]_vars => AlignInv'
<1> SUFFICES ASSUME OrderInv, PendingInv, MirrorInv, AlignInv, [Next]_vars, ~damaged', ~skewed'
             PROVE  AlignInv'
  BY DEF AlignInv
<1>0. OrderInv' /\ MirrorInv'
  BY OrderStep, MirrorStep
<1> DEFINE n == Len(conv)
<1>1. /\ last \in Nat /\ last' \in Nat /\ n \in Nat /\ DOMAIN conv = 1..n /\ cursor \in 0..n
      /\ Chat(conv, last) /\ Chat(conv', last') /\ Log(disk, last) /\ Log(disk', last')
      /\ unsaved \subseteq 1..last
  BY <1>0 DEF OrderInv, Chat, PendingInv
<1>a. Added \in Message /\ Added.n = last + 1 /\ Added.kind = "user"
  BY AddedInOrder
<1>b. ~damaged
  BY DEF Next, Send, SendNotification, Inject, Answer, CallTools, Results, CutOff, Refused,
       GoesOn, Respond, OnDisk, TurnComplete, LoopComplete, Flush, Stop, Compact, Boundary, Crash,
       CrashWriting, Resume, vars
<1>c. Chat(Restored, last) /\ Chat(Restored', last')
  <2>1. last' \in Nat /\ Log(disk', last') => Chat(Restored', last')
    BY RestoredIsChat, RestoredIsChatNext
  <2> QED BY <1>1, <2>1, RestoredIsChat
<1>d. disk' = disk => Restored' = Restored
  BY DEF Restored, Replayed
<1>e. \A msgs : AlignedIn(msgs, None)
  BY DEF AlignedIn, None
<1>2. ASSUME NEW k \in Cuts, Compact(k) PROVE AlignInv'
  <2>1. /\ conv' = Compacted(k) /\ cursor' = Len(conv') /\ opaque' = None /\ meta' = None
        /\ unsaved' = unsaved \ Numbers(conv')
    BY <1>2 DEF Compact, Boundary
  <2>2. DOMAIN conv' = 1..cursor'
    BY <1>1, <2>1 DEF Chat
  <2>3. \A i \in 1..cursor' : conv'[i].n \notin unsaved'
    <3>1. 0 \notin unsaved
      BY <1>1
    <3> QED BY <2>1, <2>2, <3>1 DEF Numbers
  <2> QED BY <1>e, <2>1, <2>3 DEF AlignInv
<1>3. CASE \A k \in Cuts : ~Compact(k)
  <2>0. ~skewed
    BY <1>3 DEF Next, Send, SendNotification, Inject, Answer, CallTools, Results, CutOff,
         Refused, GoesOn, Respond, OnDisk, TurnComplete, LoopComplete, Flush, Stop, Crash,
         CrashWriting, Ends, Resume, vars
  <2>1. /\ AlignedIn(conv, opaque) /\ AlignedIn(Restored, meta)
        /\ \A i \in 1..cursor : IsAssistant(conv[i]) => conv[i].n \notin unsaved
    BY <1>b, <2>0 DEF AlignInv
  <2>2. \A i \in 1..n : IsAssistant(conv[i]) => conv[i].n \notin unsaved /\ conv[i].n # last + 1
    <3> TAKE i \in 1..n
    <3>1. i \in 1..cursor \/ i \in (cursor + 1)..n
      BY <1>1
    <3>2. conv[i] \in Message /\ conv[i].n <= last
      BY <1>1 DEF Chat
    <3>3. conv[i].n # last + 1
      <4>1. conv[i].n \in Nat
        BY <3>2 DEF Message
      <4> QED BY <1>1, <3>2, <4>1
    <3> QED BY <2>1, <3>1, <3>3 DEF PendingInv
  <2> HIDE DEF n
  <2>3. ASSUME NEW m \in Message, m.n = last + 1, m.kind # "summary", ~IsAssistant(m),
               conv' = Append(conv, m), opaque' = opaque
        PROVE  /\ AlignedIn(conv', opaque') /\ Assistants(conv') = Assistants(conv)
               /\ Len(conv') = n + 1 /\ conv'[n + 1] = m /\ \A i \in 1..n : conv'[i] = conv[i]
               /\ 1..(n + 1) = (1..n) \cup {n + 1}
    <3>1. /\ Len(conv') = n + 1 /\ conv'[n + 1] = m /\ \A i \in 1..n : conv'[i] = conv[i]
          /\ DOMAIN conv' = 1..(n + 1)
      BY <2>3, Longer DEF n
    <3>2. 1..(n + 1) = (1..n) \cup {n + 1}
      BY <1>1
    <3>3. Assistants(conv') = Assistants(conv)
      BY <1>1, <2>3, <3>1, <3>2 DEF Assistants, Items
    <3>4. AlignedIn(conv', opaque)
      BY <1>1, <2>1, <3>3, AlignedSame
    <3> QED BY <2>3, <3>1, <3>2, <3>3, <3>4
  <2>4. ASSUME NEW m \in Message, m.n = last + 1, m.kind # "summary", ~IsAssistant(m),
               conv' = Append(conv, m), UNCHANGED <<opaque, meta, disk, cursor, unsaved>>
        PROVE  AlignInv'
    <3>1. AlignedIn(conv', opaque') /\ \A i \in 1..n : conv'[i] = conv[i]
      BY <2>3, <2>4
    <3>2. \A i \in 1..cursor : i \in 1..n
      BY <1>1
    <3>3. \A i \in 1..cursor : IsAssistant(conv'[i]) => conv'[i].n \notin unsaved
      BY <2>1, <3>1, <3>2
    <3>4. AlignedIn(Restored', meta')
      BY <1>d, <2>1, <2>4
    <3> QED BY <2>4, <3>1, <3>3, <3>4 DEF AlignInv
  <2>5. CASE Send
    <3>1. /\ conv' = Append(conv, Added) /\ cursor' = Len(conv') /\ phase = "idle" /\ phase' = "top"
          /\ UNCHANGED <<opaque, meta, unsaved>>
      BY <2>5 DEF Send
    <3>2. Added.kind # "summary" /\ ~IsAssistant(Added)
      BY <1>a DEF IsAssistant
    <3>3. /\ AlignedIn(conv', opaque') /\ Assistants(conv') = Assistants(conv)
          /\ Len(conv') = n + 1 /\ conv'[n + 1] = Added /\ \A i \in 1..n : conv'[i] = conv[i]
          /\ 1..(n + 1) = (1..n) \cup {n + 1}
      BY <1>a, <2>3, <3>1, <3>2
    <3>4. \A i \in 1..cursor' : IsAssistant(conv'[i]) => conv'[i].n \notin unsaved'
      BY <2>2, <3>1, <3>2, <3>3
    <3>5. Assistants(Restored') = Assistants(conv')
      BY <1>0, <3>1, <3>4, TurnsAtEndNext
    <3>6. Assistants(Restored) = Assistants(conv)
      BY <1>b, <2>1, <3>1, TurnsAtEnd DEF PendingInv
    <3>7. AlignedIn(Restored', meta)
      BY <1>1, <1>c, <2>1, <3>3, <3>5, <3>6, AlignedSame
    <3> QED BY <3>1, <3>3, <3>4, <3>7 DEF AlignInv
  <2>6. CASE SendNotification
    <3>1. /\ conv' = Append(conv, Added) /\ cursor' = Len(conv') /\ unsaved' = unsaved \cup {last + 1}
          /\ UNCHANGED <<opaque, meta, disk>>
      BY <2>6 DEF SendNotification, OnDisk
    <3>2. Added.kind # "summary" /\ ~IsAssistant(Added)
      BY <1>a DEF IsAssistant
    <3>3. /\ AlignedIn(conv', opaque')
          /\ Len(conv') = n + 1 /\ conv'[n + 1] = Added /\ \A i \in 1..n : conv'[i] = conv[i]
          /\ 1..(n + 1) = (1..n) \cup {n + 1}
      BY <1>a, <2>3, <3>1, <3>2
    <3>4. \A i \in 1..cursor' : IsAssistant(conv'[i]) => conv'[i].n \notin unsaved'
      BY <2>2, <3>1, <3>2, <3>3
    <3> QED BY <1>d, <2>1, <3>1, <3>3, <3>4 DEF AlignInv
  <2>7. CASE Inject \/ CutOff \/ Refused
    <3>1. Added.kind # "summary" /\ ~IsAssistant(Added)
      BY <1>a DEF IsAssistant
    <3>2. conv' = Append(conv, Added) /\ UNCHANGED <<opaque, meta, disk, cursor, unsaved>>
      BY <2>7 DEF Inject, CutOff, Refused, GoesOn, OnDisk
    <3> QED BY <1>a, <2>4, <3>1, <3>2
  <2>8. CASE Results
    <3> DEFINE m == [n |-> last', kind |-> "results", of |-> last]
    <3>1. last' = last + 1 /\ conv' = Append(conv, m) /\ UNCHANGED <<opaque, meta, disk, cursor, unsaved>>
      BY <2>8 DEF Results, OnDisk
    <3>2. m \in Message /\ m.n = last + 1 /\ m.kind # "summary" /\ ~IsAssistant(m)
      BY <1>1, <3>1 DEF Message, Kinds, IsAssistant
    <3> HIDE DEF m
    <3> QED BY <2>4, <3>1, <3>2
  <2>9. ASSUME NEW kind \in {"answer", "calls"}, Respond(kind) PROVE AlignInv'
    <3> DEFINE m == [n |-> last', kind |-> kind, of |-> 0]
    <3>1. /\ last' = last + 1 /\ conv' = Append(conv, m) /\ UNCHANGED <<meta, disk, cursor, unsaved>>
          /\ opaque' = [i \in DOMAIN opaque \cup {Turn} |-> IF i = Turn THEN last' ELSE opaque[i]]
      BY <2>9 DEF Respond, OnDisk
    <3>2. m \in Message /\ m.n = last + 1 /\ m.kind # "summary"
      BY <1>1, <2>9, <3>1 DEF Message, Kinds
    <3> HIDE DEF m
    <3>3. /\ Len(conv') = n + 1 /\ conv'[n + 1] = m /\ \A i \in 1..n : conv'[i] = conv[i]
          /\ DOMAIN conv' = 1..(n + 1)
      BY <3>1, <3>2, Longer DEF n
    <3>4. \A i \in 1..(n + 1) : TurnOf(conv', i) = TurnOf(conv, i)
      <4> TAKE i \in 1..(n + 1)
      <4>1. \A j \in 1..(i - 1) : j \in 1..n
        BY <1>1
      <4>2. \A j \in 1..(i - 1) : conv'[j] = conv[j]
        BY <3>3, <4>1
      <4>3. {j \in 1..(i - 1) : IsAssistant(conv'[j])} = {j \in 1..(i - 1) : IsAssistant(conv[j])}
        BY <4>2
      <4> QED BY <4>3 DEF TurnOf
    <3>5. \A i \in 1..n : IsAssistant(conv[i]) => TurnOf(conv, i) # Turn
      <4> SUFFICES ASSUME NEW i \in 1..n, IsAssistant(conv[i]) PROVE TurnOf(conv, i) # Turn
        OBVIOUS
      <4> DEFINE part == {j \in 1..(i - 1) : IsAssistant(conv[j])}
      <4> DEFINE all == {j \in 1..n : IsAssistant(conv[j])}
      <4>1. TurnOf(conv, i) = Cardinality(part)
        BY DEF TurnOf
      <4>2. Turn = Cardinality(all)
        <5>1. n + 1 - 1 = n
          BY <1>1
        <5> QED BY <5>1 DEF Turn, TurnOf, n
      <4>3. part \subseteq all /\ i \in all /\ i \notin part
        BY <1>1
      <4>4. IsFiniteSet(all)
        <5>1. IsFiniteSet(1..n)
          BY <1>1, FS_Interval
        <5> QED BY <5>1, FS_Subset
      <4> HIDE DEF part, all
      <4> QED BY <4>1, <4>2, <4>3, <4>4, FS_Subset
    <3>6. AlignedIn(conv', opaque')
      <4> SUFFICES ASSUME NEW i \in 1..(n + 1), IsAssistant(conv'[i]),
                          TurnOf(conv', i) \in DOMAIN opaque'
                   PROVE  opaque'[TurnOf(conv', i)] = conv'[i].n
        BY <3>3 DEF AlignedIn
      <4>1. CASE i = n + 1
        <5>1. TurnOf(conv', i) = Turn
          BY <3>4, <4>1 DEF Turn, n
        <5> QED BY <3>1, <3>2, <3>3, <4>1, <5>1
      <4>2. CASE i \in 1..n
        <5>1. conv'[i] = conv[i] /\ TurnOf(conv', i) = TurnOf(conv, i)
          BY <3>3, <3>4, <4>2
        <5>2. TurnOf(conv, i) # Turn /\ TurnOf(conv, i) \in DOMAIN opaque
          BY <3>1, <3>5, <4>2, <5>1
        <5>3. opaque[TurnOf(conv, i)] = conv[i].n
          BY <1>1, <2>1, <4>2, <5>1, <5>2 DEF AlignedIn
        <5> QED BY <3>1, <5>1, <5>2, <5>3
      <4> QED BY <1>1, <4>1, <4>2
    <3>7. \A i \in 1..cursor : IsAssistant(conv'[i]) => conv'[i].n \notin unsaved
      <4>1. \A i \in 1..cursor : i \in 1..n
        BY <1>1
      <4> QED BY <2>1, <3>3, <4>1
    <3> QED BY <1>d, <2>1, <3>1, <3>6, <3>7 DEF AlignInv
  <2>10. CASE Answer \/ CallTools
    BY <2>9, <2>10 DEF Answer, CallTools
  <2>11. CASE TurnComplete \/ LoopComplete
    <3>1. /\ conv' = conv /\ cursor' = n /\ cursor' = Len(conv') /\ meta' = opaque /\ phase' # "down"
          /\ UNCHANGED <<opaque, unsaved>>
      BY <2>11 DEF TurnComplete, LoopComplete, Flush, n
    <3>2. \A i \in 1..cursor' : IsAssistant(conv'[i]) => conv'[i].n \notin unsaved'
      BY <2>2, <3>1
    <3>3. Assistants(Restored') = Assistants(conv')
      BY <1>0, <3>1, <3>2, TurnsAtEndNext
    <3>4. AlignedIn(Restored', opaque)
      BY <1>1, <1>c, <2>1, <3>1, <3>3, AlignedSame
    <3> QED BY <2>1, <3>1, <3>2, <3>4 DEF AlignInv
  <2>12. CASE Stop
    <3>1. /\ conv' = conv /\ cursor' = n /\ UNCHANGED <<opaque, meta, disk>>
          /\ unsaved' = unsaved \cup Numbers(From(conv, cursor + 1))
          /\ ~\E i \in (cursor + 1)..n : IsAssistant(conv[i])
      BY <2>12 DEF Stop, OnDisk, n
    <3>2. ASSUME NEW i \in 1..n, IsAssistant(conv[i])
          PROVE  conv[i].n \notin unsaved'
      <4>1. i \in 1..cursor
        BY <1>1, <3>1, <3>2
      <4>2. Items(From(conv, cursor + 1)) = {conv[j] : j \in (cursor + 1)..n}
        BY <1>1, BehindIs DEF n, Chat
      <4>3. \A j \in (cursor + 1)..n : i < j /\ j \in 1..n
        BY <1>1, <4>1
      <4>4. \A j \in (cursor + 1)..n : conv[i].n < conv[j].n
        BY <1>1, <4>3 DEF Chat, InOrder
      <4>5. \A j \in 1..n : conv[j].n \in Nat
        <5>1. \A j \in 1..n : conv[j] \in Message
          BY <1>1 DEF Chat
        <5> QED BY <5>1 DEF Message
      <4>6. \A j \in (cursor + 1)..n : conv[i].n # conv[j].n
        <5>1. \A x, y \in Nat : x < y => x # y
          OBVIOUS
        <5> QED BY <4>3, <4>4, <4>5, <5>1
      <4>7. conv[i].n \notin Numbers(From(conv, cursor + 1))
        BY <4>2, <4>6 DEF Numbers, Items
      <4> QED BY <2>2, <3>1, <3>2, <4>7
    <3> QED BY <1>d, <2>1, <3>1, <3>2 DEF AlignInv
  <2>13. CASE Crash
    <3>1. conv' = <<>> /\ cursor' = 0 /\ UNCHANGED <<meta, disk>>
      BY <2>13 DEF Crash, Ends
    <3>2. DOMAIN <<>> = {} /\ 1..0 = {}
      OBVIOUS
    <3> QED BY <1>d, <2>1, <3>1, <3>2 DEF AlignInv, AlignedIn
  <2>14. CASE Resume
    <3>1. conv' = Restored /\ opaque' = meta /\ unsaved' = {} /\ UNCHANGED <<meta, disk>>
      BY <2>14 DEF Resume, PendingInv
    <3> QED BY <1>d, <2>1, <3>1 DEF AlignInv
  <2>15. CASE UNCHANGED vars
    BY <1>d, <2>1, <2>15 DEF AlignInv, vars
  <2>16. ~CrashWriting
    BY DEF CrashWriting
  <2> QED BY <1>3, <2>5, <2>6, <2>7, <2>8, <2>10, <2>11, <2>12, <2>13, <2>14, <2>15, <2>16 DEF Next
<1> QED BY <1>2, <1>3

(* The provider's items the metadata keeps for an assistant turn are the   *)
(* items of the turn resume restores there, unless a crash has hit a write *)
(* or a stopped run has left an assistant turn out of the file.            *)
THEOREM ItemsStayAligned == Spec => []AlignedWhenWhole
<1>1. AlignInv => AlignedWhenWhole
  BY DEF AlignInv, AlignedIn, AlignedWhenWhole, MetaAligned
<1> QED BY <1>1, OrderAlways, PendingAlways, MirrorAlways, AlignInit, AlignStep, PTL DEF Spec
===============================================================================
