--------------------------- MODULE WorkspaceProofs ---------------------------
(***************************************************************************)
(* What a run leaves behind it stays good, for any paths, worktrees,       *)
(* rules, messages and bounds.  Every part has an invariant of its own,    *)
(* proved from the steps of that part; the composition lets the part that  *)
(* is looked at take its steps and leaves the others alone, so each        *)
(* section ends with the invariant of the composed specification.          *)
(***************************************************************************)
EXTENDS Workspace, FiniteSetTheorems, SequenceTheorems, WellFoundedInduction, TLAPS

-----------------------------------------------------------------------------
(* Counting up.                                                            *)

(* A set of naturals that is not empty has a least element; what would     *)
(* have a least counterexample has none.                                   *)
LEMMA Least ==
    ASSUME NEW Y, Y \subseteq Nat, Y # {}
    PROVE  \E m \in Y : \A k \in Y : m <= k
<1>1. PICK m \in Y : \A k \in Y : ~(<<k, m>> \in OpToRel(<, Nat))
  BY NatLessThanWellFounded, WFMin
<1>2. \A k \in Y : ~(k < m)
  BY <1>1 DEF OpToRel
<1> QED BY <1>2

(* Where a fact holds at 0 and from each number to the next, it holds up   *)
(* to n; the fact is given as the set of the numbers it holds of.          *)
LEMMA UpTo ==
    ASSUME NEW n \in Nat, NEW Y, 0 \in Y, \A i \in 1..n : i - 1 \in Y => i \in Y
    PROVE  \A i \in 0..n : i \in Y
<1> DEFINE bad == {i \in 0..n : i \notin Y}
<1> SUFFICES ASSUME bad # {} PROVE FALSE
  OBVIOUS
<1>1. bad \subseteq Nat
  OBVIOUS
<1>2. PICK m \in bad : \A k \in bad : m <= k
  BY <1>1, Least
<1>3. m \in 1..n /\ m - 1 \in 0..n /\ ~(m <= m - 1)
  OBVIOUS
<1>4. m - 1 \in Y
  BY <1>2, <1>3
<1> QED BY <1>3, <1>4

-----------------------------------------------------------------------------
(* The file tools.                                                         *)

FilesType ==
    /\ stamp \in Nat
    /\ disk \in [Paths -> [c : 0..stamp, m : 0..stamp]]
    /\ cache \in [Paths -> [c : -1..stamp, m : -1..stamp]]
    /\ texts \in [Paths -> [c : -1..stamp, m : -1..stamp]]
    /\ text \in [Paths -> [from : [c : -1..stamp, m : -1..stamp],
                           by : {"none", "cache", "read", "reread"}]]
    /\ op \in [Paths -> [kind : F!Changing \cup {"none"},
                         at : {"none", "checked", "tracked", "replaced"}]]

(* What the cache holds, and what a tool at work is about to replace, has  *)
(* been seen, is no file at all, or appeared during a change.              *)
FilesSeen ==
    /\ F!NothingUnseenLost
    /\ \A p \in Paths : cache[p].c \in {-1, F!Absent} \cup seen \cup raced
    /\ \A p \in Paths : op[p].at # "none" => disk[p].c \in {F!Absent} \cup seen \cup raced

(* A text with the time of the file is the text of the file; the time of a *)
(* text read again is looked at later, so there something may slip in.     *)
FilesTexts ==
    /\ F!TextsCurrent
    /\ \A p \in Paths : text[p].by = "read" /\ text[p].from.m = disk[p].m =>
                            text[p].from.c = disk[p].c
    /\ \A p \in Paths : text[p].by = "reread" /\ F!Exists(p) =>
                            text[p].from.c = disk[p].c \/ disk[p].c \in slipped

FilesInv == FilesType /\ FilesSeen /\ FilesTexts

(* The process starts with files and without caches.                       *)
LEMMA FilesStart == F!Init => FilesInv
<1> SUFFICES ASSUME F!Init PROVE FilesInv
  OBVIOUS
<1> USE DEF F!Init, F!Idle, F!NoText, F!Unread, F!Absent, F!Changing
<1>1. FilesType
  BY DEF FilesType
<1>2. FilesSeen
  BY DEF FilesSeen, F!NothingUnseenLost
<1>3. FilesTexts
  BY DEF FilesTexts, F!TextsCurrent, F!Exists
<1> QED BY <1>1, <1>2, <1>3 DEF FilesInv

(* Every step of the tools, and every foreign change, keeps the invariant. *)
LEMMA FilesStep == ASSUME FilesInv, F!Next PROVE FilesInv'
<1> USE DEF F!Idle, F!NoText, F!Unread, F!Absent, F!Changing, FilesInv
<1> DEFINE Goal == FilesType' /\ FilesSeen' /\ FilesTexts'
<1>1. ASSUME NEW p \in Paths, F!ReadText(p) PROVE Goal
  <2> USE <1>1 DEF F!ReadText
  <2>1. FilesType'
    BY DEF FilesType
  <2>2. FilesSeen'
    BY DEF FilesType, FilesSeen, F!NothingUnseenLost
  <2>3. FilesTexts'
    BY DEF FilesType, FilesTexts, F!TextsCurrent, F!Exists
  <2> QED BY <2>1, <2>2, <2>3
<1>2. ASSUME NEW p \in Paths, F!ReadAgain(p) \/ F!ReadFails(p) PROVE Goal
  <2> DEFINE new == IF F!ReadAgain(p) THEN [from |-> disk[p], by |-> "reread"] ELSE F!NoText
  <2>a. /\ text' = [text EXCEPT ![p] = new]
        /\ UNCHANGED <<disk, stamp, cache, texts, op, seen, unseen, raced, slipped>>
    BY <1>2 DEF F!ReadAgain, F!ReadFails
  <2>b. new \in [from : [c : -1..stamp, m : -1..stamp], by : {"none", "reread"}]
    BY DEF FilesType
  <2>c. new.by = "reread" => new.from = disk[p]
    OBVIOUS
  <2> HIDE DEF new
  <2>1. FilesType'
    BY <2>a, <2>b DEF FilesType
  <2>2. FilesSeen'
    BY <2>a DEF FilesType, FilesSeen, F!NothingUnseenLost
  <2>3. FilesTexts'
    <3>1. \A q \in Paths : text'[q] = IF q = p THEN new ELSE text[q]
      BY <2>a DEF FilesType
    <3>2. new.by # "read"
      BY <2>b
    <3> QED BY <2>a, <2>c, <3>1, <3>2 DEF FilesTexts, F!TextsCurrent, F!Exists
  <2> QED BY <2>1, <2>2, <2>3
<1>3. ASSUME NEW p \in Paths, F!RecordRead(p) PROVE Goal
  <2> DEFINE new == IF text[p].by = "reread" THEN [c |-> text[p].from.c, m |-> disk[p].m]
                    ELSE text[p].from
  <2>a. new \in [c : -1..stamp, m : -1..stamp]
    BY DEF FilesType
  <2>b. /\ text' = [text EXCEPT ![p] = F!NoText]
        /\ texts' = [texts EXCEPT ![p] = IF text[p].by = "cache" THEN @ ELSE new]
        /\ cache' = [cache EXCEPT ![p] = new]
        /\ seen' = seen \cup {new.c}
        /\ UNCHANGED <<disk, stamp, op, unseen, raced, slipped>>
    BY <1>3 DEF F!RecordRead
  <2>c. text[p].by # "cache" /\ new.m = disk[p].m /\ F!Exists(p) =>
            new.c = disk[p].c \/ disk[p].c \in slipped
    BY <1>3 DEF F!RecordRead, FilesTexts, F!Exists, FilesType
  <2> HIDE DEF new
  <2>1. FilesType'
    BY <2>a, <2>b DEF FilesType
  <2>2. FilesSeen'
    BY <2>a, <2>b DEF FilesType, FilesSeen, F!NothingUnseenLost
  <2>3. FilesTexts'
    BY <2>a, <2>b, <2>c DEF FilesType, FilesTexts, F!TextsCurrent, F!Exists
  <2> QED BY <2>1, <2>2, <2>3
<1>4. ASSUME NEW p \in Paths, NEW how \in F!Changing, F!BeginChange(p, how) PROVE Goal
  <2> USE <1>4 DEF F!BeginChange
  <2>1. FilesType'
    BY DEF FilesType
  <2>2. FilesSeen'
    BY DEF FilesType, FilesSeen, F!NothingUnseenLost, F!MayChange, F!Exists
  <2>3. FilesTexts'
    BY DEF FilesType, FilesTexts, F!TextsCurrent, F!Exists
  <2> QED BY <2>1, <2>2, <2>3
<1>5. ASSUME NEW p \in Paths, F!TrackEdit(p) \/ F!Fail(p) PROVE Goal
  <2> USE <1>5 DEF F!TrackEdit, F!Fail
  <2>1. FilesType'
    <3>1. CASE F!TrackEdit(p)
      BY <3>1 DEF FilesType
    <3>2. CASE F!Fail(p)
      BY <3>2 DEF FilesType
    <3> QED BY <3>1, <3>2
  <2>2. FilesSeen'
    BY DEF FilesType, FilesSeen, F!NothingUnseenLost
  <2>3. FilesTexts'
    BY DEF FilesType, FilesTexts, F!TextsCurrent, F!Exists
  <2> QED BY <2>1, <2>2, <2>3
<1>6. ASSUME NEW p \in Paths, F!Replace(p) PROVE Goal
  <2> DEFINE c == IF op[p].kind = "delete" THEN F!Absent ELSE stamp + 1
  <2>a. /\ stamp' = stamp + 1
        /\ disk' = [disk EXCEPT ![p] = [c |-> c, m |-> stamp + 1]]
        /\ seen' = seen \cup {c}
        /\ slipped' = F!Slips(p, c)
    BY <1>6 DEF F!Replace, FilesType
  <2>b. c \in 0..(stamp + 1)
    BY DEF FilesType
  <2>1. FilesType'
    <3> HIDE DEF c
    <3>1. /\ stamp' \in Nat
          /\ disk' \in [Paths -> [c : 0..stamp', m : 0..stamp']]
          /\ texts' \in [Paths -> [c : -1..stamp', m : -1..stamp']]
          /\ text' \in [Paths -> [from : [c : -1..stamp', m : -1..stamp'],
                           by : {"none", "cache", "read", "reread"}]]
      BY <2>a, <2>b, <1>6 DEF F!Replace, FilesType
    <3>2. cache' \in [Paths -> [c : -1..stamp', m : -1..stamp']]
      BY <2>a, <1>6 DEF F!Replace, FilesType
    <3>3. op' \in [Paths -> [kind : F!Changing \cup {"none"},
                         at : {"none", "checked", "tracked", "replaced"}]]
      BY <1>6 DEF F!Replace, FilesType
    <3> QED BY <3>1, <3>2, <3>3 DEF FilesType
  <2>2. FilesSeen'
    <3> HIDE DEF c
    <3>1. F!NothingUnseenLost'
      BY <2>a, <1>6 DEF F!Replace, FilesType, FilesSeen, F!NothingUnseenLost, F!Exists
    <3>2. \A q \in Paths : cache'[q].c \in {-1, F!Absent} \cup seen' \cup raced'
      BY <2>a, <1>6 DEF F!Replace, FilesType, FilesSeen
    <3>3. \A q \in Paths : q # p => op'[q] = op[q] /\ disk'[q] = disk[q]
      BY <2>a, <1>6 DEF F!Replace, FilesType
    <3>4. disk'[p].c \in seen'
      BY <2>a DEF FilesType
    <3> QED BY <3>1, <3>2, <3>3, <3>4, <2>a, <1>6 DEF F!Replace, FilesSeen
  <2>3. FilesTexts'
    <3> HIDE DEF c
    <3>1. \A q \in Paths : q # p => disk'[q] = disk[q] /\ texts'[q] = texts[q]
      BY <2>a, <1>6 DEF F!Replace, FilesType
    <3>2. disk'[p].m = stamp + 1 /\ disk'[p].c = c /\ texts'[p].m = -1
      BY <2>a, <1>6 DEF F!Replace, FilesType
    <3>3. /\ text' = text /\ slipped \subseteq slipped'
          /\ text[p].by = "reread" => c \in slipped'
      BY <2>a, <1>6 DEF F!Replace, F!Slips
    <3>4. text[p].from.m # stamp + 1 /\ stamp + 1 # -1
      BY DEF FilesType
    <3>5. F!TextsCurrent'
      BY <3>1, <3>2, <3>3, <3>4 DEF FilesTexts, F!TextsCurrent, F!Exists
    <3> QED BY <3>1, <3>2, <3>3, <3>4, <3>5 DEF FilesTexts, F!Exists
  <2> QED BY <2>1, <2>2, <2>3
<1>7. ASSUME NEW p \in Paths, F!Refresh(p) PROVE Goal
  <2> USE <1>7 DEF F!Refresh
  <2>1. FilesType'
    BY DEF FilesType
  <2>2. FilesSeen'
    BY DEF FilesType, FilesSeen, F!NothingUnseenLost, F!Exists
  <2>3. FilesTexts'
    BY DEF FilesType, FilesTexts, F!TextsCurrent, F!Exists
  <2> QED BY <2>1, <2>2, <2>3
<1>8. ASSUME NEW p \in Paths, F!Foreign(p) PROVE Goal
  <2> PICK c \in (0..(stamp + 1)) \ {disk[p].c} :
        /\ disk' = [disk EXCEPT ![p] = [c |-> c, m |-> stamp + 1]]
        /\ raced' = IF op[p].at = "none" THEN raced ELSE raced \cup {c}
        /\ slipped' = F!Slips(p, c)
    BY <1>8 DEF F!Foreign
  <2>a. stamp' = stamp + 1 /\ UNCHANGED <<cache, texts, text, op, seen, unseen>>
    BY <1>8 DEF F!Foreign
  <2>1. FilesType'
    BY <2>a DEF FilesType
  <2>2. FilesSeen'
    BY <2>a DEF FilesType, FilesSeen, F!NothingUnseenLost
  <2>3. FilesTexts'
    <3>1. \A q \in Paths : q # p => disk'[q] = disk[q]
      BY DEF FilesType
    <3>2. disk'[p].m = stamp + 1 /\ disk'[p].c = c
      BY DEF FilesType
    <3>3. slipped \subseteq slipped' /\ (text[p].by = "reread" => c \in slipped')
      BY DEF F!Slips
    <3>4. text[p].from.m # stamp + 1 /\ texts[p].m # stamp + 1
      BY DEF FilesType
    <3> QED BY <2>a, <3>1, <3>2, <3>3, <3>4 DEF FilesTexts, F!TextsCurrent, F!Exists
  <2> QED BY <2>1, <2>2, <2>3
<1>9. ASSUME F!Restart PROVE Goal
  <2> USE <1>9 DEF F!Restart
  <2>1. FilesType'
    BY DEF FilesType
  <2>2. FilesSeen'
    BY DEF FilesType, FilesSeen, F!NothingUnseenLost
  <2>3. FilesTexts'
    BY DEF FilesType, FilesTexts, F!TextsCurrent, F!Exists
  <2> QED BY <2>1, <2>2, <2>3
<1> QED BY <1>1, <1>2, <1>3, <1>4, <1>5, <1>6, <1>7, <1>8, <1>9 DEF F!Next

(* Who is not looked at does not move.                                     *)
LEMMA FilesStay == ASSUME FilesInv, UNCHANGED files PROVE FilesInv'
BY DEF FilesInv, FilesType, FilesSeen, FilesTexts, files, F!NothingUnseenLost, F!TextsCurrent,
       F!Exists

(* edit_file.py, write_file.py, delete_file.py, file_state_cache.py: a     *)
(* tool destroys no content the tools have not seen, and ReadFile shows    *)
(* what is there, but for what appeared between two of their steps.        *)
THEOREM ChangesAreSeen == Spec => []OverwritesSeen
<1>1. Init => FilesInv
  BY FilesStart DEF Init
<1>2. FilesInv /\ [Next]_<<focus, vars>> => FilesInv'
  BY FilesStep, FilesStay DEF Next, vars
<1>3. FilesInv => OverwritesSeen
  BY DEF FilesInv, FilesSeen, FilesTexts, OverwritesSeen, F!OverwritesSeen
<1> QED BY <1>1, <1>2, <1>3, PTL DEF Spec

-----------------------------------------------------------------------------
(* The permissions.                                                        *)

RulesType ==
    /\ tried \in Calls /\ rules \subseteq R!Rules
    /\ saving \in [Procs -> [read : SUBSET R!Rules, add : SUBSET R!Rules]]

RulesInv == RulesType /\ R!AnswersKept

(* A check that has the user asked is not one the answer "always" settles: *)
(* the rule that answer left in the file allows the call, or a stronger    *)
(* rule of the file denies it or has it asked about again.                 *)
LEMMA SettledNotAsked ==
  ASSUME RulesInv, NEW p \in Procs, NEW e \in R!Settings, R!Decision(e, p, tried) = "ask"
  PROVE  ~R!Settled(e, p, tried)
<1> SUFFICES ASSUME R!Settled(e, p, tried) PROVE FALSE
  OBVIOUS
<1>1. /\ ~R!Refused(e, tried) /\ ~R!MustAsk(e, tried) /\ ~R!Granted(e, p, tried)
  BY DEF R!Decision, R!Settled
<1>2. /\ tried \in always \ R!Unspeakable /\ R!Segments(tried) = {tried}
      /\ ~broken /\ tried \notin overwritten
  BY <1>1 DEF R!Settled, R!Granted
<1>3. R!OwnRule(tried) \in R!Loaded
  BY <1>2 DEF RulesInv, R!AnswersKept, R!Loaded, R!OwnRule
<1>4. "allow" \in {r.effect : r \in {s \in R!Loaded : s.on = tried}}
  BY <1>3 DEF R!OwnRule
<1>5. R!Resolve(tried) \in {"deny", "ask", "allow"}
  BY <1>4 DEF R!Resolve, R!Strongest
<1>6. {R!Resolve(s) : s \in R!Segments(tried)} = {R!Resolve(tried)}
  BY <1>2
<1>7. R!Evaluate(tried) = R!Resolve(tried)
  BY <1>5, <1>6 DEF R!Evaluate, R!Strongest
<1> QED BY <1>1, <1>5, <1>7 DEF R!Refused, R!MustAsk, R!Granted

(* There are no rules and no answers at the start.                         *)
LEMMA RulesStart == R!Init => RulesInv
BY DEF R!Init, RulesInv, RulesType, R!AnswersKept, R!NoAppend

(* Every check, answer, append and edit of the file keeps the invariant.   *)
LEMMA RulesStep == ASSUME RulesInv, R!Next PROVE RulesInv'
<1> DEFINE Goal == RulesType' /\ (R!AnswersKept)'
<1>a. {tried} \cup R!Segments(tried) \subseteq Calls \cup UNION {R!Segments(c) : c \in Calls}
  BY DEF RulesInv, RulesType
<1>b. R!Loaded \subseteq R!Rules
  BY DEF RulesInv, RulesType, R!Loaded
<1>1. ASSUME NEW p \in Procs, R!Check(p, tried) PROVE Goal
  <2>1. again' = again
    <3> PICK needless \in {R!Settled(e, p, tried) :
                            e \in {s \in R!Settings : R!Decision(s, p, tried) = "ask"}} :
            again' = IF needless THEN again \cup {tried} ELSE again
      BY <1>1 DEF R!Check
    <3>1. PICK e \in R!Settings : /\ R!Decision(e, p, tried) = "ask"
                                  /\ needless = R!Settled(e, p, tried)
      OBVIOUS
    <3> QED BY <3>1, SettledNotAsked
  <2> QED BY <1>1, <2>1 DEF R!Check, RulesInv, RulesType, R!AnswersKept
<1>2. ASSUME NEW p \in Procs, R!Answered(p, tried) \/ R!Restart(p) PROVE Goal
  BY <1>2 DEF R!Answered, R!Restart, R!NoAppend, RulesInv, RulesType, R!AnswersKept
<1>3. ASSUME NEW p \in Procs, R!Always(p, tried) PROVE Goal
  <2>1. R!OwnRule(tried) \in R!Rules
    BY <1>a DEF R!OwnRule, R!Rules, R!Effects
  <2> QED BY <1>3, <1>b, <2>1 DEF R!Always, R!Reads, RulesInv, RulesType, R!AnswersKept
<1>4. ASSUME NEW p \in Procs, NEW c \in R!Segments(tried) \cup {tried}, NEW e \in R!Effects,
             R!AddRule(p, c, e)
      PROVE  Goal
  <2>1. [on |-> c, effect |-> e] \in R!Rules
    BY <1>a DEF R!Rules
  <2> QED BY <1>4, <1>b, <2>1 DEF R!AddRule, R!Reads, RulesInv, RulesType, R!AnswersKept
<1>5. ASSUME NEW p \in Procs, R!Replace(p) PROVE Goal
  <2> DEFINE s == saving[p]
             answered == asking[p] \cap {r.on : r \in {a \in s.add : a.effect = "allow"}}
  <2>1. /\ rules' = s.read \cup s.add
        /\ always' = always \cup answered
        /\ overwritten' =
               {c \in always : R!OwnRule(c) \notin s.read \cup s.add
                               /\ (c \in overwritten \/ R!Outdated(s))}
        /\ saving' = [saving EXCEPT ![p] = R!NoAppend]
        /\ UNCHANGED <<tried, again>>
    BY <1>5 DEF R!Replace, R!Written
  <2>2. s.read \subseteq R!Rules /\ s.add \subseteq R!Rules
    BY DEF RulesInv, RulesType
  <2>3. RulesType'
    BY <2>1, <2>2 DEF RulesInv, RulesType, R!NoAppend
  <2>4. \A c \in answered : R!OwnRule(c) \in rules'
    <3> SUFFICES ASSUME NEW c \in answered PROVE R!OwnRule(c) \in rules'
      OBVIOUS
    <3>1. PICK a \in s.add : a.effect = "allow" /\ a.on = c
      OBVIOUS
    <3>2. a = R!OwnRule(c)
      BY <2>2, <3>1 DEF R!OwnRule, R!Rules
    <3> QED BY <2>1, <3>2
  <2>5. \A c \in always' \ (overwritten' \cup R!Unspeakable) : R!OwnRule(c) \in rules'
    <3> SUFFICES ASSUME NEW c \in always \ R!Unspeakable, c \notin overwritten, ~R!Outdated(s)
                 PROVE  R!OwnRule(c) \in rules'
      <4> HIDE DEF answered, s
      <4> QED BY <2>1, <2>4
    <3>1. R!OwnRule(c) \in rules
      BY DEF RulesInv, R!AnswersKept
    <3>2. R!OwnRule(c) \in s.read
      BY <3>1 DEF R!Outdated, R!OwnRule
    <3> QED BY <2>1, <3>2
  <2> QED BY <2>1, <2>3, <2>5 DEF RulesInv, R!AnswersKept
<1>6. ASSUME NEW p \in Procs, R!Reset(p) PROVE Goal
  BY <1>6 DEF R!Reset, RulesInv, RulesType, R!AnswersKept
<1>7. ASSUME NEW c \in R!Segments(tried) \cup {tried}, R!UserWrites(c) PROVE Goal
  <2> PICK e \in {"ask", "deny"} : rules' = rules \cup {[on |-> c, effect |-> e]}
    BY <1>7 DEF R!UserWrites
  <2>1. [on |-> c, effect |-> e] \in R!Rules
    BY <1>a DEF R!Rules, R!Effects
  <2> QED BY <1>7, <2>1 DEF R!UserWrites, RulesInv, RulesType, R!AnswersKept
<1>8. ASSUME R!UserBreaks PROVE Goal
  BY <1>8 DEF R!UserBreaks, RulesInv, RulesType, R!AnswersKept
<1> QED BY <1>1, <1>2, <1>3, <1>4, <1>5, <1>6, <1>7, <1>8 DEF R!Next, RulesInv

(* Who is not looked at does not move.                                     *)
LEMMA RulesStay == ASSUME RulesInv, UNCHANGED permissions PROVE RulesInv'
BY DEF RulesInv, RulesType, R!AnswersKept, permissions

-----------------------------------------------------------------------------
(* The hooks.                                                              *)

(* The hooks in a list.                                                    *)
Elements(s) == {s[i] : i \in DOMAIN s}

Distinct(s) == \A i, j \in DOMAIN s : s[i] = s[j] => i = j

(* What is left of a list of different hooks when its head is taken off.   *)
LEMMA TailElements ==
  ASSUME NEW T, NEW s \in Seq(T), s # <<>>, Distinct(s)
  PROVE  /\ Head(s) \in Elements(s) /\ Tail(s) \in Seq(T) /\ Distinct(Tail(s))
         /\ Elements(Tail(s)) = Elements(s) \ {Head(s)}
<1>1. Head(s) = s[1] /\ Len(Tail(s)) = Len(s) - 1 /\ Len(s) \in Nat \ {0} /\ Tail(s) \in Seq(T)
  OBVIOUS
<1>2. \A i \in DOMAIN Tail(s) : i + 1 \in DOMAIN s /\ Tail(s)[i] = s[i + 1] /\ i \in 1..(Len(s) - 1)
  OBVIOUS
<1>3. \A i \in DOMAIN s : i = 1 \/ (i - 1 \in DOMAIN Tail(s) /\ Tail(s)[i - 1] = s[i])
  OBVIOUS
<1>4. 1 \in DOMAIN s /\ DOMAIN s = 1..Len(s)
  OBVIOUS
<1>5. Distinct(Tail(s))
  <2> SUFFICES ASSUME NEW i \in DOMAIN Tail(s), NEW j \in DOMAIN Tail(s), Tail(s)[i] = Tail(s)[j]
               PROVE  i = j
    BY DEF Distinct
  <2>1. i + 1 = j + 1
    BY <1>2 DEF Distinct
  <2> QED BY <2>1, <1>2
<1>6. \A h \in Elements(Tail(s)) : h \in Elements(s) /\ h # Head(s)
  <2> SUFFICES ASSUME NEW i \in DOMAIN Tail(s)
               PROVE  Tail(s)[i] \in Elements(s) /\ Tail(s)[i] # Head(s)
    BY DEF Elements
  <2>1. s[i + 1] # s[1]
    <3>1. i + 1 # 1
      BY <1>2
    <3> QED BY <1>2, <1>4, <3>1 DEF Distinct
  <2> QED BY <1>1, <1>2, <2>1 DEF Elements
<1>7. \A h \in Elements(s) : h = Head(s) \/ h \in Elements(Tail(s))
  BY <1>1, <1>3 DEF Elements
<1> QED BY <1>1, <1>4, <1>5, <1>6, <1>7 DEF Elements

(* The hooks an event takes are put in the order of the configuration: the *)
(* list has each of them once and nothing else.                            *)
LEMMA InOrderLists ==
  ASSUME NEW taken \in SUBSET K!Ordinal
  PROVE  /\ K!InOrder(taken) \in Seq(K!Ordinal)
         /\ Elements(K!InOrder(taken)) = taken /\ Distinct(K!InOrder(taken))
<1> USE WorkspaceAssumption DEF WorkspaceAssumption
<1> DEFINE Upto(n) == {h \in taken : h <= n}
           Reached == {n \in Nat : \E k \in 0..n : \E s \in [1..k -> Upto(n)] : K!Ordered(Upto(n), s)}
<1>0. taken \subseteq Int /\ taken \subseteq 1..MaxHooks /\ MaxHooks \in Nat
  BY DEF K!Ordinal
<1>a. \A h \in taken : h \in Int /\ 1 <= h /\ h <= MaxHooks
  BY <1>0
<1>1. 0 \in Reached
  <2> DEFINE s == [i \in 1..0 |-> 0]
  <2>1. Upto(0) = {}
    BY <1>a
  <2>2. s \in [1..0 -> Upto(0)] /\ DOMAIN s = {}
    OBVIOUS
  <2> HIDE DEF s
  <2>3. K!Ordered(Upto(0), s)
    BY <2>1, <2>2 DEF K!Ordered
  <2>4. s \in [1..0 -> Upto(0)] /\ 0 \in 0..0 /\ 0 \in Nat
    BY <2>2
  <2> HIDE DEF Upto
  <2> QED BY <2>3, <2>4
<1>2. ASSUME NEW n \in 1..MaxHooks, n - 1 \in Reached PROVE n \in Reached
  <2> PICK k \in 0..(n - 1) : \E s \in [1..k -> Upto(n - 1)] : K!Ordered(Upto(n - 1), s)
    BY <1>2
  <2> PICK s \in [1..k -> Upto(n - 1)] : K!Ordered(Upto(n - 1), s)
    OBVIOUS
  <2>0. n \in Nat
    OBVIOUS
  <2>1. CASE n \notin taken
    <3>1. Upto(n) = Upto(n - 1)
      BY <2>1, <1>a
    <3>2. k \in 0..n
      OBVIOUS
    <3> QED BY <2>0, <3>1, <3>2
  <2>2. CASE n \in taken
    <3> DEFINE g == [i \in 1..(k + 1) |-> IF i = k + 1 THEN n ELSE s[i]]
    <3>0. \A h \in taken : h <= n <=> (h <= n - 1 \/ h = n)
      BY <1>a
    <3>1. Upto(n) = Upto(n - 1) \cup {n}
      BY <2>2, <3>0
    <3>2. \A i \in 1..k : s[i] \in Upto(n - 1) /\ s[i] < n
      BY <1>a
    <3> HIDE DEF Upto
    <3>3. /\ k + 1 \in 1..(k + 1) /\ \A i \in 1..(k + 1) : i = k + 1 \/ (i \in 1..k /\ i # k + 1)
          /\ \A i \in 1..k : i \in 1..(k + 1) /\ i # k + 1
      OBVIOUS
    <3>4. DOMAIN g = 1..(k + 1) /\ g[k + 1] = n /\ \A i \in 1..k : g[i] = s[i]
      BY <3>3
    <3>a. g \in [1..(k + 1) -> Upto(n)]
      BY <3>1, <3>2, <3>3
    <3> HIDE DEF g
    <3>5. \A i, j \in DOMAIN g : i < j => g[i] < g[j]
      <4> SUFFICES ASSUME NEW i \in DOMAIN g, NEW j \in DOMAIN g, i < j PROVE g[i] < g[j]
        OBVIOUS
      <4>1. i \in 1..k
        BY <3>4
      <4>2. CASE j = k + 1
        BY <3>2, <3>4, <4>1, <4>2
      <4>3. CASE j \in 1..k
        BY <3>4, <4>1, <4>3 DEF K!Ordered
      <4> QED BY <3>3, <3>4, <4>2, <4>3
    <3>6. Upto(n) = {g[i] : i \in DOMAIN g}
      <4>1. Upto(n - 1) = {s[i] : i \in 1..k}
        BY DEF K!Ordered
      <4> QED BY <3>1, <3>3, <3>4, <4>1
    <3>7. K!Ordered(Upto(n), g)
      BY <3>5, <3>6 DEF K!Ordered
    <3>8. k + 1 \in 0..n
      OBVIOUS
    <3> QED BY <2>0, <3>a, <3>7, <3>8 DEF Upto
  <2> QED BY <2>1, <2>2
<1>3. \A n \in 0..MaxHooks : n \in Reached
  <2> HIDE DEF Reached
  <2> QED BY <1>1, <1>2, UpTo
<1>4. PICK k \in 0..MaxHooks :
         \E s \in [1..k -> Upto(MaxHooks)] : K!Ordered(Upto(MaxHooks), s)
  <2>1. MaxHooks \in Reached
    <3> HIDE DEF Reached
    <3>1. MaxHooks \in 0..MaxHooks
      BY <1>0
    <3> QED BY <1>3, <3>1
  <2> QED BY <2>1
<1>5. Upto(MaxHooks) = taken
  BY <1>a
<1> HIDE DEF Upto, Reached
<1>6. \E order \in UNION {[1..n -> taken] : n \in 0..MaxHooks} : K!Ordered(taken, order)
  BY <1>4, <1>5
<1>7. /\ K!InOrder(taken) \in UNION {[1..n -> taken] : n \in 0..MaxHooks}
      /\ K!Ordered(taken, K!InOrder(taken))
  BY <1>6 DEF K!InOrder
<1> DEFINE o == K!InOrder(taken)
<1> HIDE DEF o
<1>8. PICK n \in 0..MaxHooks : o \in [1..n -> taken]
  BY <1>7 DEF o
<1>9. o \in Seq(K!Ordinal)
  <2>1. o \in [1..n -> K!Ordinal] /\ n \in Nat
    BY <1>8
  <2> QED BY <2>1, SeqDef
<1>10. Elements(o) = taken
  BY <1>7 DEF o, K!Ordered, Elements
<1>11. Distinct(o)
  <2> SUFFICES ASSUME NEW i \in 1..n, NEW j \in 1..n, o[i] = o[j] PROVE i = j
    BY <1>8 DEF Distinct
  <2>1. (i < j => o[i] < o[j]) /\ (j < i => o[j] < o[i])
    BY <1>7, <1>8 DEF o, K!Ordered
  <2>2. o[i] \in Int /\ o[j] \in Int
    BY <1>8, <1>a
  <2> QED BY <2>1, <2>2
<1> QED BY <1>9, <1>10, <1>11 DEF o

HooksType ==
    /\ kind \in [K!Ordinal -> K!Accepted] /\ executed \subseteq K!Ordinal
    /\ at \in [Agents -> {"idle", "before", "tool", "after"}]
    /\ todo \in [Agents -> Seq(K!Ordinal)]
    /\ firing \in [Agents -> K!Ordinal \cup {K!None}]
    /\ owed \in [Agents -> SUBSET K!Ordinal]
    /\ heard \in [Agents -> SUBSET (K!Ordinal \X K!Outcomes)]

(* A hook for once that has been begun waits nowhere, and no hook waits    *)
(* for two events, but for the doubled ones.                               *)
HooksOnce ==
    /\ twice \subseteq doubled
    /\ \A c \in Agents : Distinct(todo[c])
    /\ \A c \in Agents : \A h \in Elements(todo[c]) :
           kind[h].once /\ h \in executed => h \in doubled
    /\ \A c, d \in Agents : c # d => Elements(todo[c]) \cap Elements(todo[d]) \subseteq doubled

(* Let through: a hook has ended without refusing.                         *)
Passed(c, h) == <<h, "raised">> \in heard[c] \/ (<<h, "fine">> \in heard[c] /\ ~kind[h].reject)

(* A call waits for each of its hooks: it is still to begin, it is awaited *)
(* or it has let the call through.  None of them is asynchronous.          *)
HooksAwaited ==
    \A c \in Agents :
        /\ at[c] \in {"idle", "tool"} => todo[c] = <<>> /\ firing[c] = K!None
        /\ at[c] = "before" =>
               /\ Elements(todo[c]) \subseteq owed[c]
               /\ firing[c] \in owed[c] \cup {K!None}
               /\ \A h \in owed[c] : /\ kind[h].event = "before"
                                     /\ \/ h \in Elements(todo[c]) \/ h = firing[c]
                                        \/ Passed(c, h)
        /\ at[c] = "tool" => \A h \in owed[c] : Passed(c, h)

HooksInv == HooksType /\ HooksOnce /\ HooksAwaited

(* No event has happened at the start.                                     *)
LEMMA HooksStart == K!Init => HooksInv
<1> SUFFICES ASSUME K!Init PROVE HooksInv
  OBVIOUS
<1>1. Elements(<<>>) = {} /\ Distinct(<<>>)
  BY DEF Elements, Distinct
<1>2. HooksType
  <2>1. <<>> \in Seq(K!Ordinal)
    OBVIOUS
  <2> QED BY <2>1 DEF HooksType, K!Init
<1>3. HooksOnce
  BY <1>1 DEF HooksOnce, K!Init
<1>4. HooksAwaited
  BY DEF HooksAwaited, K!Init
<1> QED BY <1>2, <1>3, <1>4 DEF HooksInv

(* An event takes its hooks: each of them has not been begun if it is for  *)
(* once, and those another event waits with are noted.                     *)
LEMMA HooksTaken ==
  ASSUME HooksInv, NEW c \in Agents, NEW taken \in SUBSET K!Ordinal,
         \A h \in taken : K!ShouldRun(h),
         todo' = [todo EXCEPT ![c] = K!InOrder(taken)],
         doubled' = doubled \cup (taken \cap K!Waiting),
         UNCHANGED <<kind, executed, twice>>
  PROVE  /\ HooksOnce' /\ todo' \in [Agents -> Seq(K!Ordinal)]
         /\ Elements(todo'[c]) = taken
         /\ \A d \in Agents \ {c} : todo'[d] = todo[d]
<1>1. /\ K!InOrder(taken) \in Seq(K!Ordinal) /\ Elements(K!InOrder(taken)) = taken
      /\ Distinct(K!InOrder(taken))
  BY InOrderLists
<1>2. /\ todo' \in [Agents -> Seq(K!Ordinal)] /\ todo'[c] = K!InOrder(taken)
      /\ \A d \in Agents \ {c} : todo'[d] = todo[d]
  BY <1>1 DEF HooksInv, HooksType
<1>3. \A d \in Agents : Elements(todo[d]) \subseteq K!Waiting
  BY DEF K!Waiting, Elements
<1>4. \A d \in Agents : Distinct(todo'[d])
  BY <1>1, <1>2 DEF HooksInv, HooksOnce
<1>5. \A d \in Agents : \A h \in Elements(todo'[d]) :
          kind[h].once /\ h \in executed => h \in doubled'
  BY <1>1, <1>2 DEF HooksInv, HooksOnce, K!ShouldRun
<1>6. ASSUME NEW d \in Agents, NEW e \in Agents, d # e
      PROVE  Elements(todo'[d]) \cap Elements(todo'[e]) \subseteq doubled'
  BY <1>1, <1>2, <1>3, <1>6 DEF HooksInv, HooksOnce
<1>7. HooksOnce'
  BY <1>4, <1>5, <1>6 DEF HooksInv, HooksOnce
<1> QED BY <1>1, <1>2, <1>7

(* Every event, hook and call keeps the invariant.                         *)
LEMMA HooksStep == ASSUME HooksInv, K!Next PROVE HooksInv'
<1>a. Elements(<<>>) = {} /\ Distinct(<<>>) /\ <<>> \in Seq(K!Ordinal)
  BY DEF Elements, Distinct
<1>1. ASSUME NEW c \in Agents, K!AskToCall(c) PROVE HooksInv'
  <2> PICK taken \in K!Matching("before") :
        /\ todo' = [todo EXCEPT ![c] = K!InOrder(taken)]
        /\ owed' = [owed EXCEPT ![c] = taken]
        /\ doubled' = doubled \cup (taken \cap K!Waiting)
    BY <1>1 DEF K!AskToCall
  <2>1. /\ taken \in SUBSET K!Ordinal
        /\ \A h \in taken : K!ShouldRun(h) /\ kind[h].event = "before"
    BY DEF K!Matching
  <2>2. /\ at' = [at EXCEPT ![c] = "before"]
        /\ UNCHANGED <<kind, executed, twice, firing, heard>>
    BY <1>1 DEF K!AskToCall
  <2>3. /\ HooksOnce' /\ todo' \in [Agents -> Seq(K!Ordinal)]
        /\ Elements(todo'[c]) = taken
        /\ \A d \in Agents \ {c} : todo'[d] = todo[d]
    BY <2>1, <2>2, HooksTaken
  <2>4. HooksType'
    BY <2>1, <2>2, <2>3 DEF HooksInv, HooksType
  <2>5. firing[c] = K!None
    BY <1>1 DEF K!AskToCall, HooksInv, HooksAwaited
  <2>6. HooksAwaited'
    BY <2>1, <2>2, <2>3, <2>5 DEF HooksInv, HooksType, HooksAwaited, Passed
  <2> QED BY <2>3, <2>4, <2>6 DEF HooksInv

<1>2. ASSUME NEW c \in Agents, K!Happens(c) PROVE HooksInv'
  <2> PICK taken \in K!Matching("after") :
        /\ todo' = [todo EXCEPT ![c] = K!InOrder(taken)]
        /\ doubled' = doubled \cup (taken \cap K!Waiting)
    BY <1>2 DEF K!Happens
  <2>1. /\ taken \in SUBSET K!Ordinal
        /\ \A h \in taken : K!ShouldRun(h)
    BY DEF K!Matching
  <2>2. /\ at' = [at EXCEPT ![c] = "after"]
        /\ owed' = [owed EXCEPT ![c] = {}] /\ heard' = [heard EXCEPT ![c] = {}]
        /\ UNCHANGED <<kind, executed, twice, firing>>
    BY <1>2 DEF K!Happens
  <2>3. /\ HooksOnce' /\ todo' \in [Agents -> Seq(K!Ordinal)]
        /\ Elements(todo'[c]) = taken
        /\ \A d \in Agents \ {c} : todo'[d] = todo[d]
    BY <2>1, <2>2, HooksTaken
  <2>4. HooksType'
    BY <2>1, <2>2, <2>3 DEF HooksInv, HooksType
  <2>5. HooksAwaited'
    BY <2>1, <2>2, <2>3 DEF HooksInv, HooksType, HooksAwaited, Passed
  <2> QED BY <2>3, <2>4, <2>5 DEF HooksInv
<1>3. ASSUME NEW c \in Agents, K!Begin(c) PROVE HooksInv'
  <2> DEFINE h == Head(todo[c])
             rest == Tail(todo[c])
  <2>1. todo[c] # <<>> /\ firing[c] = K!None /\ todo[c] \in Seq(K!Ordinal) /\ Distinct(todo[c])
    BY <1>3 DEF K!Begin, HooksInv, HooksType, HooksOnce
  <2>2. /\ h \in Elements(todo[c]) /\ rest \in Seq(K!Ordinal) /\ Distinct(rest)
        /\ Elements(rest) = Elements(todo[c]) \ {h}
    BY <2>1, TailElements
  <2>3. Elements(todo[c]) \subseteq K!Ordinal
    <3>1. \A i \in DOMAIN todo[c] : todo[c][i] \in K!Ordinal
      BY <2>1
    <3> QED BY <3>1 DEF Elements
  <2>4. /\ todo' = [todo EXCEPT ![c] = rest]
        /\ executed' = executed \cup {h}
        /\ twice' = IF kind[h].once /\ h \in executed THEN twice \cup {h} ELSE twice
        /\ firing' = IF kind[h].async THEN firing ELSE [firing EXCEPT ![c] = h]
        /\ UNCHANGED <<kind, doubled, at, owed, heard>>
    BY <1>3 DEF K!Begin
  <2> HIDE DEF h, rest
  <2>5. HooksType'
    BY <2>2, <2>3, <2>4 DEF HooksInv, HooksType
  <2>6. todo'[c] = rest /\ \A d \in Agents \ {c} : todo'[d] = todo[d]
    BY <2>4 DEF HooksInv, HooksType
  <2>7. HooksOnce'
    <3>1. (twice \subseteq doubled)'
      BY <2>2, <2>4 DEF HooksInv, HooksOnce
    <3>2. \A d \in Agents : Distinct(todo'[d])
      BY <2>2, <2>6 DEF HooksInv, HooksOnce
    <3>3. \A d \in Agents : \A k \in Elements(todo'[d]) :
              kind[k].once /\ k \in executed' => k \in doubled
      BY <2>2, <2>4, <2>6 DEF HooksInv, HooksOnce
    <3>4. \A d, e \in Agents :
              d # e => Elements(todo'[d]) \cap Elements(todo'[e]) \subseteq doubled
      BY <2>2, <2>6 DEF HooksInv, HooksOnce
    <3> QED BY <2>4, <3>1, <3>2, <3>3, <3>4 DEF HooksOnce
  <2>8. at[c] \in {"before", "after"}
    BY <2>1 DEF HooksInv, HooksType, HooksAwaited
  <2>9. at[c] = "before" => h \in owed[c] /\ ~kind[h].async
    <3>1. at[c] = "before" => h \in owed[c] /\ kind[h].event = "before"
      BY <2>2 DEF HooksInv, HooksAwaited
    <3> QED BY <2>2, <2>3, <3>1 DEF HooksInv, HooksType, K!Accepted
  <2>10. /\ \A d \in Agents \ {c} : firing'[d] = firing[d]
         /\ at[c] = "before" => firing'[c] = h
    BY <2>4, <2>9 DEF HooksInv, HooksType
  <2>11. HooksAwaited'
    <3> USE <2>4 DEF HooksInv, HooksAwaited, Passed
    <3>1. at[c] \notin {"idle", "tool"}
      BY <2>8
    <3>2. ASSUME at[c] = "before"
          PROVE  /\ Elements(todo'[c]) \subseteq owed[c]
                 /\ firing'[c] \in owed[c] \cup {K!None}
                 /\ \A k \in owed[c] : /\ kind[k].event = "before"
                                       /\ \/ k \in Elements(todo'[c]) \/ k = firing'[c]
                                          \/ Passed(c, k)
      <4>1. K!None \notin owed[c]
        BY DEF HooksType, K!None, K!Ordinal
      <4> QED BY <2>1, <2>2, <2>6, <2>9, <2>10, <3>2, <4>1
    <3>3. at[c] # "tool"
      BY <2>8
    <3> QED BY <2>6, <2>10, <3>1, <3>2, <3>3
  <2> QED BY <2>5, <2>7, <2>11 DEF HooksInv
<1>4. ASSUME NEW c \in Agents, K!Over(c), UNCHANGED <<kind, executed, twice, doubled>>
      PROVE  HooksInv'
  <2>1. HooksType'
    BY <1>a, <1>4 DEF K!Over, HooksInv, HooksType
  <2>2. HooksOnce'
    BY <1>a, <1>4 DEF K!Over, HooksInv, HooksType, HooksOnce
  <2>3. HooksAwaited'
    BY <1>a, <1>4 DEF K!Over, HooksInv, HooksType, HooksAwaited, Passed
  <2> QED BY <2>1, <2>2, <2>3 DEF HooksInv
<1>5. ASSUME NEW c \in Agents, K!Ends(c) PROVE HooksInv'
  <2> PICK outcome \in K!Outcomes :
        IF at[c] = "before" /\ K!Refused(firing[c], outcome) THEN K!Over(c)
        ELSE /\ firing' = [firing EXCEPT ![c] = K!None]
             /\ heard' = IF at[c] = "before"
                         THEN [heard EXCEPT ![c] = @ \cup {<<firing[c], outcome>>}]
                         ELSE heard
             /\ UNCHANGED <<at, todo, owed>>
    BY <1>5 DEF K!Ends
  <2>1. firing[c] # K!None /\ UNCHANGED <<kind, executed, twice, doubled>>
    BY <1>5 DEF K!Ends
  <2>2. CASE at[c] = "before" /\ K!Refused(firing[c], outcome)
    BY <1>4, <2>1, <2>2
  <2>3. CASE at[c] = "before" /\ ~K!Refused(firing[c], outcome)
    <3>1. /\ firing' = [firing EXCEPT ![c] = K!None]
          /\ heard' = [heard EXCEPT ![c] = @ \cup {<<firing[c], outcome>>}]
          /\ UNCHANGED <<at, todo, owed>>
      BY <2>3
    <3>2. HooksType'
      BY <2>1, <3>1 DEF HooksInv, HooksType
    <3>3. HooksOnce'
      BY <2>1, <3>1 DEF HooksInv, HooksOnce
    <3>4. /\ \A d \in Agents \ {c} : heard'[d] = heard[d] /\ firing'[d] = firing[d]
          /\ heard'[c] = heard[c] \cup {<<firing[c], outcome>>} /\ firing'[c] = K!None
      BY <3>1 DEF HooksInv, HooksType
    <3>5. outcome = "raised" \/ (outcome = "fine" /\ ~kind[firing[c]].reject)
      BY <2>3 DEF K!Refused, K!Outcomes
    <3>6. \A h : Passed(c, h) => Passed(c, h)'
      BY <2>1, <3>4 DEF Passed
    <3>8. \A h : h = firing[c] => Passed(c, h)'
      BY <2>1, <3>4, <3>5 DEF Passed
    <3>9. \A d \in Agents \ {c} : \A h : Passed(d, h)' = Passed(d, h)
      BY <2>1, <3>4 DEF Passed
    <3>10. HooksAwaited'
      BY <2>1, <2>3, <3>1, <3>4, <3>6, <3>8, <3>9 DEF HooksInv, HooksAwaited
    <3> QED BY <3>2, <3>3, <3>10 DEF HooksInv
  <2>4. CASE at[c] # "before"
    <3>1. /\ firing' = [firing EXCEPT ![c] = K!None]
          /\ UNCHANGED <<at, todo, owed, heard>>
      BY <2>4
    <3>2. HooksType'
      BY <2>1, <3>1 DEF HooksInv, HooksType
    <3>3. HooksOnce'
      BY <2>1, <3>1 DEF HooksInv, HooksOnce
    <3>4. HooksAwaited'
      BY <2>1, <2>4, <3>1 DEF HooksInv, HooksType, HooksAwaited, Passed
    <3> QED BY <3>2, <3>3, <3>4 DEF HooksInv
  <2> QED BY <2>2, <2>3, <2>4
<1>6. ASSUME NEW c \in Agents, K!Runs(c) PROVE HooksInv'
  <2>1. HooksType'
    BY <1>6 DEF K!Runs, HooksInv, HooksType
  <2>2. HooksOnce'
    BY <1>6 DEF K!Runs, HooksInv, HooksOnce
  <2>3. HooksAwaited'
    <3>1. at[c] = "before" /\ todo[c] = <<>> /\ firing[c] = K!None
      BY <1>6 DEF K!Runs
    <3>2. \A h \in owed[c] : Passed(c, h)
      <4>1. K!None \notin owed[c]
        BY DEF HooksInv, HooksType, K!None, K!Ordinal
      <4> QED BY <1>a, <3>1, <4>1 DEF HooksInv, HooksAwaited
    <3>3. /\ at' = [at EXCEPT ![c] = "tool"]
          /\ UNCHANGED <<kind, executed, twice, doubled, todo, firing, owed, heard>>
      BY <1>6 DEF K!Runs
    <3> QED BY <3>1, <3>2, <3>3 DEF HooksInv, HooksType, HooksAwaited, Passed
  <2> QED BY <2>1, <2>2, <2>3 DEF HooksInv
<1>7. ASSUME NEW c \in Agents, K!GoesOn(c) \/ K!IsCut(c) PROVE HooksInv'
  BY <1>4, <1>7 DEF K!GoesOn, K!IsCut
<1> QED BY <1>1, <1>2, <1>3, <1>5, <1>6, <1>7 DEF K!Next

(* Who is not looked at does not move.                                     *)
LEMMA HooksStay == ASSUME HooksInv, UNCHANGED hooks PROVE HooksInv'
BY DEF HooksInv, HooksType, HooksOnce, HooksAwaited, Passed, hooks

(* checker.py, rules.py, hooks/: "always" is for always, a hook's refusal  *)
(* holds, and hooks for once run once.                                     *)
THEOREM AnswersStayKept == Spec => []AnswersKept
<1>1. Init => RulesInv /\ HooksInv
  BY RulesStart, HooksStart DEF Init
<1>2. RulesInv /\ [Next]_<<focus, vars>> => RulesInv'
  BY RulesStep, RulesStay DEF Next, vars
<1>3. HooksInv /\ [Next]_<<focus, vars>> => HooksInv'
  BY HooksStep, HooksStay DEF Next, vars
<1>4. RulesInv /\ HooksInv => AnswersKept
  <2>1. HooksInv => K!HooksKept
    BY DEF HooksInv, HooksOnce, HooksAwaited, Passed, K!HooksKept
  <2> QED BY <2>1 DEF RulesInv, AnswersKept
<1> QED BY <1>1, <1>2, <1>3, <1>4, PTL DEF Spec

-----------------------------------------------------------------------------
(* The processes.                                                          *)

ProcessesType ==
    /\ root \in Roots \cup {Nowhere} /\ bashRoot \in Roots \cup {Nowhere} /\ agentDir \in Roots
    /\ call \in [Ids -> {"new", "waited", "kept", "over"}]
    /\ tasks \in [Ids -> P!Status] /\ records \in [Roots -> [Ids -> P!Status]]
    /\ moved \in BOOLEAN

(* A command that has not been kept is nowhere on record.                  *)
Unrecorded ==
    \A i \in Ids : call[i] \in {"new", "waited"} =>
        tasks[i] = "absent" /\ \A r \in Roots : records[r][i] = "absent"

(* A task that runs and can be stopped has a watcher, and a stop waits for *)
(* a process that is watched or dead.                                      *)
StopsWatched ==
    /\ \A i \in held : tasks[i] = "running" => i \in watched
    /\ held \subseteq Ids /\ stopping \subseteq Ids
    /\ \A i \in stopping : i \in alive => i \in watched
    /\ \A i \in held \cup stopping : call[i] = "kept"

ProcessesInv == ProcessesType /\ Unrecorded /\ StopsWatched /\ P!ProcessesKept

(* There are no commands at the start.                                     *)
LEMMA ProcessesStart == P!Init => ProcessesInv
<1> SUFFICES ASSUME P!Init PROVE ProcessesInv
  OBVIOUS
<1>1. /\ \A i \in Ids : tasks[i] = "absent" /\ \A r \in Roots : records[r][i] = "absent"
      /\ ProcessesType
  BY DEF P!Init, ProcessesType, P!Status
<1>2. Unrecorded /\ StopsWatched
  BY <1>1 DEF P!Init, Unrecorded, StopsWatched
<1>3. P!ProcessesKept
  BY <1>1 DEF P!Init, P!ProcessesKept, P!StatusTrue, P!FileCurrent, P!Stoppable, P!Final
<1> QED BY <1>1, <1>2, <1>3 DEF ProcessesInv

(* Another root's file takes the place of the tasks in memory.             *)
LEMMA ConfigureKeeps ==
  ASSUME ProcessesInv, NEW r \in Roots, P!Configure(r), UNCHANGED <<watched, records>>
  PROVE  /\ root' \in Roots /\ tasks' \in [Ids -> P!Status] /\ moved' \in BOOLEAN
         /\ \A i \in Ids : /\ call[i] \in {"new", "waited"} => tasks'[i] = "absent"
                           /\ tasks'[i] \in P!Final => i \notin alive
         /\ \A i \in held' : i \in held /\ (tasks'[i] = "running" => i \in watched)
         /\ (P!FileCurrent)' /\ (moved \/ P!Stoppable)'
<1> USE DEF ProcessesInv, ProcessesType, P!Status, P!Final
<1>1. CASE root = r
  BY <1>1 DEF P!Configure, P!Moves, Unrecorded, StopsWatched, P!ProcessesKept, P!StatusTrue,
              P!FileCurrent, P!Stoppable
<1>2. CASE root # r
  <2>1. /\ root' = r /\ held' = {} /\ moved' = (moved \/ watched # {})
        /\ tasks' = [i \in Ids |-> IF records[r][i] = "running" THEN "detached"
                                   ELSE records[r][i]]
    BY <1>2 DEF P!Configure, P!Moves, P!Loaded
  <2>2. tasks' \in [Ids -> P!Status]
    BY <2>1
  <2>3. \A i \in Ids : /\ call[i] \in {"new", "waited"} => tasks'[i] = "absent"
                       /\ tasks'[i] \in P!Final => i \notin alive
    BY <2>1 DEF Unrecorded, P!ProcessesKept, P!StatusTrue
  <2>4. (P!FileCurrent)'
    BY <2>1 DEF P!FileCurrent
  <2>5. (moved \/ P!Stoppable)'
    BY <2>1 DEF P!Stoppable
  <2> QED BY <2>1, <2>2, <2>3, <2>4, <2>5
<1> QED BY <1>1, <1>2

(* Every command, its end and every stop keep the invariant.               *)
LEMMA ProcessesStep == ASSUME ProcessesInv, P!Next PROVE ProcessesInv'
<1> USE DEF ProcessesInv, ProcessesType
<1>1. ASSUME NEW i \in Ids, P!Start(i) PROVE ProcessesInv'
  <2>1. /\ P!BashDir \in Roots /\ bashRoot' = P!BashDir /\ P!Configure(P!BashDir)
        /\ call[i] = "new" /\ call' = [call EXCEPT ![i] = "waited"] /\ alive' = alive \cup {i}
        /\ UNCHANGED <<agentDir, watched, stopping, records>>
    BY <1>1 DEF P!Start, P!BashDir
  <2>2. /\ root' \in Roots /\ tasks' \in [Ids -> P!Status] /\ moved' \in BOOLEAN
        /\ \A j \in Ids : /\ call[j] \in {"new", "waited"} => tasks'[j] = "absent"
                          /\ tasks'[j] \in P!Final => j \notin alive
        /\ \A j \in held' : j \in held /\ (tasks'[j] = "running" => j \in watched)
        /\ (P!FileCurrent)' /\ (moved \/ P!Stoppable)'
    BY <2>1, ConfigureKeeps
  <2>3. ProcessesType'
    BY <2>1, <2>2
  <2>4. Unrecorded'
    BY <2>1, <2>2 DEF Unrecorded
  <2>5. i \notin stopping
    BY <2>1 DEF StopsWatched
  <2>6. StopsWatched'
    BY <2>1, <2>2, <2>5 DEF StopsWatched
  <2>7. (P!StatusTrue)'
    BY <2>1, <2>2 DEF Unrecorded, P!ProcessesKept, P!StatusTrue, P!Final
  <2> QED BY <2>2, <2>3, <2>4, <2>6, <2>7 DEF P!ProcessesKept

<1>2. ASSUME NEW i \in Ids, P!Adopt(i) PROVE ProcessesInv'
  <2>1. /\ call[i] = "waited" /\ call' = [call EXCEPT ![i] = "kept"]
        /\ tasks' = [tasks EXCEPT ![i] = "running"]
        /\ records' = [records EXCEPT ![root] = tasks']
        /\ held' = held \cup {i} /\ watched' = watched \cup {i}
        /\ UNCHANGED <<root, bashRoot, agentDir, alive, stopping, moved>>
    BY <1>2 DEF P!Adopt, P!Persisted
  <2>2. ProcessesType'
    BY <2>1 DEF P!Status
  <2>3. /\ tasks'[i] = "running" /\ \A j \in Ids \ {i} : tasks'[j] = tasks[j]
        /\ \A r \in Roots : records'[r] = IF r = root THEN tasks' ELSE records[r]
        /\ call'[i] = "kept" /\ \A j \in Ids \ {i} : call'[j] = call[j]
    BY <2>1
  <2>4. Unrecorded'
    BY <2>3 DEF Unrecorded
  <2>5. StopsWatched'
    BY <2>1, <2>3 DEF StopsWatched
  <2>6. (P!ProcessesKept)'
    BY <2>1, <2>3 DEF P!ProcessesKept, P!StatusTrue, P!FileCurrent, P!Stoppable, P!Final
  <2> QED BY <2>2, <2>4, <2>5, <2>6
<1>3. ASSUME NEW i \in Ids, P!Finish(i) \/ P!Ends(i) \/ P!Killed(i) PROVE ProcessesInv'
  <2>1. /\ alive' = alive \ {i}
        /\ \/ UNCHANGED call
           \/ call[i] = "waited" /\ call' = [call EXCEPT ![i] = "over"]
        /\ UNCHANGED <<root, bashRoot, agentDir, tasks, held, watched, stopping, records, moved>>
    BY <1>3 DEF P!Finish, P!Ends, P!Killed
  <2>2. ProcessesType'
    BY <2>1
  <2>3. \A j \in Ids : call'[j] = call[j] \/ (call[j] = "waited" /\ call'[j] = "over")
    BY <2>1
  <2>a. Unrecorded'
    BY <2>1, <2>3 DEF Unrecorded
  <2>b. StopsWatched'
    BY <2>1, <2>3 DEF StopsWatched
  <2>4. (P!ProcessesKept)'
    BY <2>1 DEF P!ProcessesKept, P!StatusTrue, P!FileCurrent, P!Stoppable
  <2> QED BY <2>2, <2>a, <2>b, <2>4
<1>4. ASSUME NEW i \in Ids, P!Watch(i) \/ P!Stopped(i) PROVE ProcessesInv'
  <2>1. PICK s \in P!Final : tasks' = IF i \in held THEN [tasks EXCEPT ![i] = s] ELSE tasks
    BY <1>4 DEF P!Watch, P!Stopped, P!Final
  <2>2. /\ records' = [records EXCEPT ![root] = tasks']
        /\ i \notin alive
        /\ \/ watched' = watched \ {i} /\ UNCHANGED stopping
           \/ i \notin watched /\ stopping' = stopping \ {i} /\ UNCHANGED watched
        /\ UNCHANGED <<root, bashRoot, agentDir, call, alive, held, moved>>
    BY <1>4 DEF P!Watch, P!Stopped, P!Persisted, StopsWatched
  <2>3. ProcessesType'
    BY <2>1, <2>2 DEF P!Status
  <2>4. /\ tasks'[i] = tasks[i] \/ (i \in held /\ tasks'[i] \in P!Final)
        /\ i \in held => tasks'[i] # "running"
        /\ \A j \in Ids \ {i} : tasks'[j] = tasks[j]
        /\ \A r \in Roots : records'[r] = IF r = root THEN tasks' ELSE records[r]
    BY <2>1, <2>2 DEF P!Final
  <2>5. Unrecorded'
    BY <2>2, <2>4 DEF Unrecorded, StopsWatched
  <2>6. StopsWatched'
    BY <2>2, <2>4 DEF StopsWatched
  <2>7. (P!ProcessesKept)'
    <3>1. (P!StatusTrue)'
      BY <2>2, <2>4 DEF P!ProcessesKept, P!StatusTrue
    <3>2. (P!FileCurrent)'
      BY <2>2, <2>4 DEF P!ProcessesKept, P!FileCurrent
    <3>3. i \notin watched' /\ watched' \subseteq watched
      BY <2>2
    <3>4. (moved \/ P!Stoppable)'
      BY <2>2, <2>4, <3>3 DEF P!ProcessesKept, P!Stoppable, StopsWatched
    <3> QED BY <3>1, <3>2, <3>4 DEF P!ProcessesKept
  <2> QED BY <2>3, <2>5, <2>6, <2>7
<1>5. ASSUME NEW i, P!Output \/ (i \in Ids /\ P!Stop(i)) PROVE ProcessesInv'
  <2>1. /\ P!Configure(agentDir)
        /\ \/ UNCHANGED stopping
           \/ i \in held' /\ tasks'[i] = "running" /\ stopping' = stopping \cup {i}
        /\ UNCHANGED <<bashRoot, agentDir, call, alive, watched, records>>
    BY <1>5 DEF P!Stop, P!Output, P!CanStop
  <2>2. /\ root' \in Roots /\ tasks' \in [Ids -> P!Status] /\ moved' \in BOOLEAN
        /\ \A j \in Ids : /\ call[j] \in {"new", "waited"} => tasks'[j] = "absent"
                          /\ tasks'[j] \in P!Final => j \notin alive
        /\ \A j \in held' : j \in held /\ (tasks'[j] = "running" => j \in watched)
        /\ (P!FileCurrent)' /\ (moved \/ P!Stoppable)'
    BY <2>1, ConfigureKeeps
  <2>3. ProcessesType'
    BY <2>1, <2>2
  <2>4. Unrecorded'
    BY <2>1, <2>2 DEF Unrecorded
  <2>5. StopsWatched'
    BY <2>1, <2>2 DEF StopsWatched
  <2>6. (P!StatusTrue)'
    BY <2>1, <2>2 DEF P!ProcessesKept, P!StatusTrue
  <2> QED BY <2>2, <2>3, <2>4, <2>5, <2>6 DEF P!ProcessesKept
<1>6. ASSUME NEW i \in Ids, P!StopCut(i) PROVE ProcessesInv'
  BY <1>6 DEF P!StopCut, Unrecorded, StopsWatched, P!ProcessesKept, P!StatusTrue, P!FileCurrent,
              P!Stoppable
<1>7. ASSUME NEW r \in Roots, P!ChangeDir(r) PROVE ProcessesInv'
  BY <1>7 DEF P!ChangeDir, Unrecorded, StopsWatched, P!ProcessesKept, P!StatusTrue,
              P!FileCurrent, P!Stoppable
<1>8. ASSUME P!Restart PROVE ProcessesInv'
  <2>1. /\ root' = Nowhere /\ bashRoot' = Nowhere /\ agentDir' \in Roots
        /\ call' = [i \in Ids |-> IF call[i] = "waited" THEN "over" ELSE call[i]]
        /\ alive' \subseteq alive /\ tasks' = [i \in Ids |-> "absent"]
        /\ held' = {} /\ watched' = {} /\ stopping' = {} /\ moved' = FALSE
        /\ UNCHANGED records
    BY <1>8 DEF P!Restart
  <2>2. ProcessesType'
    BY <2>1 DEF P!Status
  <2>3. Unrecorded' /\ StopsWatched'
    BY <2>1 DEF Unrecorded, StopsWatched
  <2>4. (P!ProcessesKept)'
    BY <2>1 DEF P!ProcessesKept, P!StatusTrue, P!FileCurrent, P!Stoppable, P!Final
  <2> QED BY <2>2, <2>3, <2>4
<1> QED BY <1>1, <1>2, <1>3, <1>4, <1>5, <1>6, <1>7, <1>8 DEF P!Next

(* Who is not looked at does not move.                                     *)
LEMMA ProcessesStay == ASSUME ProcessesInv, UNCHANGED processes PROVE ProcessesInv'
BY DEF ProcessesInv, ProcessesType, Unrecorded, StopsWatched, P!ProcessesKept, P!StatusTrue,
       P!FileCurrent, P!Stoppable, processes

-----------------------------------------------------------------------------
(* The servers.                                                            *)

(* What the steps do to a set of connections, in numbers.                  *)
LEMMA ServerCounts ==
  ASSUME NEW n \in Nat, NEW U \in SUBSET (1..n)
  PROVE  /\ S!Cardinality(U) \in 0..n
         /\ \A V \in SUBSET U : S!Cardinality(V) \in Nat /\ S!Cardinality(V) <= S!Cardinality(U)
         /\ \A s : S!Cardinality(U) <= S!Cardinality(U \ {s}) + 1
         /\ S!Cardinality(U \cup {n + 1}) = S!Cardinality(U) + 1
<1>1. \A V : S!Cardinality(V) = Cardinality(V)
  BY DEF S!Cardinality, Cardinality
<1>2. IsFiniteSet(1..n) /\ Cardinality(1..n) = n
  BY FS_Interval
<1>3. IsFiniteSet(U) /\ Cardinality(U) <= n
  BY <1>2, FS_Subset
<1>4. Cardinality(U) \in Nat
  BY <1>3, FS_CardinalityType
<1>5. \A V \in SUBSET U : Cardinality(V) \in Nat /\ Cardinality(V) <= Cardinality(U)
  BY <1>3, FS_Subset, FS_CardinalityType
<1>6. \A s : Cardinality(U) <= Cardinality(U \ {s}) + 1
  <2> TAKE s
  <2>1. Cardinality(U \ {s}) = IF s \in U THEN Cardinality(U) - 1 ELSE Cardinality(U)
    BY <1>3, FS_RemoveElement
  <2> QED BY <1>4, <2>1
<1>7. Cardinality(U \cup {n + 1}) = Cardinality(U) + 1
  <2>1. n + 1 \notin U
    OBVIOUS
  <2> QED BY <1>3, <2>1, FS_AddElement
<1>8. Cardinality(U) \in 0..n
  BY <1>3, <1>4
<1> QED BY <1>1, <1>5, <1>6, <1>7, <1>8, Zenon

ServersType ==
    /\ servers \in 0..MaxServers /\ up \subseteq 1..servers
    /\ stack \in 0..servers /\ mcp \in 0..servers /\ live \in BOOLEAN
    /\ managed \in {"starting", "yes", "no", "never"}
    /\ using \in [Agents -> {"idle", "connecting", "calling"}] /\ mine \in [Agents -> 0..servers]
    /\ excuses \in 0..MaxServers

Connecting == {a \in Agents : using[a] = "connecting"}

(* A client that is neither alive nor being connected has nothing running  *)
(* that is not put down to a failure; so it may connect anew.              *)
ServersInv ==
    /\ ServersType
    /\ S!ServersHeld
    /\ managed = "yes" /\ ~live /\ Connecting = {} => S!Cardinality(up) <= excuses

(* The manager connects when the program starts.                           *)
LEMMA ServersStart == S!Init => ServersInv
<1> SUFFICES ASSUME S!Init PROVE ServersInv
  OBVIOUS
<1>1. ServersType
  <2>1. MaxServers \in Nat /\ 1 <= MaxServers
    BY WorkspaceAssumption DEF WorkspaceAssumption
  <2>2. /\ servers = 1 /\ up = {1} /\ stack = 1 /\ mcp = 0 /\ live = FALSE /\ managed = "starting"
        /\ using = [a \in Agents |-> "idle"] /\ mine = [a \in Agents |-> 0] /\ excuses = 0
    BY DEF S!Init
  <2>3. /\ servers \in 0..MaxServers /\ up \subseteq 1..servers
        /\ stack \in 0..servers /\ mcp \in 0..servers /\ excuses \in 0..MaxServers
    BY <2>1, <2>2
  <2>4. 0 \in 0..servers
    BY <2>2
  <2>5. /\ using \in [Agents -> {"idle", "connecting", "calling"}]
        /\ mine \in [Agents -> 0..servers]
    <3> HIDE DEF S!Init
    <3> QED BY <2>2, <2>4
  <2> QED BY <2>2, <2>3, <2>5 DEF ServersType
<1>2. up \ {stack} = {}
  BY DEF S!Init
<1>3. S!Cardinality(up \ {stack}) = 0
  BY <1>2, FS_EmptySet DEF S!Cardinality, Cardinality
<1>4. excuses = 0 /\ managed = "starting" /\ live = FALSE
  BY DEF S!Init
<1> QED BY <1>1, <1>3, <1>4 DEF ServersInv, S!ServersHeld

(* Every connection, call, failure and end of a server keeps the           *)
(* invariant.                                                              *)
LEMMA ServersStep == ASSUME ServersInv, S!Next PROVE ServersInv'
<1> USE WorkspaceAssumption DEF WorkspaceAssumption, ServersInv, ServersType, S!ServersHeld
<1> DEFINE N(V) == S!Cardinality(V)
<1>a. /\ servers \in Nat /\ up \in SUBSET (1..servers)
  OBVIOUS
<1>b. /\ N(up) \in 0..servers
      /\ \A V \in SUBSET up : N(V) \in Nat /\ N(V) <= N(up)
      /\ \A s : N(up) <= N(up \ {s}) + 1
      /\ N(up \cup {servers + 1}) = N(up) + 1
  BY <1>a, ServerCounts
<1>c. \A V \in SUBSET up, Z \in SUBSET up : Z \subseteq V => N(Z) <= N(V)
  <2> TAKE V \in SUBSET up, Z \in SUBSET up
  <2>1. V \in SUBSET (1..servers)
    OBVIOUS
  <2> QED BY <1>a, <2>1, ServerCounts
<1>d. S!Excuse => /\ excuses' \in 0..MaxServers /\ excuses <= excuses'
                  /\ \A n \in 0..MaxServers : n <= excuses + 1 => n <= excuses'
  BY DEF S!Excuse
<1>e. N(up) <= N(up \ {stack}) + 1 /\ N(up \ {stack}) \in Nat /\ N(up) \in 0..MaxServers
  <2>1. up \ {stack} \in SUBSET up /\ servers \in 0..MaxServers
    OBVIOUS
  <2> HIDE DEF ServersInv, ServersType, S!ServersHeld
  <2>2. N(up \ {stack}) \in Nat /\ N(up) <= N(up \ {stack}) + 1
    BY <1>b, <2>1, Zenon
  <2> QED BY <1>b, <2>1, <2>2
<1> HIDE DEF N
<1>1. ASSUME S!Started PROVE ServersInv'
  <2>1. CASE managed' = "yes" /\ stack \in up /\ mcp' = stack /\ live' = TRUE /\ UNCHANGED <<up, stack>>
    BY <1>1, <2>1 DEF S!Started, N
  <2>2. CASE managed' = "never" /\ S!StackClosed /\ UNCHANGED <<mcp, live>>
    <3>1. N(up' \ {stack'}) <= N(up \ {stack})
      BY <1>c, <2>2 DEF S!StackClosed
    <3>2. N(up' \ {stack'}) \in Nat
      BY <1>b, <2>2 DEF S!StackClosed
    <3> QED BY <1>1, <1>e, <2>2, <3>1, <3>2 DEF S!Started, S!StackClosed, N
  <2> QED BY <1>1, <2>1, <2>2 DEF S!Started
<1>2. ASSUME S!StartCut PROVE ServersInv'
  BY <1>2, <1>d, <1>e DEF S!StartCut, N
<1>3. ASSUME S!Shutdown PROVE ServersInv'
  <2>1. N(up' \ {stack'}) <= N(up \ {stack})
    BY <1>c, <1>3 DEF S!Shutdown, S!StackClosed
  <2>2. N(up' \ {stack'}) \in Nat
    BY <1>b, <1>3 DEF S!Shutdown, S!StackClosed
  <2>3. ServersType'
    <3>1. /\ up' = up \ {stack} /\ stack' = 0 /\ mcp' = 0 /\ live' = FALSE /\ managed' = "no"
          /\ UNCHANGED <<servers, using, mine, excuses>>
      BY <1>3 DEF S!Shutdown, S!StackClosed
    <3>2. 0 \in 0..servers /\ up \ {stack} \subseteq 1..servers
      OBVIOUS
    <3> QED BY <3>1, <3>2
  <2>4. N(up') = N(up \ {stack}) /\ managed' = "no" /\ ~live' /\ excuses' = excuses
    BY <1>3 DEF S!Shutdown, S!StackClosed
  <2> QED BY <1>e, <2>1, <2>2, <2>3, <2>4 DEF N
<1>4. ASSUME NEW a \in Agents, S!Call(a) PROVE ServersInv'
  BY <1>4 DEF S!Call, N
<1>5. ASSUME NEW a \in Agents, S!Connect(a) PROVE ServersInv'
  <2>1. /\ managed \in {"yes", "no"} /\ ~live /\ servers < MaxServers
        /\ servers' = servers + 1 /\ up' = up \cup {servers + 1} /\ stack' = servers + 1
        /\ using' = [using EXCEPT ![a] = "connecting"]
        /\ mine' = [mine EXCEPT ![a] = servers + 1]
        /\ IF managed = "no" \/ Connecting # {} THEN S!Excuse ELSE UNCHANGED excuses
        /\ UNCHANGED <<mcp, live, managed>>
    BY <1>5 DEF S!Connect, Connecting
  <2>2. up' \ {stack'} = up
    BY <2>1
  <2>3. N(up) <= excuses'
    <3>1. CASE managed = "no" \/ Connecting # {}
      BY <1>d, <1>e, <2>1, <3>1 DEF N
    <3>2. CASE managed = "yes" /\ Connecting = {}
      BY <2>1, <3>2 DEF N
    <3> QED BY <2>1, <3>1, <3>2
  <2>4. managed = "no" => N(up') <= excuses'
    <3> HAVE managed = "no"
    <3>1. N(up) <= excuses
      BY DEF N
    <3>2. N(up') = N(up) + 1 /\ N(up) + 1 \in 0..MaxServers
      BY <1>b, <2>1
    <3> QED BY <1>d, <1>e, <2>1, <3>1, <3>2
  <2>5. ServersType'
    BY <1>d, <2>1
  <2>6. a \in Connecting'
    BY <2>1 DEF Connecting
  <2> QED BY <2>1, <2>2, <2>3, <2>4, <2>5, <2>6 DEF N
<1>6. ASSUME NEW a \in Agents, S!Connected(a) PROVE ServersInv'
  <2>1. mine[a] \in up /\ mcp' = mine[a] /\ live' = TRUE
    BY <1>6 DEF S!Connected
  <2>2. ServersType'
    BY <1>6 DEF S!Connected
  <2>3. UNCHANGED <<up, stack, managed, excuses>>
    BY <1>6 DEF S!Connected
  <2> QED BY <2>1, <2>2, <2>3
<1>7. ASSUME NEW a \in Agents, S!ConnectFails(a) PROVE ServersInv'
  <2>1. N(up' \ {stack'}) <= N(up \ {stack}) /\ N(up') <= N(up \ {stack}) /\ N(up') <= N(up)
    BY <1>b, <1>c, <1>7 DEF S!ConnectFails, S!StackClosed
  <2>2. N(up' \ {stack'}) \in Nat /\ N(up') \in Nat
    BY <1>b, <1>7 DEF S!ConnectFails, S!StackClosed
  <2>3. ServersType'
    BY <1>7 DEF S!ConnectFails, S!StackClosed
  <2> QED BY <1>7, <1>e, <2>1, <2>2, <2>3 DEF S!ConnectFails, S!StackClosed, N
<1>8. ASSUME NEW a \in Agents, S!ConnectCut(a) PROVE ServersInv'
  <2>1. ServersType'
    BY <1>8, <1>d DEF S!ConnectCut
  <2> QED BY <1>8, <1>d, <1>e, <2>1 DEF S!ConnectCut, N
<1>9. ASSUME NEW a \in Agents, S!CallEnds(a) PROVE ServersInv'
  <2>1. ServersType'
    BY <1>9 DEF S!CallEnds
  <2>2. Connecting' = Connecting
    BY <1>9 DEF S!CallEnds, Connecting
  <2> QED BY <1>9, <2>1, <2>2 DEF S!CallEnds
<1>10. ASSUME NEW a \in Agents, S!CallFails(a) PROVE ServersInv'
  <2>1. ServersType'
    BY <1>10, <1>d DEF S!CallFails
  <2> QED BY <1>10, <1>d, <1>e, <2>1 DEF S!CallFails, N
<1>11. ASSUME NEW s \in 1..MaxServers, S!Dies(s) PROVE ServersInv'
  <2>1. N(up' \ {stack'}) <= N(up \ {stack}) /\ N(up') <= N(up)
    BY <1>b, <1>c, <1>11 DEF S!Dies
  <2>2. N(up' \ {stack'}) \in Nat /\ N(up') \in Nat
    BY <1>b, <1>11 DEF S!Dies
  <2>3. Connecting' = Connecting
    BY <1>11 DEF S!Dies, Connecting
  <2> QED BY <1>11, <1>e, <2>1, <2>2, <2>3 DEF S!Dies, N
<1> QED BY <1>1, <1>2, <1>3, <1>4, <1>5, <1>6, <1>7, <1>8, <1>9, <1>10, <1>11 DEF S!Next

(* Who is not looked at does not move.                                     *)
LEMMA ServersStay == ASSUME ServersInv, UNCHANGED connections PROVE ServersInv'
BY DEF ServersInv, ServersType, S!ServersHeld, Connecting, connections

(* process_manager.py, mcp/: background commands are listed, recorded and  *)
(* stoppable as what they are, and servers that run can be ended.          *)
THEOREM ProcessesStayKept == Spec => []ProcessesKept
<1>1. Init => ProcessesInv /\ ServersInv
  BY ProcessesStart, ServersStart DEF Init
<1>2. ProcessesInv /\ [Next]_<<focus, vars>> => ProcessesInv'
  BY ProcessesStep, ProcessesStay DEF Next, vars
<1>3. ServersInv /\ [Next]_<<focus, vars>> => ServersInv'
  BY ServersStep, ServersStay DEF Next, vars
<1>4. ProcessesInv /\ ServersInv => ProcessesKept
  BY DEF ProcessesInv, ServersInv, ProcessesKept
<1> QED BY <1>1, <1>2, <1>3, <1>4, PTL DEF Spec

-----------------------------------------------------------------------------
(* The consolidation of the memory files.                                  *)

LockType ==
    /\ lock \in [id : 0..locks, pid : Procs \cup {NoOne}, age : {"fresh", "hour", "day"}]
    /\ locks \in Nat
    /\ pc \in [Procs -> {"idle", "due", "stale", "clear", "created", "written", "running"}]
    /\ looked \in [Procs -> 0..locks] /\ dead \subseteq Procs /\ mixed \in BOOLEAN

Making(p) == pc[p] \in {"created", "written", "running"}

(* Every attempt makes a lock of its own.                                  *)
LocksOwn ==
    /\ lock.id = 0 => lock.pid = NoOne
    /\ \A p \in dead : pc[p] = "idle"
    /\ \A p \in Procs : Making(p) => looked[p] # 0
    /\ \A p, q \in Procs : Making(p) /\ Making(q) /\ p # q => looked[p] # looked[q]

(* No attempt is under way while a lock is an hour old; a lock found stale *)
(* stays so.                                                               *)
LocksStale ==
    /\ lock.age = "hour" => \A p \in Procs : pc[p] \in {"idle", "running"}
    /\ \A p \in Procs : pc[p] = "stale" /\ looked[p] = lock.id /\ lock.id # 0 =>
           lock.age = "day" \/ lock.pid \in dead

(* Who writes, or has written, its id into its lock finds no other lock    *)
(* with that id; who runs holds the lock.                                  *)
LocksHeld ==
    /\ \A p \in Procs : pc[p] \in {"created", "written"} /\ looked[p] = lock.id =>
           lock.age = "fresh" /\ (pc[p] = "created" => lock.pid = NoOne)
    /\ \A p \in Procs : pc[p] \in {"clear", "created", "written"} /\ lock.pid = p =>
           pc[p] = "written" /\ lock.id = looked[p]
    /\ \A p \in Procs : pc[p] = "running" =>
           lock.id = looked[p] /\ lock.pid = p /\ lock.age # "day"

LockInv == LockType /\ (~mixed => LocksOwn /\ LocksStale /\ LocksHeld)

(* There is no lock at the start.                                          *)
LEMMA LockStart == M!Init => LockInv
<1> SUFFICES ASSUME M!Init PROVE LockInv
  OBVIOUS
<1>1. /\ lock = [id |-> 0, pid |-> NoOne, age |-> "day"] /\ locks = 0
      /\ pc = [p \in Procs |-> "idle"] /\ looked = [p \in Procs |-> 0]
      /\ dead = {} /\ mixed = FALSE
  BY DEF M!Init, M!Missing
<1>2. 0 \in 0..0
  OBVIOUS
<1>3. LockType
  BY <1>1, <1>2 DEF LockType
<1>4. LocksOwn /\ LocksStale /\ LocksHeld
  BY <1>1 DEF LocksOwn, LocksStale, LocksHeld, Making
<1> QED BY <1>3, <1>4 DEF LockInv

(* Every system call and every death keeps the invariant, for as long as   *)
(* no lock but the one found stale was removed.                            *)
LEMMA LockStep == ASSUME LockInv, M!Next PROVE LockInv'
<1> USE WorkspaceAssumption DEF WorkspaceAssumption, LockInv
<1>1. ASSUME NEW p \in Procs, M!Due(p) PROVE LockInv'
  <2> USE <1>1 DEF M!Due, M!At
  <2>1. LockType'
    BY DEF LockType
  <2>2. ~mixed' => LocksOwn'
    BY DEF LockType, LocksOwn, Making
  <2>3. ~mixed' => LocksStale'
    BY DEF LockType, LocksStale
  <2>4. ~mixed' => LocksHeld'
    BY DEF LockType, LocksHeld
  <2> QED BY <2>1, <2>2, <2>3, <2>4
<1>2. ASSUME NEW p \in Procs, M!Look(p) PROVE LockInv'
  <2>1. CASE M!Held /\ M!At(p, "due", "idle") /\ UNCHANGED <<looked, prior, mixed>>
    <3> USE <1>2, <2>1 DEF M!Look, M!At
    <3>1. LockType'
      BY DEF LockType
    <3>2. ~mixed' => LocksOwn'
      BY DEF LockType, LocksOwn, Making
    <3>3. ~mixed' => LocksStale'
      BY DEF LockType, LocksStale
    <3>4. ~mixed' => LocksHeld'
      BY DEF LockType, LocksHeld
    <3> QED BY <3>1, <3>2, <3>3, <3>4
  <2>2. CASE ~M!Held /\ M!At(p, "due", IF lock.id = 0 THEN "clear" ELSE "stale")
             /\ looked' = [looked EXCEPT ![p] = lock.id]
             /\ mixed' = (mixed \/ (lock.id # 0 /\ lock.age = "fresh" /\ lock.pid = NoOne))
    <3> USE <1>2, <2>2 DEF M!Look, M!At
    <3>1. LockType'
      BY DEF LockType
    <3>2. ~mixed' => LocksOwn'
      BY DEF LockType, LocksOwn, Making
    <3>3. ~mixed' => LocksStale'
      BY DEF LockType, LocksStale, M!Held, M!IsProcessRunning
    <3>4. ~mixed' => LocksHeld'
      BY DEF LockType, LocksHeld, LocksOwn
    <3> QED BY <3>1, <3>2, <3>3, <3>4
  <2> QED BY <1>2, <2>1, <2>2 DEF M!Look
<1>3. ASSUME NEW p \in Procs, M!Unlink(p) PROVE LockInv'
  <2> USE <1>3 DEF M!Unlink, M!At, M!Missing
  <2>0. 0 \in 0..locks
    BY DEF LockType
  <2>1. LockType'
    <3>1. lock' = [id |-> 0, pid |-> NoOne, age |-> "day"] /\ mixed' \in BOOLEAN
      BY DEF LockType
    <3>2. /\ pc' \in [Procs -> {"idle", "due", "stale", "clear", "created", "written", "running"}]
          /\ UNCHANGED <<locks, looked, dead>>
      BY DEF LockType
    <3> HIDE DEF M!Unlink, M!At
    <3> QED BY <2>0, <3>1, <3>2 DEF LockType
  <2>2. ~mixed' => LocksOwn'
    BY DEF LockType, LocksOwn, Making
  <2>3. ~mixed' => LocksStale'
    BY DEF LockType, LocksStale
  <2>4. ~mixed' => \A q \in Procs : pc[q] # "running"
    <3> SUFFICES ASSUME ~mixed', NEW q \in Procs, pc[q] = "running" PROVE FALSE
      OBVIOUS
    <3>1. lock.id = looked[q] /\ lock.pid = q /\ lock.age # "day" /\ lock.id # 0 /\ q \notin dead
      BY DEF LocksHeld, LocksOwn, Making
    <3>2. pc[p] = "stale" /\ lock.id = looked[p]
      BY <3>1
    <3> QED BY <3>1, <3>2 DEF LocksStale
  <2>5. ~mixed' => LocksHeld'
    BY <2>4 DEF LockType, LocksHeld, LocksOwn, Making
  <2> QED BY <2>1, <2>2, <2>3, <2>5
<1>4. ASSUME NEW p \in Procs, M!Create(p) PROVE LockInv'
  <2>1. CASE M!CanCreate /\ M!At(p, "clear", "created")
             /\ locks' = locks + 1
             /\ lock' = [id |-> locks + 1, pid |-> NoOne, age |-> "fresh"]
             /\ looked' = [looked EXCEPT ![p] = locks + 1]
    <3> USE <1>4, <2>1 DEF M!Create, M!At, M!CanCreate
    <3>1. LockType'
      BY DEF LockType
    <3>0. /\ \A q \in Procs : looked[q] # locks + 1
          /\ \A q \in Procs \ {p} : looked'[q] = looked[q] /\ pc'[q] = pc[q]
          /\ looked'[p] = locks + 1 /\ pc'[p] = "created" /\ locks + 1 # 0
      BY DEF LockType
    <3>2. ~mixed' => LocksOwn'
      BY <3>0 DEF LocksOwn, Making
    <3>3. ~mixed' => LocksStale'
      BY <3>0 DEF LocksStale
    <3>4. ~mixed' => LocksHeld'
      BY <3>0 DEF LocksHeld, LocksOwn, Making
    <3> QED BY <3>1, <3>2, <3>3, <3>4
  <2>2. CASE M!At(p, "clear", "idle") /\ UNCHANGED <<locks, lock, looked>>
    <3> USE <1>4, <2>2 DEF M!Create, M!At
    <3>1. LockType'
      BY DEF LockType
    <3>2. ~mixed' => LocksOwn'
      BY DEF LockType, LocksOwn, Making
    <3>3. ~mixed' => LocksStale'
      BY DEF LockType, LocksStale
    <3>4. ~mixed' => LocksHeld'
      BY DEF LockType, LocksHeld
    <3> QED BY <3>1, <3>2, <3>3, <3>4
  <2> QED BY <1>4, <2>1, <2>2 DEF M!Create
<1>5. ASSUME NEW p \in Procs, M!WritePid(p) PROVE LockInv'
  <2> USE <1>5 DEF M!WritePid, M!At
  <2>1. LockType'
    BY DEF LockType
  <2>2. ~mixed' => LocksOwn'
    BY DEF LockType, LocksOwn, Making
  <2>3. ~mixed' => LocksStale'
    BY DEF LockType, LocksStale, LocksHeld
  <2>4. ~mixed' => LocksHeld'
    <3>1. CASE lock.id = looked[p]
      <4>1. lock' = [lock EXCEPT !.pid = p] /\ pc' = [pc EXCEPT ![p] = "written"] /\ looked' = looked
        BY <3>1
      <4>2. lock'.id = lock.id /\ lock'.pid = p /\ lock'.age = lock.age
        BY <4>1 DEF LockType
      <4>3. ~mixed => \A q \in Procs \ {p} : Making(q) => looked[q] # lock.id
        BY <3>1 DEF LocksOwn, Making
      <4> QED BY <3>1, <4>1, <4>2, <4>3 DEF LockType, LocksHeld, Making
    <3>2. CASE lock.id # looked[p]
      BY <3>2 DEF LockType, LocksHeld
    <3> QED BY <3>1, <3>2
  <2> QED BY <2>1, <2>2, <2>3, <2>4
<1>6. ASSUME NEW p \in Procs, M!Verify(p) PROVE LockInv'
  <2> USE <1>6 DEF M!Verify, M!At
  <2>1. LockType'
    BY DEF LockType
  <2>2. ~mixed' => LocksOwn'
    BY DEF LockType, LocksOwn, Making
  <2>3. ~mixed' => LocksStale'
    BY DEF LockType, LocksStale
  <2>4. ~mixed' => LocksHeld'
    BY DEF LockType, LocksHeld
  <2> QED BY <2>1, <2>2, <2>3, <2>4
<1>7. ASSUME NEW p \in Procs, M!Succeed(p) PROVE LockInv'
  <2> USE <1>7 DEF M!Succeed, M!At
  <2>1. LockType'
    BY DEF LockType
  <2>2. ~mixed' => LocksOwn'
    BY DEF LockType, LocksOwn, Making
  <2>3. ~mixed' => LocksStale'
    BY DEF LockType, LocksStale
  <2>4. ~mixed' => LocksHeld'
    BY DEF LockType, LocksHeld
  <2> QED BY <2>1, <2>2, <2>3, <2>4
<1>8. ASSUME NEW p \in Procs, M!Fail(p) PROVE LockInv'
  <2>1. /\ pc[p] = "running" /\ pc' = [pc EXCEPT ![p] = "idle"]
        /\ UNCHANGED <<locks, looked, dead, mixed>>
    BY <1>8 DEF M!Fail, M!At
  <2>2. /\ lock'.id \in {0, looked[p], lock.id} /\ lock'.pid = NoOne /\ lock'.age = "day"
        /\ lock' \in [id : 0..locks, pid : Procs \cup {NoOne}, age : {"fresh", "hour", "day"}]
    <3>1. 0 \in 0..locks /\ looked[p] \in 0..locks
      BY DEF LockType
    <3>2. CASE prior[p]
      <4> DEFINE i == IF lock.id = 0 THEN looked[p] ELSE lock.id
      <4>1. i \in 0..locks /\ i \in {looked[p], lock.id}
        BY <3>1 DEF LockType
      <4>2. lock' = [id |-> i, pid |-> NoOne, age |-> "day"]
        BY <1>8, <3>2 DEF M!Fail, LockType
      <4> HIDE DEF i
      <4> QED BY <4>1, <4>2
    <3>3. CASE ~prior[p]
      BY <1>8, <3>1, <3>3 DEF M!Fail, M!Missing
    <3> QED BY <3>2, <3>3
  <2>3. ~mixed => \A q \in Procs \ {p} : Making(q) => looked[q] \notin {0, looked[p], lock.id}
    BY <2>1 DEF LocksHeld, LocksOwn, Making
  <2>4. ~mixed => \A q \in Procs \ {p} : pc[q] # "running"
    BY <2>1, <2>3 DEF LocksHeld, Making
  <2>5. LockType'
    BY <2>1, <2>2 DEF LockType
  <2>6. ~mixed' => LocksOwn'
    BY <2>1, <2>2 DEF LockType, LocksOwn, Making
  <2>7. ~mixed' => LocksStale'
    BY <2>1, <2>2 DEF LockType, LocksStale
  <2>8. ~mixed' => LocksHeld'
    BY <2>1, <2>2, <2>3, <2>4 DEF LockType, LocksHeld, Making
  <2> QED BY <2>5, <2>6, <2>7, <2>8
<1>9. ASSUME NEW p \in Procs, M!Die(p) PROVE LockInv'
  <2> USE <1>9 DEF M!Die
  <2>1. LockType'
    BY DEF LockType
  <2>2. ~mixed' => LocksOwn'
    BY DEF LockType, LocksOwn, Making
  <2>3. ~mixed' => LocksStale'
    BY DEF LockType, LocksStale
  <2>4. ~mixed' => LocksHeld'
    BY DEF LockType, LocksHeld
  <2> QED BY <2>1, <2>2, <2>3, <2>4
<1>10. ASSUME M!Age PROVE LockInv'
  <2>1. /\ \A p \in Procs : pc[p] \in {"idle", "running"}
        /\ lock'.id = lock.id /\ lock'.pid = lock.pid
        /\ lock'.age = IF lock.age = "fresh" THEN "hour" ELSE "day"
        /\ lock.age = "hour" => \A p \in Procs : pc[p] # "running"
        /\ UNCHANGED <<locks, pc, looked, prior, dead, mixed>>
    BY <1>10 DEF M!Age, LockType
  <2>2. LockType'
    BY <1>10 DEF M!Age, LockType
  <2>3. lock.age \in {"fresh", "hour"}
    BY <1>10 DEF M!Age, LockType
  <2>4. ~mixed' => LocksOwn' /\ LocksStale' /\ LocksHeld'
    BY <2>1, <2>3 DEF LocksOwn, LocksStale, LocksHeld, Making
  <2> QED BY <2>2, <2>4
<1> QED BY <1>1, <1>2, <1>3, <1>4, <1>5, <1>6, <1>7, <1>8, <1>9, <1>10 DEF M!Next

(* Who runs holds the lock, and the lock names one process.                *)
LEMMA OneRuns == LockInv => M!OneDreams
<1> SUFFICES ASSUME LockInv, ~mixed
             PROVE  M!Cardinality({p \in Procs : pc[p] = "running"}) <= 1
  BY DEF M!OneDreams
<1> DEFINE runners == {p \in Procs : pc[p] = "running"}
<1>1. \A p \in runners : p = lock.pid
  BY DEF LockInv, LocksHeld
<1>2. \A V : M!Cardinality(V) = Cardinality(V)
  BY DEF M!Cardinality, Cardinality
<1>3. runners = {} \/ runners = {lock.pid}
  BY <1>1
<1>4. Cardinality(runners) \in {0, 1}
  BY <1>3, FS_EmptySet, FS_Singleton
<1> QED BY <1>2, <1>4

(* Who is not looked at does not move.                                     *)
LEMMA LockStay == ASSUME LockInv, UNCHANGED memory PROVE LockInv'
BY DEF LockInv, LockType, LocksOwn, LocksStale, LocksHeld, Making, memory

-----------------------------------------------------------------------------
(* The extraction of memories.                                             *)

ExtractionType ==
    /\ said \in Nat /\ hist \in Seq(Nat) /\ pending \in Seq(Nat) /\ marked \in Seq(Nat)
    /\ current.snapshot \in Seq(Nat) /\ extracting \in BOOLEAN

(* The part of s an extraction begun at the mark reads is not empty.       *)
BeginsAtMark(s, from) == from = (IF mark > Len(s) THEN 0 ELSE mark) /\ from < Len(s)

(* The mark is the length of the conversation it was set in, every message *)
(* of which was read or noted as left out of another conversation; and an  *)
(* extraction reads from the mark on.                                      *)
ExtractionInv ==
    /\ ExtractionType
    /\ E!NothingSkipped
    /\ mark = Len(marked) /\ E!Messages(marked, 0) \subseteq read \cup passed
    /\ extracting => BeginsAtMark(current.snapshot, current.start)

(* No message has been made at the start.                                  *)
LEMMA ExtractionStart == E!Init => ExtractionInv
<1> SUFFICES ASSUME E!Init PROVE ExtractionInv
  OBVIOUS
<1>0. <<>> \in Seq(Nat) /\ Len(<<>>) = 0
  OBVIOUS
<1>1. ExtractionType
  BY <1>0 DEF E!Init, E!None, ExtractionType
<1>2. E!Messages(<<>>, 0) = {}
  BY DEF E!Messages
<1> QED BY <1>1, <1>2 DEF E!Init, ExtractionInv, E!NothingSkipped

(* What an extraction of a conversation that continues the marked one is   *)
(* not shown has been read or noted.                                       *)
LEMMA ShownOrRead ==
  ASSUME ExtractionInv, extracting, E!IsPrefix(marked, current.snapshot)
  PROVE  E!Messages(current.snapshot, 0) \subseteq
             read \cup passed \cup E!Messages(current.snapshot, current.start)
<1> DEFINE s == current.snapshot
<1>1. /\ marked \in Seq(Nat) /\ s \in Seq(Nat) /\ mark = Len(marked)
      /\ Len(marked) <= Len(s) /\ SubSeq(marked, 1, Len(marked)) = SubSeq(s, 1, Len(marked))
  BY DEF ExtractionInv, ExtractionType, E!IsPrefix
<1> HIDE DEF s
<1>2. current.start = mark
  BY <1>1 DEF ExtractionInv, BeginsAtMark, s
<1>3. \A i \in 1..Len(marked) : s[i] = marked[i]
  <2> TAKE i \in 1..Len(marked)
  <2>1. SubSeq(marked, 1, Len(marked))[i] = marked[i] /\ SubSeq(s, 1, Len(marked))[i] = s[i]
    BY <1>1
  <2> QED BY <1>1, <2>1
<1> SUFFICES ASSUME NEW i \in (0 + 1)..Len(s)
             PROVE  s[i] \in read \cup passed \cup E!Messages(s, current.start)
  BY DEF E!Messages, s
<1>4. CASE i <= Len(marked)
  <2>1. i \in (0 + 1)..Len(marked) /\ i \in 1..Len(marked)
    BY <1>1, <1>4
  <2>2. s[i] \in E!Messages(marked, 0)
    BY <1>3, <2>1 DEF E!Messages
  <2> QED BY <2>2 DEF ExtractionInv
<1>5. CASE ~(i <= Len(marked))
  <2>1. i \in (current.start + 1)..Len(s)
    BY <1>1, <1>2, <1>5
  <2> QED BY <2>1 DEF E!Messages
<1> QED BY <1>4, <1>5

(* When an extraction is over, a stashed conversation is read from the     *)
(* mark on.                                                                *)
LEMMA OverBegins ==
  ASSUME ExtractionInv, extracting, NEW answered \in BOOLEAN, E!Over(answered)
  PROVE  /\ pending' \in Seq(Nat) /\ current'.snapshot \in Seq(Nat) /\ extracting' \in BOOLEAN
         /\ extracting' => BeginsAtMark(current.snapshot, current.start)'
         /\ ~answered => mark' = mark /\ marked' = marked
         /\ answered => mark' = Len(current.snapshot) /\ marked' = current.snapshot
<1> DEFINE s == current.snapshot
           m == E!MarkAfter(answered, s)
           begin == IF m > Len(pending) THEN 0 ELSE m
<1>1. /\ mark' = m /\ marked' = IF m = mark THEN marked ELSE s
      /\ pending' = <<>>
      /\ extracting' = (pending # <<>> /\ begin < Len(pending))
      /\ current' = IF pending = <<>> THEN current ELSE [snapshot |-> pending, start |-> begin]
  BY DEF E!Over, E!None
<1>2. s \in Seq(Nat) /\ pending \in Seq(Nat) /\ marked \in Seq(Nat) /\ mark = Len(marked)
  BY DEF ExtractionInv, ExtractionType
<1>3. answered => m = Len(s) /\ m # mark
  BY <1>2 DEF E!MarkAfter, ExtractionInv, BeginsAtMark
<1>4. ~answered => m = mark
  BY DEF E!MarkAfter
<1> HIDE DEF m, s
<1>5. extracting' => BeginsAtMark(current.snapshot, current.start)'
  <2> HAVE extracting'
  <2>1. current'.snapshot = pending /\ current'.start = begin /\ begin < Len(pending)
    BY <1>1
  <2> QED BY <1>1, <2>1 DEF BeginsAtMark
<1> QED BY <1>1, <1>2, <1>3, <1>4, <1>5 DEF s

(* Every run, extraction and replacement of the conversation keeps the     *)
(* invariant.                                                              *)
LEMMA ExtractionStep == ASSUME ExtractionInv, E!Next PROVE ExtractionInv'
<1>1. ASSUME NEW h \in Seq(Nat), E!Begin(h), UNCHANGED mark
      PROVE  /\ current'.snapshot \in Seq(Nat) /\ extracting' \in BOOLEAN
             /\ extracting' => BeginsAtMark(current.snapshot, current.start)'
  <2>1. /\ current'.snapshot = h /\ current'.start = E!StartOf(h)
        /\ extracting' \in BOOLEAN
        /\ extracting' => E!StartOf(h) < Len(h)
    <3>1. E!StartOf(h) \in Nat /\ Len(h) \in Nat
      BY <1>1 DEF E!StartOf, ExtractionInv, ExtractionType
    <3>2. /\ extracting' = (E!StartOf(h) < Len(h))
          /\ current' = [snapshot |-> h, start |-> E!StartOf(h)]
      BY <1>1 DEF E!Begin
    <3>3. extracting' => E!StartOf(h) < Len(h)
      BY <3>2, Zenon
    <3>4. extracting' \in BOOLEAN
      <4>1. (E!StartOf(h) < Len(h)) \in BOOLEAN
        BY <3>1
      <4> QED BY <3>2, <4>1, Zenon
    <3> QED BY <3>2, <3>3, <3>4
  <2>2. E!StartOf(h) = IF mark' > Len(h) THEN 0 ELSE mark'
    BY <1>1 DEF E!StartOf
  <2>3. BeginsAtMark(current.snapshot, current.start)' <=>
            /\ current'.start = (IF mark' > Len(current'.snapshot) THEN 0 ELSE mark')
            /\ current'.start < Len(current'.snapshot)
    BY DEF BeginsAtMark
  <2> QED BY <1>1, <2>1, <2>2, <2>3
<1>2. ASSUME NEW extract \in BOOLEAN, E!EndRun(extract) PROVE ExtractionInv'
  <2>1. hist' \in Seq(Nat) /\ said' \in Nat
    BY <1>2 DEF E!EndRun, ExtractionInv, ExtractionType
  <2>2. UNCHANGED <<mark, read, memories, index, marked, passed, skipped>>
    BY <1>2 DEF E!EndRun
  <2>3. \/ UNCHANGED <<current, extracting>> /\ pending' \in {pending, hist'}
        \/ E!Begin(hist') /\ UNCHANGED pending
    BY <1>2 DEF E!EndRun
  <2>4. /\ current'.snapshot \in Seq(Nat) /\ extracting' \in BOOLEAN /\ pending' \in Seq(Nat)
        /\ extracting' => BeginsAtMark(current.snapshot, current.start)'
    <3>1. CASE UNCHANGED <<current, extracting>> /\ pending' \in {pending, hist'}
      BY <2>1, <2>2, <3>1 DEF ExtractionInv, ExtractionType, BeginsAtMark
    <3>2. CASE E!Begin(hist') /\ UNCHANGED pending
      BY <1>1, <2>1, <2>2, <3>2 DEF ExtractionInv, ExtractionType
    <3> QED BY <2>3, <3>1, <3>2
  <2>5. E!Messages(marked, 0)' = E!Messages(marked, 0)
    BY <2>2 DEF E!Messages
  <2> QED BY <2>1, <2>2, <2>4, <2>5 DEF ExtractionInv, ExtractionType, E!NothingSkipped
<1>3. ASSUME E!Leave PROVE ExtractionInv'
  <2>1. UNCHANGED <<hist, said, mark, read, memories, index, changed, marked, passed, skipped>>
    BY <1>3 DEF E!Leave
  <2>2. \/ UNCHANGED <<current, extracting>> /\ pending' = hist
        \/ E!Begin(hist) /\ UNCHANGED pending
    BY <1>3 DEF E!Leave
  <2>3. hist \in Seq(Nat)
    BY DEF ExtractionInv, ExtractionType
  <2>4. /\ current'.snapshot \in Seq(Nat) /\ extracting' \in BOOLEAN /\ pending' \in Seq(Nat)
        /\ extracting' => BeginsAtMark(current.snapshot, current.start)'
    <3>1. CASE UNCHANGED <<current, extracting>> /\ pending' = hist
      BY <2>1, <3>1 DEF ExtractionInv, ExtractionType, BeginsAtMark
    <3>2. CASE E!Begin(hist) /\ UNCHANGED pending
      BY <1>1, <2>1, <2>3, <3>2 DEF ExtractionInv, ExtractionType
    <3> QED BY <2>2, <3>1, <3>2
  <2>5. E!Messages(marked, 0)' = E!Messages(marked, 0)
    BY <2>1 DEF E!Messages
  <2> QED BY <2>1, <2>4, <2>5 DEF ExtractionInv, ExtractionType, E!NothingSkipped
<1>4. ASSUME E!Extracted PROVE ExtractionInv'
  <2> DEFINE s == current.snapshot
             now == read \cup E!Messages(s, current.start)
             out == E!Messages(s, 0) \ (now \cup passed)
  <2>1. /\ extracting /\ E!Over(TRUE) /\ UNCHANGED <<hist, said>>
        /\ read' = now
        /\ skipped' = IF E!IsPrefix(marked, s) THEN skipped \cup out ELSE skipped
        /\ passed' = IF E!IsPrefix(marked, s) THEN passed ELSE passed \cup out
    BY <1>4 DEF E!Extracted
  <2>2. index' \subseteq memories'
    BY <1>4 DEF E!Extracted, ExtractionInv, E!NothingSkipped
  <2>3. /\ pending' \in Seq(Nat) /\ current'.snapshot \in Seq(Nat) /\ extracting' \in BOOLEAN
        /\ extracting' => BeginsAtMark(current.snapshot, current.start)'
        /\ mark' = Len(s) /\ marked' = s
    BY <2>1, OverBegins
  <2>4. E!IsPrefix(marked, s) => out = {}
    BY <2>1, ShownOrRead
  <2>5. s \in Seq(Nat)
    BY DEF ExtractionInv, ExtractionType
  <2>6. E!Messages(marked, 0)' = E!Messages(s, 0)
    BY <2>3 DEF E!Messages
  <2>7. E!Messages(s, 0) \subseteq read' \cup passed'
    BY <2>1, <2>4
  <2>8. skipped' = {}
    BY <2>1, <2>4 DEF ExtractionInv, E!NothingSkipped
  <2> HIDE DEF now, out
  <2> QED BY <2>1, <2>2, <2>3, <2>5, <2>6, <2>7, <2>8
          DEF ExtractionInv, ExtractionType, E!NothingSkipped
<1>5. ASSUME E!ExtractionFails PROVE ExtractionInv'
  <2>1. /\ extracting /\ E!Over(FALSE)
        /\ UNCHANGED <<hist, said, read, memories, index, changed, passed, skipped>>
    BY <1>5 DEF E!ExtractionFails
  <2>2. /\ pending' \in Seq(Nat) /\ current'.snapshot \in Seq(Nat) /\ extracting' \in BOOLEAN
        /\ extracting' => BeginsAtMark(current.snapshot, current.start)'
        /\ mark' = mark /\ marked' = marked
    BY <2>1, OverBegins
  <2>3. E!Messages(marked, 0)' = E!Messages(marked, 0)
    BY <2>2 DEF E!Messages
  <2> QED BY <2>1, <2>2, <2>3 DEF ExtractionInv, ExtractionType, E!NothingSkipped
<1>6. ASSUME E!Clear \/ E!Replace(<<said + 1>>) \/ E!Replace(<<>>) PROVE ExtractionInv'
  <2>1. /\ UNCHANGED <<mark, current, extracting, pending, read, marked, passed, skipped>>
        /\ hist' \in {hist, <<said + 1>>, <<>>} /\ said' \in {said, said + 1}
        /\ index' = {} \/ UNCHANGED <<memories, index>>
    BY <1>6 DEF E!Clear, E!Replace
  <2>2. hist' \in Seq(Nat) /\ said' \in Nat
    <3>1. /\ said \in Nat /\ said + 1 \in Nat /\ hist \in Seq(Nat)
          /\ <<>> \in Seq(Nat) /\ \A n \in Nat : <<n>> \in Seq(Nat)
      BY DEF ExtractionInv, ExtractionType
    <3> QED BY <2>1, <3>1
  <2>3. E!Messages(marked, 0)' = E!Messages(marked, 0)
    BY <2>1 DEF E!Messages
  <2> QED BY <2>1, <2>2, <2>3
          DEF ExtractionInv, ExtractionType, E!NothingSkipped, BeginsAtMark
<1> QED BY <1>2, <1>3, <1>4, <1>5, <1>6 DEF E!Next

(* Who is not looked at does not move.                                     *)
LEMMA ExtractionStay == ASSUME ExtractionInv, UNCHANGED extraction PROVE ExtractionInv'
<1>1. UNCHANGED <<hist, said, mark, current, extracting, pending, read, memories, index, marked,
                  passed, skipped>>
  BY DEF extraction
<1>2. E!Messages(marked, 0)' = E!Messages(marked, 0)
  BY <1>1 DEF E!Messages
<1> QED BY <1>1, <1>2 DEF ExtractionInv, ExtractionType, E!NothingSkipped, BeginsAtMark

-----------------------------------------------------------------------------
(* The recall of memories.                                                 *)

(* The question a side query is about is not in the future, and nothing    *)
(* was told of it yet; while a run is going on the side query is its own   *)
(* or one that an earlier run left behind.                                 *)
RecallInv ==
    /\ asked \in Nat /\ answering \in {"idle", "run", "waiting"}
    /\ recall \in [about : Nat, at : {"none", "selecting", "done"}, picked : SUBSET Memories]
    /\ present \subseteq Memories /\ typed \subseteq 1..asked
    /\ \A t \in told : t.run \in 1..asked /\ t.about \in 1..asked
    /\ Q!RecallFits
    /\ recall # Q!NoTask => /\ recall.about \in 1..asked
                            /\ \A t \in told : t.about # recall.about
    /\ recall # Q!NoTask /\ answering = "idle" => recall.about \in early
    /\ recall # Q!NoTask /\ answering # "idle" =>
           recall.about = asked \/ (recall.about \in early /\ asked \notin typed)
    /\ answering # "idle" => asked > 0

(* Nothing was asked at the start.                                         *)
LEMMA RecallStart == Q!Init => RecallInv
BY DEF Q!Init, Q!NoTask, RecallInv, Q!RecallFits

(* Telling the picked memories keeps what was told in order.               *)
LEMMA TellFits ==
  ASSUME RecallInv, recall # Q!NoTask, answering # "idle", Q!Tell, UNCHANGED <<asked, early, typed>>
  PROVE  /\ \A t \in told' : t.run \in 1..asked /\ t.about \in 1..asked
         /\ \A t \in told' : t.about = t.run \/ (t.about \in early /\ t.run \notin typed)
         /\ \A t, u \in told' : t.about = u.about => t = u
<1> DEFINE new == [run |-> asked, about |-> recall.about, files |-> recall.picked]
<1>1. told' = told \/ told' = told \cup {new}
  BY DEF Q!Tell
<1>2. new.run = asked /\ new.about = recall.about /\ asked \in 1..asked
  BY DEF RecallInv
<1> HIDE DEF new
<1>3. CASE told' = told
  BY <1>3 DEF RecallInv, Q!RecallFits
<1>4. CASE told' = told \cup {new}
  BY <1>2, <1>4 DEF RecallInv, Q!RecallFits
<1> QED BY <1>1, <1>3, <1>4

(* Every run and every side query keeps the invariant.                     *)
LEMMA RecallStep == ASSUME RecallInv, Q!Next PROVE RecallInv'
<1> USE DEF RecallInv
<1>0. Q!NoTask \in [about : Nat, at : {"none", "selecting", "done"}, picked : SUBSET Memories]
  BY DEF Q!NoTask
<1>1. ASSUME NEW isTyped \in BOOLEAN, Q!StartRun(isTyped) PROVE RecallInv'
  <2> DEFINE new == Q!Select(asked + 1)
  <2>1. /\ answering = "idle" /\ asked' = asked + 1 /\ answering' = "run"
        /\ recall' = IF isTyped \/ recall = Q!NoTask THEN new ELSE recall
        /\ typed' = IF isTyped THEN typed \cup {asked + 1} ELSE typed
        /\ UNCHANGED <<present, early, told>>
    BY <1>1 DEF Q!StartRun, Q!Replaces, Q!Starts
  <2>2. /\ new \in [about : Nat, at : {"none", "selecting", "done"}, picked : SUBSET Memories]
        /\ new.about = asked + 1
    BY DEF Q!Select
  <2> HIDE DEF new
  <2>3. /\ asked' \in Nat /\ answering' \in {"idle", "run", "waiting"} /\ asked' > 0
        /\ recall' \in [about : Nat, at : {"none", "selecting", "done"}, picked : SUBSET Memories]
        /\ present' \subseteq Memories /\ typed' \subseteq 1..asked'
        /\ \A t \in told' : t.run \in 1..asked' /\ t.about \in 1..asked'
    BY <2>1, <2>2
  <2>4. \A t \in told : t.run # asked + 1 /\ t.about # asked + 1
    OBVIOUS
  <2>5. /\ \A t \in told' : t.about = t.run \/ (t.about \in early' /\ t.run \notin typed')
        /\ \A t, u \in told' : t.about = u.about => t = u
    BY <2>1, <2>4 DEF Q!RecallFits
  <2>6. recall' # Q!NoTask => /\ recall'.about \in 1..asked'
                              /\ \A t \in told' : t.about # recall'.about
    BY <2>1, <2>2, <2>4
  <2>7. recall' = new \/ (recall' = recall /\ recall # Q!NoTask /\ ~isTyped)
    BY <2>1
  <2>8. recall' # Q!NoTask =>
            recall'.about = asked' \/ (recall'.about \in early' /\ asked' \notin typed')
    BY <2>1, <2>2, <2>7
  <2> QED BY <2>1, <2>3, <2>5, <2>6, <2>8 DEF Q!RecallFits
<1>2. ASSUME Q!EndsAtStart PROVE RecallInv'
  BY <1>2 DEF Q!EndsAtStart, Q!RecallFits
<1>3. ASSUME Q!SideQueryEnds PROVE RecallInv'
  <2> PICK picked \in SUBSET (recall.picked \cap present) :
        recall' = [recall EXCEPT !.at = "done", !.picked = picked]
    BY <1>3 DEF Q!SideQueryEnds
  <2>0. picked \in SUBSET Memories /\ recall.at = "selecting"
    BY <1>3 DEF Q!SideQueryEnds
  <2>a. recall' = [about |-> recall.about, at |-> "done", picked |-> picked]
    OBVIOUS
  <2>1. /\ recall # Q!NoTask /\ recall'.about = recall.about
        /\ recall' \in [about : Nat, at : {"none", "selecting", "done"}, picked : SUBSET Memories]
    BY <2>0, <2>a DEF Q!NoTask
  <2>2. UNCHANGED <<asked, answering, present, early, typed, told>>
    BY <1>3 DEF Q!SideQueryEnds
  <2> QED BY <2>1, <2>2 DEF Q!RecallFits
<1>4. ASSUME Q!Consume \/ Q!WaitEnds PROVE RecallInv'
  <2>1. /\ recall.at = "done" /\ answering # "idle" /\ Q!Tell /\ recall' = Q!NoTask
        /\ answering' \in {"idle", "run"} /\ UNCHANGED <<asked, present, early, typed>>
    BY <1>4 DEF Q!Consume, Q!WaitEnds
  <2>2. recall # Q!NoTask
    BY <2>1 DEF Q!NoTask
  <2>3. /\ \A t \in told' : t.run \in 1..asked /\ t.about \in 1..asked
        /\ \A t \in told' : t.about = t.run \/ (t.about \in early /\ t.run \notin typed)
        /\ \A t, u \in told' : t.about = u.about => t = u
    BY <2>1, <2>2, TellFits
  <2> QED BY <1>0, <2>1, <2>3 DEF Q!RecallFits
<1>5. ASSUME Q!Answer PROVE RecallInv'
  BY <1>5 DEF Q!Answer, Q!EndsWith, Q!RecallFits
<1>6. ASSUME Q!WaitCut PROVE RecallInv'
  BY <1>0, <1>6 DEF Q!WaitCut, Q!RecallFits
<1>7. ASSUME Q!EndEarly PROVE RecallInv'
  BY <1>7 DEF Q!EndEarly, Q!RecallFits
<1>8. ASSUME Q!Change PROVE RecallInv'
  BY <1>8 DEF Q!Change, Q!RecallFits
<1> QED BY <1>1, <1>2, <1>3, <1>4, <1>5, <1>6, <1>7, <1>8 DEF Q!Next

(* Who is not looked at does not move.                                     *)
LEMMA RecallStay == ASSUME RecallInv, UNCHANGED recalled PROVE RecallInv'
BY DEF RecallInv, Q!RecallFits, recalled

(* consolidation.py, auto_memory.py, recall.py: one process tidies the     *)
(* memory at a time, no message is passed over by the extraction of        *)
(* memories, and memories are told in the run they were picked for.        *)
THEOREM MemoryStaysSafe == Spec => []MemorySafe
<1>1. Init => LockInv /\ ExtractionInv /\ RecallInv
  BY LockStart, ExtractionStart, RecallStart DEF Init
<1>2. LockInv /\ [Next]_<<focus, vars>> => LockInv'
  BY LockStep, LockStay DEF Next, vars
<1>3. ExtractionInv /\ [Next]_<<focus, vars>> => ExtractionInv'
  BY ExtractionStep, ExtractionStay DEF Next, vars
<1>4. RecallInv /\ [Next]_<<focus, vars>> => RecallInv'
  BY RecallStep, RecallStay DEF Next, vars
<1>5. LockInv /\ ExtractionInv /\ RecallInv => MemorySafe
  BY OneRuns DEF ExtractionInv, RecallInv, MemorySafe
<1> QED BY <1>1, <1>2, <1>3, <1>4, <1>5, PTL DEF Spec

-----------------------------------------------------------------------------
(* The worktrees.                                                          *)

WorktreesType ==
    /\ tree \in [Names -> {"none", "here", "switched"}]
    /\ commits \in [Names -> Nat] /\ active \in [Names -> Int]
    /\ session \in Names \cup {Root} /\ saved \in Names \cup {Root}
    /\ workDir \in Names \cup {Root}
    /\ removing \in [Names -> {"no", "exit", "other"}]
    /\ strayed \in BOOLEAN

(* A worktree is being removed only with commits nobody counts on.         *)
RemovalsExcused ==
    /\ W!WorkSurvives
    /\ \A n \in Names : removing[n] # "no" => commits[n] = 0 \/ n \in excused

(* The agent is in its session's worktree, or has been moved out of it by  *)
(* an exit that took its time; and a removal that is not an exit's has     *)
(* noted that the agent is there.                                          *)
AgentPlaced ==
    /\ W!WorkDirExists
    /\ session # Root => workDir \in {session, Root}
    /\ \A n \in Names : removing[n] = "other" /\ workDir = n => strayed

WorktreesInv == WorktreesType /\ RemovalsExcused /\ AgentPlaced

(* There are no worktrees at the start.                                    *)
LEMMA WorktreesStart == W!Init => WorktreesInv
<1> SUFFICES ASSUME W!Init PROVE WorktreesInv
  OBVIOUS
<1>a. W!NotActive \in Int
  BY DEF W!NotActive
<1>1. WorktreesType
  BY <1>a DEF W!Init, WorktreesType
<1>2. RemovalsExcused /\ AgentPlaced
  BY DEF W!Init, RemovalsExcused, AgentPlaced, W!WorkSurvives, W!WorkDirExists
<1> QED BY <1>1, <1>2 DEF WorktreesInv

(* Every step of the manager, of git, of the agents and of the clean-up    *)
(* keeps the invariant.                                                    *)
LEMMA WorktreesStep == ASSUME WorktreesInv, W!Next PROVE WorktreesInv'
<1> USE WorkspaceAssumption DEF WorkspaceAssumption, WorktreesInv
<1>1. ASSUME NEW n \in Names, W!Enter(n) PROVE WorktreesInv'
  <2> USE <1>1 DEF W!Enter, W!Create, W!HeadSha, W!Go, W!Known, W!NotActive
  <2>1. WorktreesType'
    BY DEF WorktreesType
  <2>2. RemovalsExcused'
    BY DEF WorktreesType, RemovalsExcused, W!WorkSurvives
  <2>3. AgentPlaced'
    BY DEF WorktreesType, AgentPlaced, W!WorkDirExists, W!InTree
  <2> QED BY <2>1, <2>2, <2>3
<1>2. ASSUME NEW n \in Names, W!CreateOverSwitched(n) PROVE WorktreesInv'
  <2> USE <1>2 DEF W!CreateOverSwitched, W!Known, W!NotActive
  <2>1. WorktreesType'
    BY DEF WorktreesType
  <2>2. RemovalsExcused'
    BY DEF WorktreesType, RemovalsExcused, W!WorkSurvives
  <2>3. AgentPlaced'
    BY DEF WorktreesType, AgentPlaced, W!WorkDirExists, W!InTree
  <2> QED BY <2>1, <2>2, <2>3
<1>3. ASSUME NEW n \in Names, W!EnterKnown(n) PROVE WorktreesInv'
  <2> USE <1>3 DEF W!EnterKnown, W!Go, W!Known, W!NotActive
  <2>1. WorktreesType'
    BY DEF WorktreesType
  <2>2. RemovalsExcused'
    BY DEF WorktreesType, RemovalsExcused, W!WorkSurvives
  <2>3. AgentPlaced'
    BY DEF WorktreesType, AgentPlaced, W!WorkDirExists, W!InTree
  <2> QED BY <2>1, <2>2, <2>3
<1>4. ASSUME NEW n \in Names, W!RemoveBranch(n) PROVE WorktreesInv'
  <2> USE <1>4 DEF W!RemoveBranch, W!NotActive
  <2>1. WorktreesType'
    BY DEF WorktreesType
  <2>2. RemovalsExcused'
    <3>0. /\ lost' = IF n \in branch /\ tree[n] # "here" /\ commits[n] > 0 THEN lost \cup {n}
                     ELSE lost
          /\ removing[n] # "no" /\ removing' = [removing EXCEPT ![n] = "no"]
          /\ UNCHANGED <<commits, excused>>
      OBVIOUS
    <3> HIDE <1>4 DEF W!RemoveBranch
    <3>1. commits[n] > 0 => n \in excused
      BY <3>0 DEF WorktreesType, RemovalsExcused
    <3>2. lost' \subseteq excused'
      BY <3>0, <3>1 DEF RemovalsExcused, W!WorkSurvives
    <3>3. \A m \in Names : removing'[m] # "no" => commits'[m] = 0 \/ m \in excused'
      BY <3>0 DEF WorktreesType, RemovalsExcused
    <3> QED BY <3>2, <3>3 DEF RemovalsExcused, W!WorkSurvives
  <2>3. AgentPlaced'
    <3>1. CASE removing[n] = "exit"
      BY <3>1 DEF WorktreesType, AgentPlaced, W!WorkDirExists
    <3>2. CASE removing[n] = "other"
      <4>1. workDir' = workDir /\ (strayed' <=> strayed)
        BY <3>2
      <4> QED BY <3>2, <4>1 DEF WorktreesType, AgentPlaced, W!WorkDirExists, W!InTree
    <3> QED BY <3>1, <3>2 DEF WorktreesType
  <2> QED BY <2>1, <2>2, <2>3
<1>5. ASSUME NEW n \in Names, W!SubAgentDone(n) PROVE WorktreesInv'
  <2> USE <1>5 DEF W!SubAgentDone, W!RemoveDirectory, W!ForceRemove, W!Clean, W!Changed
  <2>1. WorktreesType'
    BY DEF WorktreesType
  <2>2. RemovalsExcused'
    BY DEF WorktreesType, RemovalsExcused, W!WorkSurvives
  <2>3. AgentPlaced'
    <3>1. CASE UNCHANGED <<tree, removing, strayed>>
      BY <3>1 DEF WorktreesType, AgentPlaced, W!WorkDirExists, W!InTree
    <3>2. CASE /\ removing' = [removing EXCEPT ![n] = "other"]
               /\ tree' = [tree EXCEPT ![n] = "none"] \/ tree' = tree
               /\ strayed' = (strayed \/ workDir = n)
      <4>1. workDir = n => strayed'
        BY <3>2
      <4>2. strayed => strayed'
        BY <3>2
      <4>3. UNCHANGED <<session, workDir>>
        OBVIOUS
      <4> QED BY <3>2, <4>1, <4>2, <4>3 DEF WorktreesType, AgentPlaced, W!WorkDirExists, W!InTree
    <3> QED BY <3>1, <3>2
  <2> QED BY <2>1, <2>2, <2>3
<1>6. ASSUME NEW n \in Names, W!SubAgentFails(n) PROVE WorktreesInv'
  <2> USE <1>6 DEF W!SubAgentFails
  <2>1. WorktreesType'
    BY DEF WorktreesType
  <2>2. RemovalsExcused'
    BY DEF WorktreesType, RemovalsExcused, W!WorkSurvives
  <2>3. AgentPlaced'
    BY DEF WorktreesType, AgentPlaced, W!WorkDirExists, W!InTree
  <2> QED BY <2>1, <2>2, <2>3
<1>7. ASSUME NEW n \in Names, W!RemoveStale(n) PROVE WorktreesInv'
  <2> USE <1>7 DEF W!RemoveStale, W!Stale, W!RemoveDirectory, W!ForceRemove, W!Clean, W!Changed
  <2>1. WorktreesType'
    BY DEF WorktreesType
  <2>2. RemovalsExcused'
    BY DEF WorktreesType, RemovalsExcused, W!WorkSurvives
  <2>3. AgentPlaced'
    BY DEF WorktreesType, AgentPlaced, W!WorkDirExists, W!InTree
  <2> QED BY <2>1, <2>2, <2>3
<1>8. ASSUME NEW n \in Names, W!DeleteTeam(n) PROVE WorktreesInv'
  <2> USE <1>8 DEF W!DeleteTeam, W!ForceRemove
  <2>1. WorktreesType'
    BY DEF WorktreesType
  <2>2. RemovalsExcused'
    BY DEF WorktreesType, RemovalsExcused, W!WorkSurvives
  <2>3. AgentPlaced'
    BY DEF WorktreesType, AgentPlaced, W!WorkDirExists, W!InTree
  <2> QED BY <2>1, <2>2, <2>3
<1>9. ASSUME NEW n \in Names, W!Work(n) PROVE WorktreesInv'
  <2> USE <1>9 DEF W!Work
  <2>1. WorktreesType'
    BY DEF WorktreesType
  <2>2. RemovalsExcused'
    BY DEF WorktreesType, RemovalsExcused, W!WorkSurvives
  <2>3. AgentPlaced'
    BY DEF WorktreesType, AgentPlaced, W!WorkDirExists, W!InTree
  <2> QED BY <2>1, <2>2, <2>3
<1>10. ASSUME NEW n \in Names, NEW isTeammate \in BOOLEAN, W!Spawn(n, isTeammate) PROVE WorktreesInv'
  <2> USE <1>10 DEF W!Spawn, W!Create, W!HeadSha
  <2>1. WorktreesType'
    BY DEF WorktreesType
  <2>2. RemovalsExcused'
    BY DEF WorktreesType, RemovalsExcused, W!WorkSurvives
  <2>3. AgentPlaced'
    BY DEF WorktreesType, AgentPlaced, W!WorkDirExists, W!InTree
  <2> QED BY <2>1, <2>2, <2>3
<1>11. ASSUME W!ExitKeep PROVE WorktreesInv'
  <2> USE <1>11 DEF W!ExitKeep
  <2>1. WorktreesType'
    BY DEF WorktreesType
  <2>2. RemovalsExcused'
    BY DEF WorktreesType, RemovalsExcused, W!WorkSurvives
  <2>3. AgentPlaced'
    BY DEF WorktreesType, AgentPlaced, W!WorkDirExists, W!InTree
  <2> QED BY <2>1, <2>2, <2>3
<1>12. ASSUME NEW discard \in BOOLEAN, W!ExitTimesOut(discard) PROVE WorktreesInv'
  <2> USE <1>12 DEF W!ExitTimesOut
  <2>1. WorktreesType'
    BY DEF WorktreesType
  <2>2. RemovalsExcused'
    BY DEF WorktreesType, RemovalsExcused, W!WorkSurvives
  <2>3. AgentPlaced'
    BY DEF WorktreesType, AgentPlaced, W!WorkDirExists, W!InTree
  <2> QED BY <2>1, <2>2, <2>3
<1>13. ASSUME NEW discard \in BOOLEAN, NEW by \in {"tool", "user"}, W!ExitRemove(by, discard) PROVE WorktreesInv'
  <2> USE <1>13 DEF W!ExitRemove, W!RemoveDirectory, W!ForceRemove, W!Clean, W!Changed, W!CountedFrom
  <2>1. WorktreesType'
    BY DEF WorktreesType
  <2>2. RemovalsExcused'
    BY DEF WorktreesType, RemovalsExcused, W!WorkSurvives
  <2>3. AgentPlaced'
    BY DEF WorktreesType, AgentPlaced, W!WorkDirExists, W!InTree
  <2> QED BY <2>1, <2>2, <2>3
<1>14. ASSUME W!Restart PROVE WorktreesInv'
  <2> USE <1>14 DEF W!Restart
  <2>a. W!NotActive \in Int /\ Nat \subseteq Int
    BY DEF W!NotActive
  <2>b. PICK s \in Names \cup {Root} :
          /\ s = Root \/ W!InTree(s)
          /\ session' = s /\ saved' = s /\ workDir' = s
          /\ active' = [n \in Names |-> IF n = s THEN commits[n] ELSE W!NotActive]
    BY DEF WorktreesType
  <2> HIDE DEF W!NotActive
  <2>1. WorktreesType'
    BY <2>a, <2>b DEF WorktreesType
  <2>2. RemovalsExcused'
    BY DEF WorktreesType, RemovalsExcused, W!WorkSurvives
  <2>3. AgentPlaced'
    BY <2>b DEF WorktreesType, AgentPlaced, W!WorkDirExists, W!InTree
  <2> QED BY <2>1, <2>2, <2>3
<1>15. ASSUME NEW n \in Names, W!RemovalStopped(n) PROVE WorktreesInv'
  <2> USE <1>15 DEF W!RemovalStopped
  <2>1. WorktreesType'
    BY DEF WorktreesType
  <2>2. RemovalsExcused'
    BY DEF WorktreesType, RemovalsExcused, W!WorkSurvives
  <2>3. AgentPlaced'
    BY DEF WorktreesType, AgentPlaced, W!WorkDirExists, W!InTree
  <2> QED BY <2>1, <2>2, <2>3
<1> QED BY <1>1, <1>2, <1>3, <1>4, <1>5, <1>6, <1>7, <1>8, <1>9, <1>10, <1>11, <1>12, <1>13, <1>14,
           <1>15 DEF W!Next

(* Who is not looked at does not move.                                     *)
LEMMA WorktreesStay == ASSUME WorktreesInv, UNCHANGED worktrees PROVE WorktreesInv'
BY DEF WorktreesInv, WorktreesType, RemovalsExcused, AgentPlaced, W!WorkSurvives,
       W!WorkDirExists, W!InTree, worktrees

(* manager.py, cleanup.py of worktree/: no work is destroyed that nobody   *)
(* gave up, and the agent's directory is there.                            *)
THEOREM WorktreesStaySafe == Spec => []WorktreesSafe
<1>1. Init => WorktreesInv
  BY WorktreesStart DEF Init
<1>2. WorktreesInv /\ [Next]_<<focus, vars>> => WorktreesInv'
  BY WorktreesStep, WorktreesStay DEF Next, vars
<1>3. WorktreesInv => WorktreesSafe
  BY DEF WorktreesInv, RemovalsExcused, AgentPlaced, WorktreesSafe
<1> QED BY <1>1, <1>2, <1>3, PTL DEF Spec

-----------------------------------------------------------------------------
(* The active skills, and the skills that are installed.                   *)

ActiveType ==
    /\ shown \subseteq Texts /\ results \subseteq Texts
    /\ summary \in [tail : SUBSET Texts, late : SUBSET Texts, names : BOOLEAN, on : BOOLEAN]

(* Whatever conversation the summary under way ends in will tell of the    *)
(* active text as well: in its tail or by its names, or it is known that   *)
(* what came in meanwhile is lost.                                         *)
SummaryTells ==
    summary.on => \/ inForce = NoSkill \/ summary.names
                  \/ inForce \in summary.tail \cup summary.late \cup results \cup elsewhere

ActiveInv == ActiveType /\ A!ActiveTold /\ SummaryTells /\ A!GrantsOwn

(* No skill is active at the start.                                        *)
LEMMA ActiveStart == A!Init => ActiveInv
BY DEF A!Init, A!NoSummary, ActiveInv, ActiveType, A!ActiveTold, SummaryTells, A!GrantsOwn

(* Every step of the model, the user and the conversation keeps the        *)
(* invariant.                                                              *)
LEMMA ActiveStep == ASSUME ActiveInv, A!Next PROVE ActiveInv'
<1> USE DEF ActiveInv, ActiveType
<1>1. ASSUME NEW b \in Texts, A!Inline(b) PROVE ActiveInv'
  <2> USE <1>1 DEF A!Inline, A!Activated, A!Shown, A!ShownElsewhere
  <2>1. ActiveType'
    OBVIOUS
  <2>2. A!ActiveTold'
    BY DEF A!ActiveTold, SummaryTells
  <2>3. SummaryTells'
    BY DEF SummaryTells
  <2>4. A!GrantsOwn'
    BY DEF A!GrantsOwn
  <2> QED BY <2>1, <2>2, <2>3, <2>4
<1>2. ASSUME NEW b \in Texts, A!ChildLoads(b) PROVE ActiveInv'
  <2> USE <1>2 DEF A!ChildLoads, A!Activated, A!ShownElsewhere
  <2>1. ActiveType'
    OBVIOUS
  <2>2. A!ActiveTold'
    BY DEF A!ActiveTold, SummaryTells
  <2>3. SummaryTells'
    BY DEF SummaryTells
  <2>4. A!GrantsOwn'
    BY DEF A!GrantsOwn
  <2> QED BY <2>1, <2>2, <2>3, <2>4
<1>3. ASSUME NEW b \in Texts, NEW reload \in BOOLEAN, A!LoadSkill(b, reload) PROVE ActiveInv'
  <2> USE <1>3 DEF A!LoadSkill, A!Activated
  <2>1. ActiveType'
    OBVIOUS
  <2>2. A!ActiveTold'
    BY DEF A!ActiveTold, SummaryTells
  <2>3. SummaryTells'
    BY DEF SummaryTells
  <2>4. A!GrantsOwn'
    BY DEF A!GrantsOwn
  <2> QED BY <2>1, <2>2, <2>3, <2>4
<1>4. ASSUME A!StartRun PROVE ActiveInv'
  <2> USE <1>4 DEF A!StartRun
  <2>1. ActiveType'
    OBVIOUS
  <2>2. A!ActiveTold'
    BY DEF A!ActiveTold, SummaryTells
  <2>3. SummaryTells'
    BY DEF SummaryTells
  <2>4. A!GrantsOwn'
    BY DEF A!GrantsOwn
  <2> QED BY <2>1, <2>2, <2>3, <2>4
<1>5. ASSUME A!Recorded PROVE ActiveInv'
  <2> USE <1>5 DEF A!Recorded, A!Shown, A!ShownElsewhere
  <2>1. ActiveType'
    <3>1. CASE here /\ summary.on
      BY <3>1
    <3>2. CASE ~(here /\ summary.on)
      BY <3>2
    <3> QED BY <3>1, <3>2
  <2>2. A!ActiveTold'
    BY DEF A!ActiveTold, SummaryTells
  <2>3. SummaryTells'
    BY DEF SummaryTells
  <2>4. A!GrantsOwn'
    BY DEF A!GrantsOwn
  <2> QED BY <2>1, <2>2, <2>3, <2>4
<1>6. ASSUME A!EndRun PROVE ActiveInv'
  <2> USE <1>6 DEF A!EndRun
  <2>1. ActiveType'
    OBVIOUS
  <2>2. A!ActiveTold'
    BY DEF A!ActiveTold, SummaryTells
  <2>3. SummaryTells'
    BY DEF SummaryTells
  <2>4. A!GrantsOwn'
    BY DEF A!GrantsOwn
  <2> QED BY <2>1, <2>2, <2>3, <2>4
<1>7. ASSUME A!Compact PROVE ActiveInv'
  <2> USE <1>7 DEF A!Compact
  <2>a. A!Named \in BOOLEAN /\ (A!Named <=> inForce # NoSkill)
    BY DEF A!Named
  <2>b. PICK some \in SUBSET shown :
          summary' = [tail |-> some, late |-> {}, names |-> A!Named, on |-> TRUE]
    OBVIOUS
  <2>1. ActiveType'
    BY <2>a, <2>b
  <2>2. A!ActiveTold'
    BY DEF A!ActiveTold, SummaryTells
  <2>3. SummaryTells'
    BY <2>a, <2>b DEF SummaryTells
  <2>4. A!GrantsOwn'
    BY DEF A!GrantsOwn
  <2> QED BY <2>1, <2>2, <2>3, <2>4
<1>8. ASSUME A!Summarized PROVE ActiveInv'
  <2> USE <1>8 DEF A!Summarized, A!NoSummary
  <2>1. ActiveType'
    OBVIOUS
  <2>2. A!ActiveTold'
    BY DEF A!ActiveTold, SummaryTells
  <2>3. SummaryTells'
    BY DEF SummaryTells
  <2>4. A!GrantsOwn'
    BY DEF A!GrantsOwn
  <2> QED BY <2>1, <2>2, <2>3, <2>4
<1>9. ASSUME A!Rewind PROVE ActiveInv'
  <2> USE <1>9 DEF A!Rewind
  <2>1. ActiveType'
    OBVIOUS
  <2>2. A!ActiveTold'
    BY DEF A!ActiveTold, SummaryTells
  <2>3. SummaryTells'
    BY DEF SummaryTells
  <2>4. A!GrantsOwn'
    BY DEF A!GrantsOwn
  <2> QED BY <2>1, <2>2, <2>3, <2>4
<1>10. ASSUME A!SwitchSession PROVE ActiveInv'
  <2> USE <1>10 DEF A!SwitchSession, A!NoSummary
  <2>1. ActiveType'
    OBVIOUS
  <2>2. A!ActiveTold'
    BY DEF A!ActiveTold, SummaryTells
  <2>3. SummaryTells'
    BY DEF SummaryTells
  <2>4. A!GrantsOwn'
    BY DEF A!GrantsOwn
  <2> QED BY <2>1, <2>2, <2>3, <2>4
<1>11. ASSUME A!Clear PROVE ActiveInv'
  <2> USE <1>11 DEF A!Clear, A!Cleared, A!NoSummary
  <2>1. ActiveType'
    OBVIOUS
  <2>2. A!ActiveTold'
    BY DEF A!ActiveTold, SummaryTells
  <2>3. SummaryTells'
    BY DEF SummaryTells
  <2>4. A!GrantsOwn'
    BY DEF A!GrantsOwn
  <2> QED BY <2>1, <2>2, <2>3, <2>4
<1> QED BY <1>1, <1>2, <1>3, <1>4, <1>5, <1>6, <1>7, <1>8, <1>9, <1>10, <1>11 DEF A!Next

InstalledType ==
    /\ dir \in [I!Dirs -> [of : {0} \cup I!Installs, has : SUBSET I!Parts]]
    /\ place \in [I!Installs -> {"none", "fetching", "clear", "over", "left"}]
    /\ own \subseteq I!Installs
    /\ entry \in [dir : {0} \cup I!Dirs, of : {0} \cup I!Installs]
    /\ catalog \in BOOLEAN

(* Of an installation that is over nothing lies in its staging directory,  *)
(* and one about to be put in place is whole.                              *)
StagingClean ==
    \A i \in I!Installs : /\ place[i] = "over" => dir[i] = I!Gone
                          /\ place[i] = "clear" => dir[i].has = I!Parts

HomeWhole == torn \/ dir[I!Home] = I!Gone \/ dir[I!Home].has = I!Parts

(* Once the last change was noticed, the loader's entry is of a staging    *)
(* directory that still has its manifest, of the skill's directory, or     *)
(* there is none because there is no skill.                                *)
EntryCurrent ==
    noticed => \/ entry.dir \in I!Dirs /\ "manifest" \in dir[entry.dir].has
               \/ entry = I!NoEntry /\ "manifest" \notin dir[I!Home].has

CatalogCurrent == ~unlisted => catalog = (entry.dir # 0)

InstalledInv == InstalledType /\ StagingClean /\ HomeWhole /\ EntryCurrent /\ CatalogCurrent

(* The directories: the staging ones are numbered as the installations.    *)
LEMMA SkillDirs ==
    /\ I!Home \in I!Dirs /\ I!Home \notin I!Installs /\ 0 \notin I!Dirs
    /\ I!Dirs = I!Installs \cup {I!Home}
BY WorkspaceAssumption DEF WorkspaceAssumption, I!Home, I!Dirs, I!Installs

(* _scan_directory: the loader finds a directory with a manifest, or none  *)
(* when there is none.                                                     *)
LEMMA LoadFinds ==
    ASSUME dir' \in [I!Dirs -> [of : {0} \cup I!Installs, has : SUBSET I!Parts]], I!Load
    PROVE  /\ entry' \in [dir : {0} \cup I!Dirs, of : {0} \cup I!Installs]
           /\ EntryCurrent'
<1> USE SkillDirs
<1>1. CASE I!Found = {}
  <2>1. entry' = I!NoEntry
    BY <1>1 DEF I!Load
  <2>2. "manifest" \notin dir'[I!Home].has
    BY <1>1 DEF I!Found, I!Staged, I!Readable
  <2> QED BY <2>1, <2>2 DEF I!NoEntry, EntryCurrent
<1>2. CASE I!Found # {}
  <2>1. PICK d \in I!Found : entry' = [dir |-> d, of |-> dir'[d].of]
    BY <1>2 DEF I!Load
  <2>2. d \in I!Dirs /\ "manifest" \in dir'[d].has
    BY <2>1 DEF I!Found, I!Staged, I!Readable
  <2> QED BY <2>1, <2>2 DEF EntryCurrent
<1> QED BY <1>1, <1>2

(* What the loader remembers is current as well after listing.             *)
LEMMA ListedCurrent ==
    ASSUME I!Listed PROVE catalog' \in BOOLEAN /\ CatalogCurrent'
<1>1. catalog' = (entry'.dir # 0)
  BY DEF I!Listed
<1> QED BY <1>1 DEF CatalogCurrent

(* Nothing is installed at the start.                                      *)
LEMMA InstalledStart == I!Init => InstalledInv
<1> SUFFICES ASSUME I!Init PROVE InstalledInv
  OBVIOUS
<1> USE SkillDirs DEF I!Init, I!Gone, I!NoEntry
<1>1. InstalledType
  BY DEF InstalledType
<1>2. StagingClean /\ HomeWhole
  BY DEF StagingClean, HomeWhole
<1>3. EntryCurrent /\ CatalogCurrent
  BY DEF EntryCurrent, CatalogCurrent
<1> QED BY <1>1, <1>2, <1>3 DEF InstalledInv

(* Every step of InstallSkill, of the loader and of the processes keeps    *)
(* the invariant.                                                          *)
LEMMA InstalledStep == ASSUME InstalledInv, I!Next PROVE InstalledInv'
<1> USE SkillDirs DEF InstalledInv
<1>1. ASSUME I!Refresh PROVE InstalledInv'
  <2> USE <1>1 DEF I!Refresh, I!NeedsReload
  <2>a. dir' \in [I!Dirs -> [of : {0} \cup I!Installs, has : SUBSET I!Parts]]
    BY DEF InstalledType
  <2>1. InstalledType'
    BY <2>a, LoadFinds, ListedCurrent DEF InstalledType
  <2>2. StagingClean'
    BY DEF InstalledType, StagingClean
  <2>3. HomeWhole'
    BY DEF InstalledType, HomeWhole
  <2>4. EntryCurrent'
    BY <2>a, LoadFinds
  <2>5. CatalogCurrent'
    BY ListedCurrent
  <2> QED BY <2>1, <2>2, <2>3, <2>4, <2>5
<1>2. ASSUME I!Reload PROVE InstalledInv'
  <2> USE <1>2 DEF I!Reload
  <2>a. dir' \in [I!Dirs -> [of : {0} \cup I!Installs, has : SUBSET I!Parts]]
    BY DEF InstalledType
  <2>1. InstalledType'
    BY <2>a, LoadFinds, ListedCurrent DEF InstalledType
  <2>2. StagingClean'
    BY DEF InstalledType, StagingClean
  <2>3. HomeWhole'
    BY DEF InstalledType, HomeWhole
  <2>4. EntryCurrent'
    BY <2>a, LoadFinds
  <2>5. CatalogCurrent'
    BY ListedCurrent
  <2> QED BY <2>1, <2>2, <2>3, <2>4, <2>5
<1>3. ASSUME I!Get PROVE InstalledInv'
  <2> USE <1>3 DEF I!Get, I!Served
  <2>1. InstalledType'
    BY DEF InstalledType
  <2>2. StagingClean'
    BY DEF InstalledType, StagingClean
  <2>3. HomeWhole'
    BY DEF InstalledType, HomeWhole, StagingClean
  <2>4. EntryCurrent'
    BY DEF InstalledType, EntryCurrent
  <2>5. CatalogCurrent'
    BY DEF InstalledType, CatalogCurrent
  <2> QED BY <2>1, <2>2, <2>3, <2>4, <2>5
<1>4. ASSUME NEW i \in I!Installs, I!Begin(i) PROVE InstalledInv'
  <2> USE <1>4 DEF I!Begin, I!Goes, I!Elsewhere
  <2>1. InstalledType'
    BY DEF InstalledType
  <2>2. StagingClean'
    BY DEF InstalledType, StagingClean
  <2>3. HomeWhole'
    BY DEF InstalledType, HomeWhole, StagingClean
  <2>4. EntryCurrent'
    BY DEF InstalledType, EntryCurrent
  <2>5. CatalogCurrent'
    BY DEF InstalledType, CatalogCurrent
  <2> QED BY <2>1, <2>2, <2>3, <2>4, <2>5
<1>5. ASSUME NEW i \in I!Installs, I!Download(i) PROVE InstalledInv'
  <2> USE <1>5 DEF I!Download, I!Elsewhere
  <2>1. InstalledType'
    BY DEF InstalledType
  <2>2. StagingClean'
    BY DEF InstalledType, StagingClean
  <2>3. HomeWhole'
    BY DEF InstalledType, HomeWhole, StagingClean
  <2>4. EntryCurrent'
    BY DEF InstalledType, EntryCurrent
  <2>5. CatalogCurrent'
    BY DEF InstalledType, CatalogCurrent
  <2> QED BY <2>1, <2>2, <2>3, <2>4, <2>5
<1>6. ASSUME NEW i \in I!Installs, I!Fails(i) PROVE InstalledInv'
  <2> USE <1>6 DEF I!Fails, I!Goes, I!Discarded, I!Gone, I!Elsewhere
  <2>1. InstalledType'
    BY DEF InstalledType
  <2>2. StagingClean'
    BY DEF InstalledType, StagingClean
  <2>3. HomeWhole'
    BY DEF InstalledType, HomeWhole, StagingClean
  <2>4. EntryCurrent'
    BY DEF InstalledType, EntryCurrent
  <2>5. CatalogCurrent'
    BY DEF InstalledType, CatalogCurrent
  <2> QED BY <2>1, <2>2, <2>3, <2>4, <2>5
<1>7. ASSUME NEW i \in I!Installs, I!Clear(i) PROVE InstalledInv'
  <2> USE <1>7 DEF I!Clear, I!MayReplace, I!Goes, I!Discarded, I!Gone, I!Elsewhere
  <2>1. InstalledType'
    BY DEF InstalledType
  <2>2. StagingClean'
    <3>1. \A j \in I!Installs : j # i => place'[j] = place[j] /\ dir'[j] = dir[j]
      BY DEF InstalledType
    <3>2. \/ place'[i] = "clear" /\ dir'[i] = dir[i] /\ dir[i].has = I!Parts
          \/ place'[i] = "over" /\ dir'[i] = I!Gone
      <4>1. CASE place' = [place EXCEPT ![i] = "clear"] /\ dir' = [dir EXCEPT ![I!Home] = I!Gone]
        BY <4>1 DEF InstalledType
      <4>2. CASE place' = [place EXCEPT ![i] = "over"]
                 /\ \E some \in SUBSET dir[I!Home].has :
                       dir' = [I!Discarded(i) EXCEPT ![I!Home].has = some]
        <5>1. place'[i] = "over"
          BY <4>2 DEF InstalledType
        <5>2. dir'[i] = I!Discarded(i)[i]
          BY <4>2 DEF InstalledType
        <5>3. I!Discarded(i)[i] = I!Gone
          BY DEF InstalledType
        <5> QED BY <5>1, <5>2, <5>3
      <4> QED BY <4>1, <4>2
    <3> QED BY <3>1, <3>2 DEF StagingClean
  <2>3. HomeWhole'
    BY DEF InstalledType, HomeWhole, StagingClean
  <2>4. EntryCurrent'
    BY DEF InstalledType, EntryCurrent
  <2>5. CatalogCurrent'
    BY DEF InstalledType, CatalogCurrent
  <2> QED BY <2>1, <2>2, <2>3, <2>4, <2>5
<1>8. ASSUME NEW i \in I!Installs, I!Place(i) PROVE InstalledInv'
  <2> USE <1>8 DEF I!Place, I!Goes, I!Discarded, I!Gone
  <2>a. dir' \in [I!Dirs -> [of : {0} \cup I!Installs, has : SUBSET I!Parts]]
    BY DEF InstalledType
  <2>b. \/ dir[I!Home].has = {} /\ i \in own /\ I!Load /\ unlisted' = TRUE /\ UNCHANGED catalog
        \/ noticed' = FALSE /\ UNCHANGED <<entry, catalog, unlisted>>
    BY DEF I!Elsewhere
  <2>1. InstalledType'
    <3>1. entry' \in [dir : {0} \cup I!Dirs, of : {0} \cup I!Installs] /\ catalog' \in BOOLEAN
      BY <2>a, <2>b, LoadFinds DEF InstalledType
    <3> QED BY <2>a, <3>1 DEF InstalledType
  <2>2. StagingClean'
    BY DEF InstalledType, StagingClean
  <2>3. HomeWhole'
    BY DEF InstalledType, HomeWhole, StagingClean
  <2>4. EntryCurrent'
    <3>1. CASE I!Load
      BY <2>a, <3>1, LoadFinds
    <3>2. CASE noticed' = FALSE
      BY <3>2 DEF EntryCurrent
    <3> QED BY <2>b, <3>1, <3>2
  <2>5. CatalogCurrent'
    BY <2>b DEF CatalogCurrent
  <2> QED BY <2>1, <2>2, <2>3, <2>4, <2>5
<1>9. ASSUME NEW i \in I!Installs, I!Aborts(i) PROVE InstalledInv'
  <2> USE <1>9 DEF I!Aborts, I!Goes, I!Elsewhere
  <2>1. InstalledType'
    BY DEF InstalledType
  <2>2. StagingClean'
    BY DEF InstalledType, StagingClean
  <2>3. HomeWhole'
    BY DEF InstalledType, HomeWhole, StagingClean
  <2>4. EntryCurrent'
    BY DEF InstalledType, EntryCurrent
  <2>5. CatalogCurrent'
    BY DEF InstalledType, CatalogCurrent
  <2> QED BY <2>1, <2>2, <2>3, <2>4, <2>5
<1>10. ASSUME I!Restart PROVE InstalledInv'
  <2> USE <1>10 DEF I!Restart
  <2>a. dir' \in [I!Dirs -> [of : {0} \cup I!Installs, has : SUBSET I!Parts]]
    BY DEF InstalledType
  <2>1. InstalledType'
    BY <2>a, LoadFinds, ListedCurrent DEF InstalledType
  <2>2. StagingClean'
    BY DEF InstalledType, StagingClean
  <2>3. HomeWhole'
    BY DEF InstalledType, HomeWhole
  <2>4. EntryCurrent'
    BY <2>a, LoadFinds
  <2>5. CatalogCurrent'
    BY ListedCurrent
  <2> QED BY <2>1, <2>2, <2>3, <2>4, <2>5
<1> QED BY <1>1, <1>2, <1>3, <1>4, <1>5, <1>6, <1>7, <1>8, <1>9, <1>10 DEF I!Next

(* The directory is whole, what is served is what is installed, and the    *)
(* model is told of it.                                                    *)
LEMMA InstalledIsWhole == InstalledInv => I!InstalledWhole
<1> SUFFICES ASSUME InstalledInv, ~torn PROVE I!InstalledWhole
  BY DEF I!InstalledWhole
<1> USE SkillDirs DEF InstalledInv
<1>1. dir[I!Home].has \in {{}, I!Parts}
  BY DEF HomeWhole, I!Gone
<1>2. ASSUME noticed, I!Present = {}
      PROVE  /\ I!Served = dir[I!Home].of
             /\ (entry.dir # 0) = (dir[I!Home].has # {})
  <2>1. \A i \in I!Installs : "manifest" \notin dir[i].has
    BY <1>2 DEF I!Present, StagingClean, I!Gone
  <2>2. CASE entry.dir \in I!Dirs /\ "manifest" \in dir[entry.dir].has
    BY <2>1, <2>2 DEF I!Served
  <2>3. CASE entry = I!NoEntry /\ "manifest" \notin dir[I!Home].has
    <3>1. dir[I!Home] = I!Gone
      BY <2>3 DEF HomeWhole, I!Parts
    <3> QED BY <2>3, <3>1 DEF I!Served, I!NoEntry, I!Gone
  <2> QED BY <1>2, <2>2, <2>3 DEF EntryCurrent
<1> QED BY <1>1, <1>2 DEF I!InstalledWhole, CatalogCurrent

-----------------------------------------------------------------------------
(* The conversation's own files, and its ledger.                           *)

Spoken == [id : Nat, body : C!Bodies, tells : SUBSET Nat]

(* What has no number is text, a number stands for one result, and the     *)
(* results r are previews wherever they occur.                             *)
ConvSound(c, r, m) ==
    /\ \A i \in DOMAIN c : /\ c[i].id \in 0..m
                           /\ c[i].id = 0 => c[i].body = "text"
                           /\ c[i].id \in r => c[i].body = "preview"
    /\ \A i, j \in DOMAIN c : c[i].id = c[j].id => c[i].body = c[j].body

PreviewsIn(c, there) == \A i \in DOMAIN c : c[i].body = "preview" => c[i].id \in there

(* All of d is from c, but for texts.                                      *)
Drawn(d, c) ==
    \A i \in DOMAIN d : \/ d[i].id = 0 /\ d[i].body = "text"
                        \/ \E j \in DOMAIN c : d[i] = c[j]

(* The parts of a conversation are as good as the whole.                   *)
LEMMA DrawnSound ==
    ASSUME NEW c, NEW d, NEW r, NEW m \in Nat, NEW there, 0 \notin r,
           ConvSound(c, r, m), Drawn(d, c)
    PROVE  /\ ConvSound(d, r, m)
           /\ PreviewsIn(c, there) => PreviewsIn(d, there)
<1>1. ASSUME NEW i \in DOMAIN d
      PROVE  /\ d[i].id \in 0..m
             /\ d[i].id = 0 => d[i].body = "text"
             /\ d[i].id \in r => d[i].body = "preview"
  <2>1. CASE d[i].id = 0 /\ d[i].body = "text"
    BY <2>1
  <2>2. CASE \E j \in DOMAIN c : d[i] = c[j]
    BY <2>2 DEF ConvSound
  <2> QED BY <2>1, <2>2 DEF Drawn
<1>2. ASSUME NEW i \in DOMAIN d, NEW j \in DOMAIN d, d[i].id = d[j].id
      PROVE  d[i].body = d[j].body
  <2>1. CASE d[i].id = 0
    <3>1. d[i].body = "text"
      BY <1>1, <2>1
    <3>2. d[j].id = 0
      BY <1>2, <2>1
    <3>3. d[j].body = "text"
      BY <1>1, <3>2
    <3> QED BY <3>1, <3>3
  <2>2. CASE d[i].id # 0
    <3>1. PICK k \in DOMAIN c : d[i] = c[k]
      BY <2>2 DEF Drawn
    <3>2. PICK l \in DOMAIN c : d[j] = c[l]
      BY <1>2, <2>2 DEF Drawn
    <3> QED BY <1>2, <3>1, <3>2 DEF ConvSound
  <2> QED BY <2>1, <2>2
<1>3. ASSUME PreviewsIn(c, there), NEW i \in DOMAIN d, d[i].body = "preview"
      PROVE  d[i].id \in there
  BY <1>3 DEF Drawn, PreviewsIn
<1> QED BY <1>1, <1>2, <1>3 DEF ConvSound, PreviewsIn

(* A tail is a part of its conversation.                                   *)
LEMMA TailDrawn ==
    ASSUME NEW c \in Seq(Spoken), NEW t \in C!Tails(c)
    PROVE  t \in Seq(Spoken) /\ \A i \in DOMAIN t : \E j \in DOMAIN c : t[i] = c[j]
<1>1. PICK k \in 2..Len(c) : t = SubSeq(c, k, Len(c))
  BY DEF C!Tails
<1>2. /\ t \in Seq(Spoken) /\ Len(t) = Len(c) - k + 1
      /\ \A i \in 1..(Len(c) - k + 1) : t[i] = c[k + i - 1]
  BY <1>1, SubSeqProperties
<1>3. ASSUME NEW i \in DOMAIN t PROVE \E j \in DOMAIN c : t[i] = c[j]
  <2>1. i \in 1..(Len(c) - k + 1) /\ k + i - 1 \in DOMAIN c
    BY <1>2
  <2> QED BY <1>2, <2>1
<1> QED BY <1>2, <1>3

(* The summary and its tail.                                               *)
LEMMA CompactedDrawn ==
    ASSUME NEW c \in Seq(Spoken), NEW s, s.tail \in Seq(Spoken), s.told \subseteq Nat,
           \A i \in DOMAIN s.tail : \E j \in DOMAIN c : s.tail[i] = c[j]
    PROVE  /\ C!Compacted(s) \in Seq(Spoken) /\ Drawn(C!Compacted(s), c)
           /\ s.told \subseteq C!Tells(C!Compacted(s))
           /\ PreviewsIn(C!Compacted(s), C!Referenced(s.tail))
<1> DEFINE m == C!Message(0, "text", s.told)
           d == C!Compacted(s)
<1>1. m \in Spoken /\ m.id = 0 /\ m.body = "text" /\ m.tells = s.told
  BY DEF C!Message, Spoken, C!Bodies
<1>2. s.tail \in Seq(Spoken) /\ \A i \in DOMAIN s.tail : \E j \in DOMAIN c : s.tail[i] = c[j]
  OBVIOUS
<1>3. d = <<m>> \o s.tail
  BY DEF C!Compacted
<1> HIDE DEF m, d
<1>4. /\ d \in Seq(Spoken) /\ Len(d) = 1 + Len(s.tail)
      /\ \A i \in 1..Len(d) : d[i] = IF i <= 1 THEN m ELSE s.tail[i - 1]
  BY <1>1, <1>2, <1>3, ConcatProperties
<1>e. DOMAIN d = 1..Len(d) /\ DOMAIN s.tail = 1..Len(s.tail) /\ Len(s.tail) \in Nat
  BY <1>2, <1>4, LenProperties
<1>5. ASSUME NEW i \in DOMAIN d
      PROVE  (i = 1 /\ d[i] = m) \/ (i - 1 \in DOMAIN s.tail /\ d[i] = s.tail[i - 1])
  BY <1>4, <1>e
<1>6. Drawn(d, c)
  BY <1>1, <1>2, <1>5 DEF Drawn
<1>7. 1 \in DOMAIN d /\ d[1] = m
  BY <1>4, <1>e
<1>8. s.told \subseteq C!Tells(d)
  BY <1>1, <1>7 DEF C!Tells
<1>9. PreviewsIn(d, C!Referenced(s.tail))
  BY <1>1, <1>5 DEF PreviewsIn, C!Referenced
<1> QED BY <1>4, <1>6, <1>8, <1>9 DEF d

(* apply_tool_result_budget: messages stay as they are but for the results *)
(* that become previews, which are then previews everywhere.               *)
LEMMA BudgetedSound ==
    ASSUME NEW c \in Seq(Spoken), NEW there, replaced \subseteq 1..made, made \in Nat,
           ConvSound(c, replaced, made), PreviewsIn(c, there)
    PROVE  /\ C!Budgeted(c) \in Seq(Spoken) /\ C!Tells(C!Budgeted(c)) = C!Tells(c)
           /\ replaced \cup C!TooLarge(c) \cup C!Referenced(c) \subseteq 1..made
           /\ ConvSound(C!Budgeted(c), replaced \cup C!TooLarge(c) \cup C!Referenced(c), made)
           /\ PreviewsIn(C!Budgeted(c), there \cup C!TooLarge(c))
           /\ \A i \in DOMAIN C!Budgeted(c) :
                 C!Budgeted(c)[i].body = "large" =>
                    C!Budgeted(c)[i].id \in judged \cup ({c[j].id : j \in DOMAIN c} \ {0})
<1> DEFINE b == C!Budgeted(c)
           large == C!TooLarge(c)
           named == C!Referenced(c)
           turned(i) == c[i].id # 0 /\ c[i].id \in replaced \cup large
<1>1. \A i \in DOMAIN c : c[i] \in Spoken
  BY ElementOfSeq, LenProperties
<1>2. DOMAIN b = DOMAIN c /\ \A i \in DOMAIN c :
        b[i] = IF turned(i) THEN [c[i] EXCEPT !.body = "preview"] ELSE c[i]
  BY DEF C!Budgeted
<1>5. \A x \in large : \E i \in DOMAIN c : x = c[i].id /\ c[i].body = "large"
  BY DEF C!TooLarge
<1>6. \A x \in named : \E i \in DOMAIN c : x = c[i].id /\ c[i].body = "preview"
  BY DEF C!Referenced
<1>7. ASSUME NEW i \in DOMAIN c
      PROVE  /\ b[i] \in Spoken /\ b[i].id = c[i].id /\ b[i].tells = c[i].tells
             /\ b[i].body = IF turned(i) THEN "preview" ELSE c[i].body
  BY <1>1, <1>2 DEF Spoken, C!Bodies
<1>8. b \in Seq(Spoken)
  <2>1. DOMAIN b = 1..Len(c) /\ Len(c) \in Nat
    BY <1>2, LenProperties
  <2>2. b = [i \in 1..Len(c) |-> b[i]]
    BY <2>1 DEF C!Budgeted
  <2>3. \A i \in 1..Len(c) : b[i] \in Spoken
    BY <1>7, LenProperties
  <2> HIDE DEF b
  <2> QED BY <2>1, <2>2, <2>3
<1> HIDE DEF b, large, named
<1>9. C!Tells(b) = C!Tells(c)
  BY <1>2, <1>7 DEF C!Tells
<1>10. replaced \cup large \cup named \subseteq 1..made
  <2>1. \A i \in DOMAIN c : c[i].body # "text" => c[i].id \in 1..made
    BY DEF ConvSound
  <2>2. large \subseteq 1..made
    BY <1>5, <2>1
  <2>3. named \subseteq 1..made
    BY <1>6, <2>1
  <2> QED BY <2>2, <2>3
<1>11. ASSUME NEW i \in DOMAIN c, c[i].id \in replaced \cup large \cup named
       PROVE  b[i].body = "preview"
  <2>1. CASE c[i].id \in replaced \cup large
    BY <1>7, <1>10, <2>1
  <2>2. CASE c[i].id \in named
    <3>1. c[i].body = "preview"
      BY <1>6, <2>2 DEF ConvSound
    <3> QED BY <1>7, <3>1
  <2> QED BY <1>11, <2>1, <2>2
<1>12. ConvSound(b, replaced \cup large \cup named, made)
  <2>1. ASSUME NEW i \in DOMAIN b
        PROVE  /\ b[i].id \in 0..made
               /\ b[i].id = 0 => b[i].body = "text"
               /\ b[i].id \in replaced \cup large \cup named => b[i].body = "preview"
    <3>1. i \in DOMAIN c /\ c[i].id \in 0..made /\ (c[i].id = 0 => c[i].body = "text")
      BY <1>2 DEF ConvSound
    <3> QED BY <1>7, <1>11, <3>1
  <2>2. ASSUME NEW i \in DOMAIN b, NEW j \in DOMAIN b, b[i].id = b[j].id
        PROVE  b[i].body = b[j].body
    <3>1. i \in DOMAIN c /\ j \in DOMAIN c /\ c[i].id = c[j].id
      BY <1>2, <1>7, <2>2
    <3>2. c[i].body = c[j].body
      BY <3>1 DEF ConvSound
    <3> QED BY <1>7, <3>1, <3>2
  <2> QED BY <2>1, <2>2 DEF ConvSound
<1>13. PreviewsIn(b, there \cup large)
  <2>1. ASSUME NEW i \in DOMAIN b, b[i].body = "preview" PROVE b[i].id \in there \cup large
    <3>1. i \in DOMAIN c /\ b[i].id = c[i].id
      BY <1>2, <1>7
    <3>2. CASE c[i].body = "preview"
      BY <3>1, <3>2 DEF PreviewsIn
    <3>3. CASE c[i].body # "preview"
      <4>1. c[i].id \notin replaced
        BY <3>1, <3>3 DEF ConvSound
      <4>2. turned(i)
        BY <1>7, <2>1, <3>1, <3>3
      <4> QED BY <3>1, <4>1, <4>2
    <3> QED BY <3>2, <3>3
  <2> QED BY <2>1 DEF PreviewsIn
<1>14. ASSUME NEW i \in DOMAIN b, b[i].body = "large"
       PROVE  b[i].id \in judged \cup ({c[j].id : j \in DOMAIN c} \ {0})
  <2>1. i \in DOMAIN c /\ b[i].id = c[i].id
    BY <1>2, <1>7
  <2>2. b[i].id # 0
    BY <1>12, <1>14 DEF ConvSound
  <2> QED BY <2>1, <2>2
<1> QED BY <1>8, <1>9, <1>10, <1>12, <1>13, <1>14 DEF b, large, named

ContextType ==
    /\ conv \in Seq(Spoken) /\ made \in Nat /\ replaced \subseteq 1..made
    /\ ledger \in Nat /\ injected \in Nat

(* A compaction that has met no other actor than skills waits for a        *)
(* summary before a tail of what is still there, and of the ledger as it   *)
(* was.                                                                    *)
Pending(s) ==
    /\ s.tail \in Seq(Spoken) /\ \A i \in DOMAIN s.tail : \E j \in DOMAIN conv : s.tail[i] = conv[j]
    /\ s.upTo \in 0..ledger /\ s.told \subseteq 1..s.upTo

SummariesPending ==
    /\ manual # C!NoSummary => phase = "idle" /\ Pending(manual)
    /\ phase = "summing" =>
          Pending(auto) /\ \A i \in DOMAIN conv : conv[i].body = "large" => conv[i].id \in judged

ContextRest ==
    /\ ContextType /\ ConvSound(conv, replaced, made) /\ PreviewsIn(conv, spills)
    /\ C!LedgerTold /\ SummariesPending

ContextInv == overlapped \/ ContextRest

(* A conversation is empty at the start.                                   *)
LEMMA ContextStart == C!Init => ContextInv
<1> SUFFICES ASSUME C!Init PROVE ContextRest
  BY DEF ContextInv
<1> USE DEF C!Init
<1>1. ContextType
  <2>1. <<>> \in Seq(Spoken)
    OBVIOUS
  <2>2. 0 \in Nat
    OBVIOUS
  <2> QED BY <2>1, <2>2 DEF ContextType
<1>2. ConvSound(conv, replaced, made) /\ PreviewsIn(conv, spills)
  BY DEF ConvSound, PreviewsIn
<1>3. C!LedgerTold
  BY DEF C!LedgerTold
<1>4. SummariesPending
  BY DEF SummariesPending
<1> QED BY <1>1, <1>2, <1>3, <1>4 DEF ContextRest

(* A rendering tells of nothing but the ledger.                            *)
LEMMA RenderedType == ASSUME ledger \in Nat, NEW r \in C!Renderings(ledger) PROVE r \subseteq 1..ledger
BY DEF C!Renderings, C!kSubset

(* A compaction begins with a tail of what is there.                       *)
LEMMA BegunPending ==
    ASSUME NEW c \in Seq(Spoken), ledger \in Nat, NEW s \in C!Begun(c)
    PROVE  /\ s.tail \in Seq(Spoken) /\ \A i \in DOMAIN s.tail : \E j \in DOMAIN c : s.tail[i] = c[j]
           /\ s.upTo = ledger /\ s.told \subseteq 1..ledger
<1>1. PICK tail \in C!Tails(c) : \E r \in C!Renderings(ledger) :
        s = [tail |-> tail, upTo |-> ledger, told |-> r]
  BY DEF C!Begun
<1>2. PICK r \in C!Renderings(ledger) : s = [tail |-> tail, upTo |-> ledger, told |-> r]
  BY <1>1
<1>3. s.tail = tail /\ s.upTo = ledger /\ s.told = r
  BY <1>2
<1> QED BY <1>3, TailDrawn, RenderedType

(* A text without a number changes nothing of the rest.                    *)
LEMMA TextAdded ==
    ASSUME ContextRest, NEW d \in {conv, Append(conv, C!Message(0, "text", {}))}
    PROVE  /\ d \in Seq(Spoken) /\ ConvSound(d, replaced, made) /\ PreviewsIn(d, spills)
           /\ C!Tells(conv) \subseteq C!Tells(d)
           /\ \A j \in DOMAIN conv : j \in DOMAIN d /\ d[j] = conv[j]
           /\ \A i \in DOMAIN d : d[i].body = "large" => \E j \in DOMAIN conv : d[i] = conv[j]
<1> USE DEF ContextRest, ContextType
<1> DEFINE m == C!Message(0, "text", {})
<1>1. CASE d = conv
  BY <1>1
<1>2. CASE d = Append(conv, m)
  <2>1. m \in Spoken /\ m.id = 0 /\ m.body = "text"
    <3>1. {} \in SUBSET Nat
      OBVIOUS
    <3>2. m = [id |-> 0, body |-> "text", tells |-> {}]
      BY DEF C!Message
    <3> HIDE DEF m
    <3> QED BY <3>1, <3>2 DEF Spoken, C!Bodies
  <2> HIDE DEF m
  <2>2. /\ d \in Seq(Spoken) /\ Len(conv) \in Nat
        /\ DOMAIN conv = 1..Len(conv) /\ DOMAIN d = 1..(Len(conv) + 1)
        /\ \A i \in 1..Len(conv) : d[i] = conv[i]
        /\ d[Len(conv) + 1] = m
    BY <1>2, <2>1, AppendProperties, LenProperties
  <2>3. \A i \in DOMAIN d : i = Len(conv) + 1 \/ i \in DOMAIN conv
    BY <2>2
  <2>4. Drawn(d, conv)
    BY <2>1, <2>2, <2>3 DEF Drawn
  <2>5. 0 \notin replaced
    OBVIOUS
  <2>6. ConvSound(d, replaced, made) /\ PreviewsIn(d, spills)
    BY <2>4, <2>5, DrawnSound
  <2>7. \A j \in DOMAIN conv : j \in DOMAIN d /\ d[j] = conv[j]
    BY <2>2
  <2>8. C!Tells(conv) \subseteq C!Tells(d)
    BY <2>7 DEF C!Tells
  <2>9. \A i \in DOMAIN d : d[i].body = "large" => \E j \in DOMAIN conv : d[i] = conv[j]
    BY <2>1, <2>2, <2>3
  <2> QED BY <2>2, <2>6, <2>7, <2>8, <2>9
<1> QED BY <1>1, <1>2 DEF m

(* The ledger's news are in the reminder, but for those noted as dropped.  *)
LEMMA RemindedTells ==
    ASSUME ContextRest, NEW r \in C!Tellings
    PROVE  /\ C!Reminded(conv, r) \in Seq(Spoken) /\ Drawn(C!Reminded(conv, r), conv)
           /\ 1..ledger \subseteq C!Tells(C!Reminded(conv, r))
                                  \cup ((untold \cup ((injected + 1)..ledger)) \ r)
<1> USE DEF ContextRest, ContextType
<1> DEFINE m == C!Message(0, "text", r)
           c == C!Reminded(conv, r)
<1>1. r \subseteq 1..ledger
  BY RenderedType DEF C!Tellings
<1>2. m \in Spoken /\ m.id = 0 /\ m.body = "text" /\ m.tells = r
  <2>1. r \in SUBSET Nat
    BY <1>1
  <2> QED BY <2>1 DEF C!Message, Spoken, C!Bodies
<1>3. 1..injected \subseteq C!Tells(conv) \cup untold
  BY DEF C!LedgerTold
<1>4. CASE ledger > injected
  <2>1. c = Append(conv, m)
    BY <1>4 DEF C!Reminded
  <2> HIDE DEF m, c
  <2>2. /\ c \in Seq(Spoken) /\ Len(c) = Len(conv) + 1 /\ Len(conv) \in Nat
        /\ DOMAIN conv = 1..Len(conv) /\ DOMAIN c = 1..(Len(conv) + 1)
        /\ \A i \in 1..Len(conv) : c[i] = conv[i]
        /\ c[Len(conv) + 1] = m
    BY <1>2, <2>1, AppendProperties, LenProperties
  <2>3. Drawn(c, conv)
    <3>1. \A i \in DOMAIN c : i = Len(conv) + 1 \/ i \in DOMAIN conv
      BY <2>2
    <3> QED BY <1>2, <2>2, <3>1 DEF Drawn
  <2>4. C!Tells(conv) \subseteq C!Tells(c)
    BY <2>2 DEF C!Tells
  <2>5. r \subseteq C!Tells(c)
    <3>1. Len(conv) + 1 \in DOMAIN c
      BY <2>2
    <3> QED BY <1>2, <2>2, <3>1 DEF C!Tells
  <2>6. 1..ledger \subseteq (1..injected) \cup ((injected + 1)..ledger)
    OBVIOUS
  <2> QED BY <1>3, <2>2, <2>3, <2>4, <2>5, <2>6 DEF c
<1>5. CASE ~(ledger > injected)
  <2>1. c = conv
    BY <1>5 DEF C!Reminded
  <2>2. 1..ledger \subseteq 1..injected
    BY <1>5
  <2>3. ledger = injected => r = {}
    BY DEF C!Tellings
  <2>4. ledger < injected => r = {}
    BY <1>5 DEF C!Tellings
  <2> QED BY <1>3, <1>5, <2>1, <2>2, <2>3, <2>4 DEF Drawn
<1> QED BY <1>4, <1>5

(* Compaction, whoever asked for it: the summary tells the ledger but for  *)
(* what is noted, and the files its tail names stay.                       *)
LEMMA SummaryKeeps ==
    ASSUME ContextRest, NEW s, Pending(s),
           NEW c, \/ c = C!Compacted(s)
                  \/ c = C!Budgeted(C!Compacted(s)) /\ C!TooLarge(C!Compacted(s)) = {},
           C!Rewritten(s, c)
    PROVE  /\ C!Compacted(s) \in Seq(Spoken) /\ ConvSound(C!Compacted(s), replaced, made)
           /\ PreviewsIn(C!Compacted(s), spills')
           /\ conv' \in Seq(Spoken) /\ PreviewsIn(conv, spills)'
           /\ 1..ledger \subseteq C!Tells(conv') \cup untold' /\ injected' = ledger
<1> USE DEF ContextRest, ContextType
<1> DEFINE d == C!Compacted(s)
<1>1. /\ s.tail \in Seq(Spoken) /\ \A i \in DOMAIN s.tail : \E j \in DOMAIN conv : s.tail[i] = conv[j]
      /\ s.upTo \in 0..ledger /\ s.told \subseteq Nat
  BY DEF Pending
<1>2. /\ d \in Seq(Spoken) /\ Drawn(d, conv)
      /\ s.told \subseteq C!Tells(d) /\ PreviewsIn(d, C!Referenced(s.tail))
  BY <1>1, CompactedDrawn
<1>3. ConvSound(d, replaced, made) /\ PreviewsIn(d, spills)
  <2>1. 0 \notin replaced
    OBVIOUS
  <2> QED BY <1>2, <2>1, DrawnSound
<1>4. conv' = c /\ injected' = ledger /\ spills' = spills \cap C!Referenced(s.tail)
  BY DEF C!Rewritten
<1>8. 1..ledger \subseteq s.told \cup untold'
  <2>1. 1..ledger = (1..s.upTo) \cup ((s.upTo + 1)..ledger)
    BY <1>1
  <2> QED BY <2>1 DEF C!Rewritten, C!LeftOut, C!Meanwhile
<1>5. PreviewsIn(d, spills')
  BY <1>2, <1>3, <1>4 DEF PreviewsIn
<1> HIDE DEF d
<1>6. CASE c = d
  <2>1. PreviewsIn(conv, spills)'
    BY <1>4, <1>5, <1>6 DEF PreviewsIn
  <2> QED BY <1>2, <1>3, <1>4, <1>5, <1>6, <1>8, <2>1 DEF d
<1>7. CASE c = C!Budgeted(d) /\ C!TooLarge(d) = {}
  <2>a. /\ c \in Seq(Spoken) /\ C!Tells(c) = C!Tells(d)
        /\ PreviewsIn(c, spills' \cup C!TooLarge(d))
    BY <1>2, <1>3, <1>5, <1>7, BudgetedSound
  <2>1. /\ c \in Seq(Spoken) /\ C!Tells(c) = C!Tells(d)
        /\ PreviewsIn(c, spills')
    BY <1>7, <2>a DEF PreviewsIn
  <2>2. PreviewsIn(conv, spills)'
    BY <1>4, <2>1 DEF PreviewsIn
  <2> QED BY <1>2, <1>3, <1>4, <1>5, <1>8, <2>1, <2>2 DEF d
<1> QED BY <1>6, <1>7 DEF d

(* A message that is added has a number of its own.                        *)
LEMMA AppendedSound ==
    ASSUME NEW c \in Seq(Spoken), NEW d, NEW m, NEW r, NEW k \in Nat, NEW there, NEW more,
           r \subseteq 1..k, ConvSound(c, r, k), PreviewsIn(c, there), there \subseteq more,
           Len(c) \in Nat, DOMAIN c = 1..Len(c), DOMAIN d = 1..(Len(c) + 1),
           \A i \in 1..Len(c) : d[i] = c[i], d[Len(c) + 1] = m, m.id = k + 1,
           m.body = "preview" => m.id \in more
    PROVE  ConvSound(d, r, k + 1) /\ PreviewsIn(d, more)
<1>1. ASSUME NEW i \in DOMAIN d
      PROVE  (i = Len(c) + 1 /\ d[i] = m) \/ (i \in DOMAIN c /\ d[i] = c[i])
  OBVIOUS
<1>2. \A i \in DOMAIN c : /\ c[i].id \in 0..k
                          /\ c[i].id = 0 => c[i].body = "text"
                          /\ c[i].id \in r => c[i].body = "preview"
  BY DEF ConvSound
<1>3. ASSUME NEW i \in DOMAIN d
      PROVE  /\ d[i].id \in 0..(k + 1)
             /\ d[i].id = 0 => d[i].body = "text"
             /\ d[i].id \in r => d[i].body = "preview"
             /\ d[i].body = "preview" => d[i].id \in more
  <2>1. CASE d[i] = m
    BY <2>1
  <2>2. CASE i \in DOMAIN c /\ d[i] = c[i]
    BY <1>2, <2>2 DEF PreviewsIn
  <2> QED BY <1>1, <2>1, <2>2
<1>4. ASSUME NEW i \in DOMAIN d, NEW j \in DOMAIN d, d[i].id = d[j].id
      PROVE  d[i].body = d[j].body
  <2>1. CASE i \in DOMAIN c /\ d[i] = c[i] /\ j \in DOMAIN c /\ d[j] = c[j]
    BY <1>4, <2>1 DEF ConvSound
  <2>2. CASE d[i] = m /\ d[j] = m
    BY <2>2
  <2>3. CASE i \in DOMAIN c /\ d[i] = c[i] /\ d[j] = m
    BY <1>2, <1>4, <2>3
  <2>4. CASE d[i] = m /\ j \in DOMAIN c /\ d[j] = c[j]
    BY <1>2, <1>4, <2>4
  <2> QED BY <1>1, <2>1, <2>2, <2>3, <2>4
<1> QED BY <1>3, <1>4 DEF ConvSound, PreviewsIn

(* Nothing told is lost by adding to the conversation.                     *)
LEMMA AppendedTells ==
    ASSUME NEW c, NEW d, NEW n \in Nat, DOMAIN c = 1..n, DOMAIN d = 1..(n + 1),
           \A i \in 1..n : d[i] = c[i]
    PROVE  C!Tells(c) \subseteq C!Tells(d)
BY DEF C!Tells

(* Every step of the run and every command keeps the invariant.            *)
LEMMA ContextStep == ASSUME ContextInv, C!Next PROVE ContextInv'
<1>1. ASSUME overlapped PROVE ContextInv'
  <2>1. overlapped'
    BY <1>1 DEF C!Next, C!StartRun, C!SkillActivated, C!Top, C!Summarized, C!EndRun, C!Result, C!Compact,
                C!ManualSummarized, C!Rewind, C!SwitchSession
  <2> QED BY <2>1 DEF ContextInv
<1>2. ASSUME ~overlapped, ~overlapped' PROVE ContextRest'
  <2> USE DEF ContextRest, ContextType
  <2>a. ContextRest
    BY <1>2 DEF ContextInv
  <2>b. 0 \notin replaced
    BY <2>a
  <2>1. CASE C!StartRun
    <3>1. /\ manual = C!NoSummary /\ phase' = "run" /\ made' = made + 1
          /\ conv' \in {conv, Append(conv, C!Message(0, "text", {}))}
          /\ UNCHANGED <<replaced, spills, injected, untold>>
      BY <1>2, <2>1 DEF C!StartRun
    <3>2. ledger' \in Nat
      BY <2>a, <2>1 DEF C!StartRun, C!Committed
    <3>3. /\ conv' \in Seq(Spoken) /\ ConvSound(conv', replaced, made) /\ PreviewsIn(conv', spills)
          /\ C!Tells(conv) \subseteq C!Tells(conv')
      BY <2>a, <3>1, TextAdded
    <3>4. ContextType'
      BY <2>a, <3>1, <3>2, <3>3
    <3>5. ConvSound(conv, replaced, made)' /\ PreviewsIn(conv, spills)'
      <4>1. 0..made \subseteq 0..made'
        BY <2>a, <3>1
      <4> QED BY <3>1, <3>3, <4>1 DEF ConvSound, PreviewsIn
    <3>6. C!LedgerTold'
      BY <2>a, <3>1, <3>3 DEF C!LedgerTold, C!Tells
    <3>7. SummariesPending'
      BY <2>1, <3>1 DEF SummariesPending, C!StartRun
    <3> QED BY <3>4, <3>5, <3>6, <3>7
  <2>s. CASE C!SkillActivated
    <3>1. /\ made' = made + 1 /\ ledger' = ledger + 1
          /\ conv' \in {conv, Append(conv, C!Message(0, "text", {}))}
          /\ UNCHANGED <<replaced, judged, spills, injected, untold, phase, auto, manual>>
      BY <2>s DEF C!SkillActivated, C!Committed
    <3>2. /\ conv' \in Seq(Spoken) /\ ConvSound(conv', replaced, made) /\ PreviewsIn(conv', spills)
          /\ C!Tells(conv) \subseteq C!Tells(conv')
          /\ \A j \in DOMAIN conv : j \in DOMAIN conv' /\ conv'[j] = conv[j]
          /\ \A i \in DOMAIN conv' : conv'[i].body = "large" => \E j \in DOMAIN conv : conv'[i] = conv[j]
      BY <2>a, <3>1, TextAdded
    <3>3. ContextType'
      BY <2>a, <3>1, <3>2
    <3>4. ConvSound(conv, replaced, made)' /\ PreviewsIn(conv, spills)'
      <4>1. 0..made \subseteq 0..made'
        BY <2>a, <3>1
      <4> QED BY <3>1, <3>2, <4>1 DEF ConvSound, PreviewsIn
    <3>5. C!LedgerTold'
      BY <2>a, <3>1, <3>2 DEF C!LedgerTold, C!Tells
    <3>6. ASSUME NEW s, Pending(s) PROVE Pending(s)'
      <4>1. 0..ledger \subseteq 0..ledger'
        BY <2>a, <3>1
      <4>2. \A i \in DOMAIN s.tail : \E j \in DOMAIN conv' : s.tail[i] = conv'[j]
        BY <3>2, <3>6 DEF Pending
      <4> QED BY <3>6, <4>1, <4>2 DEF Pending
    <3>7. SummariesPending'
      <4>1. manual # C!NoSummary => phase = "idle" /\ Pending(manual)
        BY <2>a DEF SummariesPending
      <4>2. phase = "summing" =>
              Pending(auto) /\ \A i \in DOMAIN conv : conv[i].body = "large" => conv[i].id \in judged
        BY <2>a DEF SummariesPending
      <4>3. Pending(manual) => Pending(manual)'
        BY <3>1, <3>6 DEF Pending
      <4>4. Pending(auto) => Pending(auto)'
        BY <3>1, <3>6 DEF Pending
      <4>5. phase' = "summing" => \A i \in DOMAIN conv' : conv'[i].body = "large" => conv'[i].id \in judged'
        BY <3>1, <3>2, <4>2
      <4> QED BY <3>1, <4>1, <4>2, <4>3, <4>4, <4>5 DEF SummariesPending
    <3> QED BY <3>3, <3>4, <3>5, <3>7
  <2>2. ASSUME NEW b \in {"small", "large", "preview"}, C!Result(b) PROVE ContextRest'
    <3> DEFINE m == C!Message(made + 1, b, {})
    <3>1. manual = C!NoSummary /\ phase' = "run" /\ made' = made + 1
      BY <2>a, <2>2 DEF C!Result, SummariesPending
    <3>2. conv' = Append(conv, m) /\ m \in Spoken /\ m.id = made + 1 /\ m.body = b
      BY <2>a, <2>2 DEF C!Result, C!Message, Spoken, C!Bodies
    <3>3. ledger' \in Nat /\ ledger' >= ledger
      BY <2>a, <2>2 DEF C!Result, C!Committed
    <3> HIDE DEF m
    <3>4. /\ conv' \in Seq(Spoken) /\ Len(conv) \in Nat
          /\ DOMAIN conv = 1..Len(conv) /\ DOMAIN conv' = 1..(Len(conv) + 1)
          /\ \A i \in 1..Len(conv) : conv'[i] = conv[i]
          /\ conv'[Len(conv) + 1] = m
      BY <2>a, <3>2, AppendProperties, LenProperties
    <3>5. ContextType'
      BY <2>a, <2>2, <3>3, <3>4 DEF C!Result
    <3>6. ConvSound(conv, replaced, made)' /\ PreviewsIn(conv, spills)'
      <4>1. /\ UNCHANGED replaced /\ spills \subseteq spills'
            /\ m.body = "preview" => m.id \in spills'
        BY <2>2, <3>1, <3>2 DEF C!Result
      <4>3. ConvSound(conv', replaced, made + 1) /\ PreviewsIn(conv', spills')
        BY <2>a, <3>2, <3>4, <4>1, AppendedSound
      <4> QED BY <3>1, <4>1, <4>3 DEF ConvSound, PreviewsIn
    <3>7. C!LedgerTold'
      <4>1. UNCHANGED <<injected, untold>>
        BY <2>2 DEF C!Result
      <4>2. C!Tells(conv) \subseteq C!Tells(conv')
        BY <3>4, AppendedTells
      <4> QED BY <2>a, <4>1, <4>2 DEF C!LedgerTold, C!Tells
    <3>8. SummariesPending'
      BY <2>2, <3>1 DEF SummariesPending, C!Result
    <3> QED BY <3>5, <3>6, <3>7, <3>8
  <2>3. CASE C!Top
    <3>p. PICK news \in C!Tellings :
            /\ conv' = C!Budgeted(C!Reminded(conv, news)) /\ C!Decided(C!Reminded(conv, news))
            /\ spills' = spills \cup C!TooLarge(C!Reminded(conv, news))
            /\ untold' = (untold \cup ((injected + 1)..ledger)) \ news
      BY <2>3 DEF C!Top
    <3> DEFINE c == C!Reminded(conv, news)
               r == replaced \cup C!TooLarge(c) \cup C!Referenced(c)
    <3>1. /\ c \in Seq(Spoken) /\ Drawn(c, conv)
          /\ 1..ledger \subseteq C!Tells(c) \cup ((untold \cup ((injected + 1)..ledger)) \ news)
      BY <2>a, RemindedTells
    <3>2. ConvSound(c, replaced, made) /\ PreviewsIn(c, spills)
      BY <2>a, <2>b, <3>1, DrawnSound
    <3>3. /\ conv' = C!Budgeted(c) /\ replaced' = r
          /\ judged' = judged \cup ({c[i].id : i \in DOMAIN c} \ {0})
          /\ spills' = spills \cup C!TooLarge(c)
          /\ untold' = (untold \cup ((injected + 1)..ledger)) \ news
          /\ injected' = ledger /\ UNCHANGED <<made, ledger, manual>>
      BY <2>3, <3>p DEF C!Top, C!Decided, C!Referenced
    <3>4. phase = "run" /\ manual' = C!NoSummary
      BY <2>a, <2>3 DEF C!Top, SummariesPending
    <3> HIDE DEF c
    <3>6. /\ conv' \in Seq(Spoken) /\ C!Tells(conv') = C!Tells(c) /\ r \subseteq 1..made
          /\ ConvSound(conv', r, made) /\ PreviewsIn(conv', spills')
          /\ \A i \in DOMAIN conv' : conv'[i].body = "large" => conv'[i].id \in judged'
      BY <2>a, <3>1, <3>2, <3>3, BudgetedSound
    <3>5. phase' = "summing" => Pending(auto)'
      <4>1. phase' = "summing" => auto' \in C!Begun(conv')
        BY <2>3, <3>4 DEF C!Top
      <4> QED BY <2>a, <3>3, <3>6, <4>1, BegunPending DEF Pending
    <3>7. ContextType'
      BY <2>a, <3>3, <3>6
    <3>8. ConvSound(conv, replaced, made)' /\ PreviewsIn(conv, spills)'
      BY <3>3, <3>6 DEF ConvSound, PreviewsIn
    <3>9. C!LedgerTold'
      <4>1. 1..ledger \subseteq C!Tells(conv') \cup untold'
        BY <3>1, <3>3, <3>6
      <4> QED BY <3>3, <4>1 DEF C!LedgerTold, C!Tells
    <3>10. SummariesPending'
      BY <3>4, <3>5, <3>6 DEF SummariesPending
    <3> QED BY <3>7, <3>8, <3>9, <3>10
  <2>4. CASE C!Summarized
    <3>1. phase = "summing" /\ phase' = "run" /\ manual' = C!NoSummary
          /\ UNCHANGED <<made, ledger>>
      BY <2>a, <2>4 DEF C!Summarized, SummariesPending
    <3>2. SummariesPending'
      BY <3>1 DEF SummariesPending
    <3>3. CASE /\ C!Rewritten(auto, C!Budgeted(C!Compacted(auto)))
               /\ C!Decided(C!Compacted(auto))
      <4> DEFINE d == C!Compacted(auto)
                 r == replaced \cup C!TooLarge(d) \cup C!Referenced(d)
      <4>1. Pending(auto) /\ \A i \in DOMAIN conv : conv[i].body = "large" => conv[i].id \in judged
        BY <2>a, <3>1 DEF SummariesPending
      <4>2. Drawn(d, conv)
        <5>1. auto.told \subseteq Nat
          BY <4>1 DEF Pending
        <5> QED BY <2>a, <4>1, <5>1, CompactedDrawn DEF Pending
      <4>3. C!TooLarge(d) = {}
        BY <4>1, <4>2 DEF Drawn, C!TooLarge
      <4>4. /\ d \in Seq(Spoken) /\ ConvSound(d, replaced, made) /\ PreviewsIn(d, spills')
            /\ conv' \in Seq(Spoken) /\ PreviewsIn(conv, spills)'
            /\ 1..ledger \subseteq C!Tells(conv') \cup untold' /\ injected' = ledger
        BY <2>a, <3>3, <4>1, <4>3, SummaryKeeps
      <4>5. conv' = C!Budgeted(d) /\ replaced' = r
        BY <3>3 DEF C!Rewritten, C!Decided, C!Referenced
      <4> HIDE DEF d
      <4>6. r \subseteq 1..made /\ ConvSound(conv', r, made)
        BY <2>a, <4>4, <4>5, BudgetedSound
      <4>7. ContextType'
        BY <2>a, <3>1, <4>4, <4>5, <4>6
      <4>8. ConvSound(conv, replaced, made)'
        BY <3>1, <4>5, <4>6 DEF ConvSound
      <4>9. C!LedgerTold'
        BY <3>1, <4>4 DEF C!LedgerTold, C!Tells
      <4> QED BY <3>2, <4>4, <4>7, <4>8, <4>9
    <3>4. CASE C!Failed /\ UNCHANGED <<replaced, judged>>
      BY <2>a, <3>1, <3>2, <3>4 DEF C!Failed, ConvSound, PreviewsIn, C!LedgerTold, C!Tells
    <3> QED BY <2>4, <3>3, <3>4 DEF C!Summarized
  <2>5. CASE C!EndRun
    <3>1. SummariesPending'
      BY <2>a, <2>5 DEF C!EndRun, SummariesPending
    <3> QED BY <2>a, <2>5, <3>1 DEF C!EndRun, ConvSound, PreviewsIn, C!LedgerTold, C!Tells
  <2>6. CASE C!Compact
    <3>1. phase = "idle"
      BY <1>2, <2>6 DEF C!Compact
    <3>2. SummariesPending'
      <4>1. manual' \in C!Begun(conv) /\ UNCHANGED <<conv, ledger, phase>>
        BY <2>6 DEF C!Compact
      <4>2. Pending(manual)'
        BY <2>a, <4>1, BegunPending DEF Pending
      <4> QED BY <3>1, <4>1, <4>2 DEF SummariesPending
    <3> QED BY <2>a, <2>6, <3>2 DEF C!Compact, ConvSound, PreviewsIn, C!LedgerTold, C!Tells
  <2>7. CASE C!ManualSummarized
    <3>1. phase' = "idle" /\ manual' = C!NoSummary /\ UNCHANGED <<made, ledger, replaced>>
      BY <2>a, <2>7 DEF C!ManualSummarized, SummariesPending
    <3>2. SummariesPending'
      BY <3>1 DEF SummariesPending
    <3>3. CASE C!Rewritten(manual, C!Compacted(manual))
      <4>1. Pending(manual)
        BY <2>a, <2>7 DEF C!ManualSummarized, SummariesPending
      <4>2. /\ ConvSound(C!Compacted(manual), replaced, made)
            /\ conv' \in Seq(Spoken) /\ PreviewsIn(conv, spills)'
            /\ 1..ledger \subseteq C!Tells(conv') \cup untold' /\ injected' = ledger
        BY <2>a, <3>3, <4>1, SummaryKeeps
      <4>3. conv' = C!Compacted(manual)
        BY <3>3 DEF C!Rewritten
      <4>4. ConvSound(conv, replaced, made)'
        BY <3>1, <4>2, <4>3 DEF ConvSound
      <4>5. C!LedgerTold'
        BY <3>1, <4>2 DEF C!LedgerTold, C!Tells
      <4> QED BY <2>a, <3>1, <3>2, <4>2, <4>4, <4>5
    <3>4. CASE C!Failed
      BY <2>a, <3>1, <3>2, <3>4 DEF C!Failed, ConvSound, PreviewsIn, C!LedgerTold, C!Tells
    <3> QED BY <2>7, <3>3, <3>4 DEF C!ManualSummarized
  <2>8. CASE C!Rewind
    <3>1. phase = "idle" /\ manual = C!NoSummary
      BY <1>2, <2>8 DEF C!Rewind
    <3>2. SummariesPending'
      BY <2>8, <3>1 DEF C!Rewind, SummariesPending
    <3>3. PICK k \in 0..(Len(conv) - 1) : conv' = SubSeq(conv, 1, k)
      BY <2>8 DEF C!Rewind
    <3>4. conv' \in Seq(Spoken) /\ Drawn(conv', conv)
      <4>1. Len(conv) \in Nat /\ DOMAIN conv = 1..Len(conv)
        BY <2>a, LenProperties
      <4>2. conv' \in Seq(Spoken) /\ Len(conv') = k /\ \A i \in 1..k : conv'[i] = conv[i]
        BY <2>a, <3>3, <4>1, SubSeqProperties
      <4>3. \A i \in DOMAIN conv' : i \in DOMAIN conv /\ conv'[i] = conv[i]
        BY <4>1, <4>2, LenProperties
      <4> QED BY <4>2, <4>3 DEF Drawn
    <3>5. ConvSound(conv', replaced, made) /\ PreviewsIn(conv', spills)
      BY <2>a, <2>b, <3>4, DrawnSound
    <3>6. ConvSound(conv, replaced, made)' /\ PreviewsIn(conv, spills)'
      BY <2>8, <3>5 DEF C!Rewind, ConvSound, PreviewsIn
    <3>7. C!LedgerTold'
      <4>1. untold' = untold \cup (C!Tells(conv) \ C!Tells(conv')) /\ UNCHANGED injected
        BY <2>8 DEF C!Rewind
      <4>2. 1..injected \subseteq C!Tells(conv') \cup untold'
        BY <2>a, <4>1 DEF C!LedgerTold
      <4> QED BY <4>1, <4>2 DEF C!LedgerTold, C!Tells
    <3>8. ContextType'
      BY <2>a, <2>8, <3>4 DEF C!Rewind
    <3> QED BY <3>2, <3>6, <3>7, <3>8
  <2>9. CASE C!SwitchSession
    <3>1. <<>> \in Seq(Spoken) /\ ledger' \in Nat /\ 0 \in Nat
      BY <2>a, <2>9 DEF C!SwitchSession
    <3>2. ContextType'
      BY <2>a, <2>9, <3>1 DEF C!SwitchSession
    <3>3. ConvSound(conv, replaced, made)' /\ PreviewsIn(conv, spills)'
      BY <2>9 DEF C!SwitchSession, ConvSound, PreviewsIn
    <3>4. C!LedgerTold' /\ SummariesPending'
      BY <2>9 DEF C!SwitchSession, C!LedgerTold, SummariesPending
    <3> QED BY <3>2, <3>3, <3>4
  <2> QED BY <2>1, <2>s, <2>2, <2>3, <2>4, <2>5, <2>6, <2>7, <2>8, <2>9 DEF C!Next
<1> QED BY <1>1, <1>2 DEF ContextInv

(* What is not looked at does not change.                                  *)
LEMMA ContextStays ==
    /\ ContextInv /\ UNCHANGED context => ContextInv'
    /\ InstalledInv /\ UNCHANGED installed => InstalledInv'
    /\ ActiveInv /\ UNCHANGED skills => ActiveInv'
<1>1. ASSUME ContextInv, UNCHANGED context PROVE ContextInv'
  <2> USE <1>1 DEF context, ContextInv, ContextRest, ContextType
  <2>1. SummariesPending => SummariesPending'
    BY DEF SummariesPending, Pending
  <2> QED BY <2>1 DEF ConvSound, PreviewsIn, C!LedgerTold, C!Tells
<1>2. ASSUME InstalledInv, UNCHANGED installed PROVE InstalledInv'
  BY <1>2 DEF installed, InstalledInv, InstalledType, StagingClean, HomeWhole, EntryCurrent,
              CatalogCurrent
<1>3. ASSUME ActiveInv, UNCHANGED skills PROVE ActiveInv'
  BY <1>3 DEF skills, ActiveInv, ActiveType, A!ActiveTold, SummaryTells, A!GrantsOwn
<1> QED BY <1>1, <1>2, <1>3

(* context/, skills/: what the conversation refers to is there, and the    *)
(* ledger, the skills that are installed and the skills that are active    *)
(* are told.                                                               *)
THEOREM ContextStaysKept == Spec => []ContextKept
<1> DEFINE Inv == ContextInv /\ InstalledInv /\ ActiveInv
<1>1. Init => Inv
  BY ContextStart, InstalledStart, ActiveStart DEF Init
<1>2. Inv /\ [Next]_<<focus, vars>> => Inv'
  BY ContextStep, InstalledStep, ActiveStep, ContextStays DEF Next, vars
<1>3. Inv => ContextKept
  <2>1. ContextInv => C!ContextKept
    BY DEF ContextInv, ContextRest, PreviewsIn, C!ContextKept, C!PreviewsReadable
  <2> QED BY <2>1, InstalledIsWhole DEF ContextKept, ActiveInv, A!SkillsKept
<1> QED BY <1>1, <1>2, <1>3, PTL DEF Spec

-----------------------------------------------------------------------------
(* The checkpoints.                                                        *)

Checkpoint == [index : Nat, version : [Paths -> Nat], before : [Paths -> Nat],
               then : Seq(Nat), moved : BOOLEAN]

HistoryType ==
    /\ content \in [Paths -> Nat] /\ writes \in Nat
    /\ was \in [Paths -> Seq(Nat)] /\ snaps \in Seq(Checkpoint)
    /\ transcript \in Seq(Nat) /\ turns \in Nat
    /\ backups \subseteq Paths \X Nat \X Nat

(* What a checkpoint refers to lies within the versions w that are         *)
(* tracked, is of the content tracked there, and has its backup in b.      *)
Refers(s, w, b) ==
    \A p \in Paths :
        /\ s.version[p] <= Len(w[p])
        /\ s.version[p] # 0 =>
              /\ s.before[p] = w[p][s.version[p]]
              /\ s.before[p] # H!Absent => <<p, s.version[p], s.before[p]>> \in b

(* ... and so has the latest version.                                      *)
LatestIn(w, b) ==
    \A p \in Paths : LET n == Len(w[p]) IN
        n # 0 /\ w[p][n] # H!Absent => <<p, n, w[p][n]>> \in b

(* An earlier checkpoint has earlier versions and, if its place is still   *)
(* the one it was made at, an earlier place.                               *)
InTurn(ss) ==
    \A i, j \in DOMAIN ss : j <= i =>
        /\ \A p \in Paths : ss[j].version[p] <= ss[i].version[p]
        /\ ~ss[j].moved => ss[j].index <= ss[i].index

Begins(c, h) == Len(c) <= Len(h) /\ \A k \in 1..Len(c) : c[k] = h[k]

Placed(s, h) == ~s.moved => s.index = Len(s.then) /\ Begins(s.then, h)

HistoryInv ==
    /\ HistoryType /\ LatestIn(was, backups) /\ InTurn(snaps)
    /\ \A i \in DOMAIN snaps : Refers(snaps[i], was, backups) /\ Placed(snaps[i], transcript)

(* There are no checkpoints at the start.                                  *)
LEMMA HistoryStart == H!Init => HistoryInv
<1> SUFFICES ASSUME H!Init PROVE HistoryInv
  OBVIOUS
<1> USE DEF H!Init
<1>1. HistoryType
  <2>1. <<>> \in Seq(Nat) /\ <<>> \in Seq(Checkpoint) /\ 0 \in Nat /\ 1 \in Nat
    OBVIOUS
  <2> QED BY <2>1 DEF HistoryType
<1>2. LatestIn(was, backups)
  BY DEF LatestIn
<1>3. InTurn(snaps) /\ DOMAIN snaps = {}
  BY DEF InTurn
<1> QED BY <1>1, <1>2, <1>3 DEF HistoryInv

(* With the invariant checkpoints are intact.                              *)
LEMMA HistoryIntact == HistoryInv => H!CheckpointsIntact
<1> SUFFICES ASSUME HistoryInv, NEW i \in DOMAIN snaps
             PROVE  LET s == snaps[i] IN
               /\ \A p \in Paths :
                   /\ s.version[p] # 0 /\ s.before[p] # H!Absent =>
                          <<p, s.version[p], s.before[p]>> \in backups
                   /\ s.version[p] = 0 /\ Len(was[p]) = 1 /\ was[p][1] # H!Absent =>
                          <<p, 1, was[p][1]>> \in backups
               /\ ~s.moved => H!IsPrefix(s.then, transcript) /\ s.index = Len(s.then)
  BY DEF H!CheckpointsIntact
<1>1. Refers(snaps[i], was, backups) /\ Placed(snaps[i], transcript) /\ LatestIn(was, backups)
  BY DEF HistoryInv
<1>2. snaps[i] \in Checkpoint /\ transcript \in Seq(Nat)
  BY ElementOfSeq, LenProperties DEF HistoryInv, HistoryType
<1>3. snaps[i].then \in Seq(Nat)
  BY <1>2 DEF Checkpoint
<1>4. ASSUME ~snaps[i].moved PROVE H!IsPrefix(snaps[i].then, transcript)
  <2> DEFINE c == snaps[i].then
  <2>1. c \in Seq(Nat) /\ Len(c) \in Nat /\ Len(c) <= Len(transcript)
        /\ \A k \in 1..Len(c) : c[k] = transcript[k]
    BY <1>1, <1>3, <1>4, LenProperties DEF Placed, Begins
  <2> HIDE DEF c
  <2>2. \A k \in 1..Len(c) : transcript[k] \in Nat /\ c[k] \in Nat
    BY <1>2, <2>1, ElementOfSeq, LenProperties
  <2>3. /\ SubSeq(c, 1, Len(c)) \in Seq(Nat) /\ SubSeq(transcript, 1, Len(c)) \in Seq(Nat)
        /\ Len(SubSeq(c, 1, Len(c))) = Len(c) /\ Len(SubSeq(transcript, 1, Len(c))) = Len(c)
        /\ \A k \in 1..Len(c) : /\ SubSeq(c, 1, Len(c))[k] = c[k]
                                /\ SubSeq(transcript, 1, Len(c))[k] = transcript[k]
    BY <2>1, <2>2, SubSeqProperties
  <2>4. SubSeq(c, 1, Len(c)) = SubSeq(transcript, 1, Len(c))
    BY <2>1, <2>3, SeqEqual
  <2> QED BY <2>1, <2>4 DEF H!IsPrefix, c
<1>5. ASSUME NEW p \in Paths, Len(was[p]) = 1, was[p][1] # H!Absent
      PROVE  <<p, 1, was[p][1]>> \in backups
  <2>1. \A n : n = Len(was[p]) /\ n # 0 /\ was[p][n] # H!Absent => <<p, n, was[p][n]>> \in backups
    BY <1>1, <1>5 DEF LatestIn
  <2>2. 1 = Len(was[p])
    BY <1>5
  <2> QED BY <1>5, <2>1, <2>2
<1> QED BY <1>1, <1>4, <1>5 DEF Refers, Placed

(* track_edit: the next version is one that no checkpoint refers to.       *)
LEMMA HistoryTrack ==
    ASSUME HistoryInv, NEW p \in Paths, H!TrackEdit(p) PROVE HistoryInv'
<1> DEFINE v == Len(was[p]) + 1
           x == content[p]
<1>a. was[p] \in Seq(Nat) /\ x \in Nat /\ Len(was[p]) \in Nat
  BY LenProperties DEF HistoryInv, HistoryType
<1>b. SubSeq(was[p], 1, v - 1) = was[p]
  BY <1>a, SubSeqFull
<1>1. was' = [was EXCEPT ![p] = Append(was[p], x)]
  BY <1>b DEF H!TrackEdit, H!NextVersion, HistoryInv, HistoryType
<1>2. backups' = IF x = H!Absent THEN backups
                 ELSE {f \in backups : <<f[1], f[2]>> # <<p, v>>} \cup {<<p, v, x>>}
  BY DEF H!TrackEdit, H!NextVersion
<1>3. UNCHANGED <<content, writes, snaps, transcript, turns>>
  BY DEF H!TrackEdit
<1> HIDE DEF x
<1>4. /\ was'[p] \in Seq(Nat) /\ Len(was'[p]) = v /\ was'[p][v] = x
      /\ \A n \in 1..Len(was[p]) : was'[p][n] = was[p][n]
  BY <1>1, <1>a, AppendProperties DEF HistoryInv, HistoryType
<1>5. \A q \in Paths : q # p => was'[q] = was[q]
  BY <1>1 DEF HistoryInv, HistoryType
<1>6. \A q \in Paths, n \in Nat : \A y :
         <<q, n, y>> \in backups /\ <<q, n>> # <<p, v>> => <<q, n, y>> \in backups'
  BY <1>2
<1>7. HistoryType'
  BY <1>1, <1>2, <1>3, <1>4 DEF HistoryInv, HistoryType
<1>8. LatestIn(was', backups')
  <2>1. ASSUME NEW q \in Paths, NEW n \in Nat, n = Len(was'[q]), n # 0, was'[q][n] # H!Absent
        PROVE  <<q, n, was'[q][n]>> \in backups'
    <3>1. CASE q = p
      BY <1>2, <1>4, <2>1, <3>1
    <3>2. CASE q # p
      BY <1>5, <1>6, <2>1, <3>2 DEF HistoryInv, LatestIn
    <3> QED BY <3>1, <3>2
  <2>2. \A q \in Paths : Len(was'[q]) \in Nat
    BY <1>7, LenProperties DEF HistoryType
  <2> QED BY <2>1, <2>2 DEF LatestIn
<1>9. ASSUME NEW s \in Checkpoint, Refers(s, was, backups) PROVE Refers(s, was', backups')
  <2>1. ASSUME NEW q \in Paths
        PROVE  /\ s.version[q] <= Len(was'[q])
               /\ s.version[q] # 0 =>
                    /\ s.before[q] = was'[q][s.version[q]]
                    /\ s.before[q] # H!Absent => <<q, s.version[q], s.before[q]>> \in backups'
    <3>1. s.version[q] \in Nat /\ Len(was[q]) \in Nat
      BY LenProperties DEF HistoryInv, HistoryType, Checkpoint
    <3>2. /\ s.version[q] <= Len(was[q])
          /\ s.version[q] # 0 =>
               /\ s.before[q] = was[q][s.version[q]]
               /\ s.before[q] # H!Absent => <<q, s.version[q], s.before[q]>> \in backups
      BY <1>9 DEF Refers
    <3>3. CASE q = p
      <4>1. <<q, s.version[q]>> # <<p, v>>
        BY <1>a, <3>1, <3>2, <3>3
      <4>a. s.version[q] # 0 => s.version[q] \in 1..Len(was[q])
        BY <3>1, <3>2
      <4>2. s.version[q] # 0 => was'[q][s.version[q]] = was[q][s.version[q]]
        BY <1>4, <3>3, <4>a
      <4>3. s.version[q] <= Len(was'[q])
        BY <1>a, <1>4, <3>1, <3>2, <3>3
      <4>4. s.version[q] # 0 /\ s.before[q] # H!Absent =>
               <<q, s.version[q], s.before[q]>> \in backups'
        BY <1>6, <3>1, <3>2, <4>1
      <4> QED BY <3>2, <4>2, <4>3, <4>4
    <3>4. CASE q # p
      BY <1>5, <1>6, <3>1, <3>2, <3>4
    <3> QED BY <3>3, <3>4
  <2> QED BY <2>1 DEF Refers
<1>10. \A i \in DOMAIN snaps : snaps[i] \in Checkpoint
  BY ElementOfSeq, LenProperties DEF HistoryInv, HistoryType
<1>11. UNCHANGED <<snaps, transcript>>
  BY <1>3
<1>12. \A i \in DOMAIN snaps : Refers(snaps[i], was', backups')
  BY <1>9, <1>10 DEF HistoryInv
<1> QED BY <1>7, <1>8, <1>11, <1>12 DEF HistoryInv

(* The tool's write changes no backup.                                     *)
LEMMA HistoryFinish ==
    ASSUME HistoryInv, NEW p \in Paths, H!Finish(p) PROVE HistoryInv'
<1>1. UNCHANGED <<was, backups, snaps, transcript, turns>>
  BY DEF H!Finish
<1>2. content' \in [Paths -> Nat] /\ writes' \in Nat
  <2>1. H!Absent \in Nat
    BY DEF H!Absent
  <2> QED BY <2>1 DEF H!Finish, HistoryInv, HistoryType
<1> QED BY <1>1, <1>2 DEF HistoryInv, HistoryType

(* The clean-up keeps what the checkpoints and the latest versions need.   *)
LEMMA CleanupKeeps ==
    ASSUME NEW ss, NEW w, LatestIn(w, backups), \A i \in DOMAIN ss : Refers(ss[i], w, backups)
    PROVE  /\ LatestIn(w, H!Referenced(ss, w))
           /\ \A i \in DOMAIN ss : Refers(ss[i], w, H!Referenced(ss, w))
           /\ H!Referenced(ss, w) \subseteq backups
<1>1. ASSUME NEW p \in Paths, NEW n, n = Len(w[p]), n # 0, w[p][n] # H!Absent
      PROVE  <<p, n, w[p][n]>> \in H!Referenced(ss, w)
  <2>1. <<p, n, w[p][n]>> \in backups
    BY <1>1 DEF LatestIn
  <2> QED BY <1>1, <2>1 DEF H!Referenced
<1>2. ASSUME NEW i \in DOMAIN ss, NEW p \in Paths, ss[i].version[p] # 0,
             ss[i].before[p] # H!Absent
      PROVE  <<p, ss[i].version[p], ss[i].before[p]>> \in H!Referenced(ss, w)
  <2>1. <<p, ss[i].version[p], ss[i].before[p]>> \in backups
    BY <1>2 DEF Refers
  <2> QED BY <1>2, <2>1 DEF H!Referenced
<1>3. ASSUME NEW i \in DOMAIN ss PROVE Refers(ss[i], w, H!Referenced(ss, w))
  BY <1>2 DEF Refers
<1>4. LatestIn(w, H!Referenced(ss, w))
  BY <1>1 DEF LatestIn
<1> QED BY <1>3, <1>4 DEF H!Referenced

(* Consecutive checkpoints.                                                *)
LEMMA SliceInTurn ==
    ASSUME NEW all \in Seq(Checkpoint), NEW m \in 1..(Len(all) + 1), NEW n \in 0..Len(all),
           NEW ss, ss = SubSeq(all, m, n)
    PROVE  /\ ss \in Seq(Checkpoint)
           /\ \A k \in DOMAIN ss : m + k - 1 \in DOMAIN all /\ ss[k] = all[m + k - 1]
           /\ InTurn(all) => InTurn(ss)
<1>1. Len(all) \in Nat /\ DOMAIN all = 1..Len(all) /\ \A k \in DOMAIN all : all[k] \in Checkpoint
  BY ElementOfSeq, LenProperties
<1>2. \A k \in m..n : all[k] \in Checkpoint
  BY <1>1
<1>3. /\ ss \in Seq(Checkpoint) /\ Len(ss) = IF m <= n THEN n - m + 1 ELSE 0
      /\ \A k \in 1..(n - m + 1) : ss[k] = all[m + k - 1]
  BY <1>1, <1>2, SubSeqProperties
<1>4. DOMAIN ss = 1..Len(ss)
  BY <1>3, LenProperties
<1>5. ASSUME NEW k \in DOMAIN ss PROVE m + k - 1 \in DOMAIN all /\ ss[k] = all[m + k - 1]
  <2>1. k \in 1..(n - m + 1)
    BY <1>1, <1>3, <1>4
  <2> QED BY <1>1, <1>3, <2>1
<1>6. ASSUME InTurn(all) PROVE InTurn(ss)
  <2> SUFFICES ASSUME NEW i \in DOMAIN ss, NEW j \in DOMAIN ss, j <= i
               PROVE  /\ \A p \in Paths : ss[j].version[p] <= ss[i].version[p]
                      /\ ~ss[j].moved => ss[j].index <= ss[i].index
    BY DEF InTurn
  <2>1. m + j - 1 <= m + i - 1
    BY <1>4, <1>3, <1>1
  <2> QED BY <1>5, <1>6, <2>1 DEF InTurn
<1> QED BY <1>3, <1>5, <1>6

(* make_snapshot: the new checkpoint is of the latest versions and of the  *)
(* end of the conversation, and the oldest ones go.                        *)
LEMMA HistoryEndRun == ASSUME HistoryInv, H!EndRun PROVE HistoryInv'
<1> USE DEF HistoryInv
<1> DEFINE h == Append(transcript, turns + 1)
           s == [index |-> Len(h), version |-> [p \in Paths |-> Len(was[p])],
                 before |-> [p \in Paths |-> IF was[p] = <<>> THEN 0 ELSE H!Last(was[p])],
                 then |-> h, moved |-> FALSE]
           all == Append(snaps, s)
           m == Len(all) - (IF Len(all) > MAX_SNAPSHOTS THEN MAX_SNAPSHOTS - 1 ELSE Len(all) - 1)
           ss == SubSeq(all, m, Len(all))
<1>a. /\ transcript' = h /\ snaps' = ss /\ turns' = turns + 1 /\ backups' = H!Referenced(ss, was)
      /\ UNCHANGED <<content, writes, was>>
  BY DEF H!EndRun
<1>b. /\ h \in Seq(Nat) /\ Len(h) = Len(transcript) + 1 /\ Len(transcript) \in Nat
      /\ \A k \in 1..Len(transcript) : h[k] = transcript[k]
  <2>1. turns + 1 \in Nat
    BY DEF HistoryType
  <2> QED BY <2>1, AppendProperties, LenProperties DEF HistoryType
<1> HIDE DEF h
<1>c. \A p \in Paths : was[p] \in Seq(Nat) /\ Len(was[p]) \in Nat
                       /\ (was[p] = <<>> <=> Len(was[p]) = 0)
  BY EmptySeq, LenProperties DEF HistoryType
<1>d. \A p \in Paths : /\ s.version[p] = Len(was[p]) /\ s.version[p] \in Nat
                       /\ s.version[p] # 0 => s.before[p] = was[p][Len(was[p])]
                       /\ s.before[p] \in Nat
  <2> TAKE p \in Paths
  <2>1. s.version[p] = Len(was[p]) /\ s.before[p] = IF was[p] = <<>> THEN 0 ELSE was[p][Len(was[p])]
    BY DEF H!Last
  <2>2. CASE was[p] = <<>>
    BY <1>c, <2>1, <2>2
  <2>3. CASE was[p] # <<>>
    <3>1. Len(was[p]) \in 1..Len(was[p])
      BY <1>c, <2>3
    <3>2. was[p][Len(was[p])] \in Nat
      BY <1>c, <3>1, ElementOfSeq
    <3> QED BY <1>c, <2>1, <2>3, <3>2
  <2> QED BY <2>2, <2>3
<1>e. /\ s.index = Len(h) /\ s.then = h /\ s.moved = FALSE
      /\ s \in Checkpoint
  <2>1. s.version \in [Paths -> Nat] /\ s.before \in [Paths -> Nat]
    BY <1>d
  <2>2. Len(h) \in Nat /\ h \in Seq(Nat) /\ FALSE \in BOOLEAN
    BY <1>b
  <2>3. s.index = Len(h) /\ s.then = h /\ s.moved = FALSE
    OBVIOUS
  <2> DEFINE version == [p \in Paths |-> Len(was[p])]
             before == [p \in Paths |-> IF was[p] = <<>> THEN 0 ELSE H!Last(was[p])]
  <2>4. version \in [Paths -> Nat] /\ before \in [Paths -> Nat]
    BY <2>1
  <2>5. s = [index |-> Len(h), version |-> version, before |-> before, then |-> h, moved |-> FALSE]
    OBVIOUS
  <2> HIDE DEF s, version, before
  <2> QED BY <2>2, <2>3, <2>4, <2>5 DEF Checkpoint
<1> HIDE DEF s
<1>f. /\ snaps \in Seq(Checkpoint) /\ Len(snaps) \in Nat /\ DOMAIN snaps = 1..Len(snaps)
      /\ all \in Seq(Checkpoint) /\ Len(all) = Len(snaps) + 1 /\ DOMAIN all = 1..Len(all)
      /\ \A i \in DOMAIN snaps : all[i] = snaps[i] /\ snaps[i] \in Checkpoint
      /\ all[Len(snaps) + 1] = s
  BY <1>e, AppendProperties, LenProperties, ElementOfSeq DEF HistoryType
<1> HIDE DEF all
<1>g. \A i \in DOMAIN all : (i \in DOMAIN snaps /\ all[i] = snaps[i]) \/ (i = Len(snaps) + 1 /\ all[i] = s)
  BY <1>f
<1>1. ASSUME NEW i \in DOMAIN all PROVE Refers(all[i], was, backups)
  <2>1. CASE i \in DOMAIN snaps /\ all[i] = snaps[i]
    BY <2>1
  <2>2. CASE all[i] = s
    <3>1. \A p \in Paths, n \in Nat : n = Len(was[p]) /\ n # 0 /\ was[p][n] # H!Absent
                                       => <<p, n, was[p][n]>> \in backups
      BY DEF LatestIn
    <3> QED BY <1>c, <1>d, <2>2, <3>1 DEF Refers
  <2> QED BY <1>g, <2>1, <2>2
<1>2. ASSUME NEW i \in DOMAIN all PROVE Placed(all[i], h)
  <2>1. CASE i \in DOMAIN snaps /\ all[i] = snaps[i]
    <3>1. Len(snaps[i].then) \in Nat
      BY <1>f, <2>1, LenProperties DEF Checkpoint
    <3> QED BY <1>b, <2>1, <3>1 DEF Placed, Begins
  <2>2. CASE all[i] = s
    BY <1>b, <1>e, <2>2 DEF Placed, Begins
  <2> QED BY <1>g, <2>1, <2>2
<1>3. InTurn(all)
  <2> SUFFICES ASSUME NEW i \in DOMAIN all, NEW j \in DOMAIN all, j <= i
               PROVE  /\ \A p \in Paths : all[j].version[p] <= all[i].version[p]
                      /\ ~all[j].moved => all[j].index <= all[i].index
    BY DEF InTurn
  <2>1. CASE i \in DOMAIN snaps
    <3>1. j \in DOMAIN snaps
      BY <1>f, <2>1
    <3> QED BY <1>f, <2>1, <3>1 DEF InTurn
  <2>2. CASE i = Len(snaps) + 1
    <3>1. all[i] = s
      BY <1>f, <2>2
    <3>2. \A p \in Paths : all[j].version[p] <= all[i].version[p]
      BY <1>1, <1>d, <3>1 DEF Refers
    <3>3. CASE all[j] = s
      BY <1>b, <1>e, <3>1, <3>2, <3>3
    <3>4. CASE j \in DOMAIN snaps /\ all[j] = snaps[j]
      <4>1. ~all[j].moved => all[j].index <= Len(transcript) /\ all[j].index \in Nat
        BY <1>f, <3>4 DEF Placed, Begins, Checkpoint
      <4> QED BY <1>b, <1>e, <3>1, <3>2, <4>1
    <3> QED BY <1>g, <3>3, <3>4
  <2> QED BY <1>g, <2>1, <2>2
<1>4. m \in 1..Len(all) /\ Len(all) \in Nat
  BY <1>f, WorkspaceAssumption DEF WorkspaceAssumption
<1> HIDE DEF m
<1>5. /\ ss \in Seq(Checkpoint) /\ InTurn(ss)
      /\ \A k \in DOMAIN ss : m + k - 1 \in DOMAIN all /\ ss[k] = all[m + k - 1]
  <2>1. m \in 1..(Len(all) + 1) /\ Len(all) \in 0..Len(all) /\ all \in Seq(Checkpoint)
    BY <1>4, <1>f
  <2> QED BY <1>3, <2>1, SliceInTurn
<1> HIDE DEF ss
<1>6. \A k \in DOMAIN ss : Refers(ss[k], was, backups) /\ Placed(ss[k], h)
  BY <1>1, <1>2, <1>5
<1>7. /\ LatestIn(was, backups') /\ \A k \in DOMAIN ss : Refers(ss[k], was, backups')
      /\ backups' \subseteq backups
  BY <1>6, <1>a, CleanupKeeps
<1>8. HistoryType'
  BY <1>5, <1>7, <1>a, <1>b DEF HistoryType
<1> QED BY <1>5, <1>6, <1>7, <1>8, <1>a

(* Compaction leaves no checkpoint its place.                              *)
LEMMA HistoryCompact == ASSUME HistoryInv, H!Compact PROVE HistoryInv'
<1> USE DEF HistoryInv
<1>1. /\ transcript' = <<turns + 1>> /\ turns' = turns + 1
      /\ snaps' = [i \in DOMAIN snaps |-> [snaps[i] EXCEPT !.moved = TRUE]]
      /\ UNCHANGED <<content, writes, was, backups>>
  BY DEF H!Compact
<1>2. turns + 1 \in Nat /\ \A i \in DOMAIN snaps : snaps[i] \in Checkpoint
  BY ElementOfSeq, LenProperties DEF HistoryType
<1>3. <<turns + 1>> \in Seq(Nat)
  BY <1>2
<1>4. \A i \in DOMAIN snaps : snaps'[i] \in Checkpoint /\ snaps'[i].moved
                              /\ snaps'[i].version = snaps[i].version
                              /\ snaps'[i].before = snaps[i].before
  BY <1>1, <1>2 DEF Checkpoint
<1>5. snaps' \in Seq(Checkpoint) /\ DOMAIN snaps' = DOMAIN snaps
  <2>1. DOMAIN snaps = 1..Len(snaps) /\ Len(snaps) \in Nat
    BY LenProperties DEF HistoryType
  <2>2. DOMAIN snaps' = 1..Len(snaps) /\ snaps' = [i \in 1..Len(snaps) |-> snaps'[i]]
    BY <1>1, <2>1
  <2>3. \A i \in 1..Len(snaps) : snaps'[i] \in Checkpoint
    BY <1>4, <2>1
  <2> QED BY <2>1, <2>2, <2>3
<1>6. HistoryType'
  BY <1>1, <1>2, <1>3, <1>5 DEF HistoryType
<1>7. LatestIn(was, backups)'
  BY <1>1 DEF LatestIn
<1>8. InTurn(snaps')
  BY <1>4, <1>5 DEF InTurn
<1>9. \A i \in DOMAIN snaps' : Refers(snaps'[i], was', backups') /\ Placed(snaps'[i], transcript')
  BY <1>1, <1>4, <1>5 DEF Refers, Placed
<1> QED BY <1>6, <1>7, <1>8, <1>9

(* The conversation is cut at a checkpoint: an earlier one keeps its place *)
(* if it had it.                                                           *)
LEMMA CutPlaces ==
    ASSUME HistoryInv, NEW i \in DOMAIN snaps
    PROVE  /\ H!Cut(snaps[i]) \in Seq(Nat)
           /\ \A j \in DOMAIN snaps : j <= i => Placed(snaps[j], H!Cut(snaps[i]))
<1> USE DEF HistoryInv
<1> DEFINE n == IF snaps[i].index < Len(transcript) THEN snaps[i].index ELSE Len(transcript)
           c == H!Cut(snaps[i])
<1>1. \A j \in DOMAIN snaps : /\ snaps[j] \in Checkpoint /\ snaps[j].index \in Nat
                              /\ Len(snaps[j].then) \in Nat
  <2>1. \A j \in DOMAIN snaps : snaps[j] \in Checkpoint
    BY ElementOfSeq, LenProperties DEF HistoryType
  <2>2. \A t \in Checkpoint : t.index \in Nat /\ t.then \in Seq(Nat)
    BY DEF Checkpoint
  <2> QED BY <2>1, <2>2, LenProperties
<1>2. Len(transcript) \in Nat /\ transcript \in Seq(Nat) /\ DOMAIN transcript = 1..Len(transcript)
  BY LenProperties DEF HistoryType
<1>3. n \in 0..Len(transcript)
  BY <1>1, <1>2
<1>4. c = SubSeq(transcript, 1, n)
  BY DEF H!Cut
<1>5. \A k \in 1..n : transcript[k] \in Nat
  BY <1>2, <1>3, ElementOfSeq
<1>6. c \in Seq(Nat) /\ Len(c) = n /\ \A k \in 1..n : c[k] = transcript[k]
  <2> HIDE DEF c
  <2>1. n \in Int
    BY <1>3
  <2> HIDE DEF n
  <2> QED BY <1>3, <1>4, <1>5, <2>1, SubSeqProperties
<1>7. ASSUME NEW j \in DOMAIN snaps, j <= i, ~snaps[j].moved
      PROVE  snaps[j].index = Len(snaps[j].then) /\ Begins(snaps[j].then, c)
  <2>1. snaps[j].index = Len(snaps[j].then) /\ Begins(snaps[j].then, transcript)
    BY <1>7 DEF Placed
  <2>2. snaps[j].index <= snaps[i].index
    BY <1>7 DEF InTurn
  <2>3. Len(snaps[j].then) <= n
    BY <1>1, <1>2, <2>1, <2>2 DEF Begins
  <2> HIDE DEF c, n
  <2> QED BY <1>1, <1>3, <1>6, <2>1, <2>3 DEF Begins
<1> QED BY <1>6, <1>7 DEF Placed

(* What a rewind puts back is a content.                                   *)
LEMMA RestoredType ==
    ASSUME HistoryInv, NEW s \in Checkpoint, NEW p \in Paths PROVE H!Restored(s, p) \in Nat
<1> DEFINE v == IF s.version[p] # 0 THEN s.version[p] ELSE 1
           c == IF s.version[p] # 0 THEN s.before[p] ELSE was[p][1]
           found == {f \in backups : f[1] = p /\ f[2] = v}
<1>1. content[p] \in Nat /\ was[p] \in Seq(Nat)
  BY DEF HistoryInv, HistoryType
<1>2. CASE was[p] = <<>>
  BY <1>1, <1>2 DEF H!Restored
<1>3. CASE was[p] # <<>> /\ c = H!Absent
  <2>1. H!Restored(s, p) = H!Absent
    BY <1>3 DEF H!Restored
  <2> QED BY <2>1 DEF H!Absent
<1>4. CASE was[p] # <<>> /\ c # H!Absent
  <2>1. H!Restored(s, p) = IF \E f \in backups : f[1] = p /\ f[2] = v
                           THEN (CHOOSE f \in backups : f[1] = p /\ f[2] = v)[3]
                           ELSE content[p]
    BY <1>4 DEF H!Restored
  <2> HIDE DEF v
  <2>2. CASE \E f \in backups : f[1] = p /\ f[2] = v
    <3>1. (CHOOSE f \in backups : f[1] = p /\ f[2] = v) \in backups
      BY <2>2
    <3> QED BY <2>1, <2>2, <3>1 DEF HistoryInv, HistoryType
  <2> QED BY <1>1, <2>1, <2>2
<1> QED BY <1>2, <1>3, <1>4

(* FileHistory.rewind: earlier checkpoints need no later versions.         *)
LEMMA HistoryRewindFiles ==
    ASSUME HistoryInv, NEW i \in DOMAIN snaps, H!RewindFiles(i),
           NEW ss, ss = SubSeq(snaps, 1, i)
    PROVE  /\ content' \in [Paths -> Nat] /\ was' \in [Paths -> Seq(Nat)]
           /\ backups' \subseteq Paths \X Nat \X Nat
           /\ ss \in Seq(Checkpoint) /\ InTurn(ss) /\ LatestIn(was', backups')
           /\ \A k \in DOMAIN ss : k \in DOMAIN snaps /\ k <= i /\ ss[k] = snaps[k]
                                   /\ Refers(ss[k], was', backups')
<1> USE DEF HistoryInv
<1> DEFINE s == snaps[i]
           w == [p \in Paths |-> H!Kept(s, p)]
<1>a. /\ content' = [p \in Paths |-> H!Restored(s, p)] /\ was' = w
      /\ backups' = H!Referenced(ss, w)
  BY DEF H!RewindFiles
<1>b. /\ DOMAIN snaps = 1..Len(snaps) /\ Len(snaps) \in Nat /\ snaps \in Seq(Checkpoint)
      /\ \A j \in DOMAIN snaps : snaps[j] \in Checkpoint
  BY ElementOfSeq, LenProperties DEF HistoryType
<1>c. \A j \in DOMAIN snaps : \A p \in Paths : snaps[j].version[p] \in Nat
  BY <1>b DEF Checkpoint
<1>1. content' \in [Paths -> Nat]
  BY <1>a, <1>b, RestoredType
<1>2. /\ ss \in Seq(Checkpoint) /\ InTurn(ss)
      /\ \A k \in DOMAIN ss : k \in DOMAIN snaps /\ ss[k] = snaps[k] /\ k <= i
  <2>1. 1 \in 1..(Len(snaps) + 1) /\ i \in 0..Len(snaps) /\ InTurn(snaps)
    BY <1>b
  <2>2. /\ ss \in Seq(Checkpoint) /\ InTurn(ss)
        /\ \A k \in DOMAIN ss : 1 + k - 1 \in DOMAIN snaps /\ ss[k] = snaps[1 + k - 1]
    BY <1>b, <2>1, SliceInTurn
  <2>3. \A k \in 1..i : snaps[k] \in Checkpoint
    BY <1>b
  <2>4. Len(ss) = i
    BY <1>b, <2>3, SubSeqProperties
  <2>5. \A k \in DOMAIN ss : 1 + k - 1 = k /\ k <= i
    BY <2>2, <2>4, <1>b, LenProperties
  <2> QED BY <2>2, <2>5
<1>3. ASSUME NEW p \in Paths
      PROVE  /\ w[p] \in Seq(Nat) /\ Len(w[p]) = s.version[p]
             /\ \A n \in 1..s.version[p] : w[p][n] = was[p][n]
  <2>1. w[p] = SubSeq(was[p], 1, s.version[p])
    BY DEF H!Kept
  <2>2. s.version[p] \in Nat /\ s.version[p] <= Len(was[p])
    BY <1>c DEF Refers
  <2>3. was[p] \in Seq(Nat) /\ \A n \in 1..s.version[p] : was[p][n] \in Nat
    BY <2>2, ElementOfSeq, LenProperties DEF HistoryType
  <2> HIDE DEF w, s
  <2> QED BY <2>1, <2>2, <2>3, SubSeqProperties
<1>4. was' \in [Paths -> Seq(Nat)]
  BY <1>3, <1>a
<1> HIDE DEF w
<1>5. ASSUME NEW k \in DOMAIN ss PROVE Refers(ss[k], w, backups)
  <2>1. ASSUME NEW p \in Paths
        PROVE  /\ ss[k].version[p] <= Len(w[p])
               /\ ss[k].version[p] # 0 =>
                    /\ ss[k].before[p] = w[p][ss[k].version[p]]
                    /\ ss[k].before[p] # H!Absent =>
                          <<p, ss[k].version[p], ss[k].before[p]>> \in backups
    <3>1. Refers(snaps[k], was, backups) /\ ss[k] = snaps[k]
      BY <1>2
    <3>2. ss[k].version[p] <= s.version[p] /\ ss[k].version[p] \in Nat /\ s.version[p] \in Nat
      BY <1>2, <1>c DEF InTurn
    <3>a. ss[k].version[p] # 0 => ss[k].version[p] \in 1..s.version[p]
      <4>1. \A x, y \in Nat : x <= y /\ x # 0 => x \in 1..y
        OBVIOUS
      <4> HIDE DEF s, HistoryInv
      <4> QED BY <3>2, <4>1
    <3>3. ss[k].version[p] # 0 => w[p][ss[k].version[p]] = was[p][ss[k].version[p]]
      <4>1. \A n \in 1..s.version[p] : w[p][n] = was[p][n]
        BY <1>3
      <4> HIDE DEF s
      <4> QED BY <3>a, <4>1
    <3>4. /\ ss[k].version[p] # 0 =>
                /\ ss[k].before[p] = was[p][ss[k].version[p]]
                /\ ss[k].before[p] # H!Absent =>
                      <<p, ss[k].version[p], ss[k].before[p]>> \in backups
      BY <3>1 DEF Refers
    <3>5. ss[k].version[p] <= Len(w[p])
      BY <1>3, <3>2
    <3> QED BY <3>3, <3>4, <3>5
  <2> QED BY <2>1 DEF Refers
<1>6. LatestIn(w, backups)
  <2>1. ASSUME NEW p \in Paths, NEW n, n = Len(w[p]), n # 0, w[p][n] # H!Absent
        PROVE  <<p, n, w[p][n]>> \in backups
    <3>1. n = s.version[p] /\ n \in Nat
      BY <1>3, <1>c, <2>1
    <3>2. w[p][n] = was[p][n]
      BY <1>3, <2>1, <3>1
    <3>3. s.before[p] = was[p][n] /\ (s.before[p] # H!Absent => <<p, n, s.before[p]>> \in backups)
      BY <2>1, <3>1 DEF Refers
    <3> QED BY <2>1, <3>2, <3>3
  <2> QED BY <2>1 DEF LatestIn
<1>7. /\ LatestIn(w, H!Referenced(ss, w)) /\ H!Referenced(ss, w) \subseteq backups
      /\ \A k \in DOMAIN ss : Refers(ss[k], w, H!Referenced(ss, w))
  BY <1>5, <1>6, CleanupKeeps
<1>8. backups' \subseteq Paths \X Nat \X Nat
  BY <1>7, <1>a DEF HistoryType
<1> QED BY <1>1, <1>2, <1>4, <1>7, <1>8, <1>a

(* /rewind, with each of its options.                                      *)
LEMMA HistoryRewind ==
    ASSUME HistoryInv, NEW i \in DOMAIN snaps, NEW option \in 1..3, H!Rewind(i, option)
    PROVE  HistoryInv'
<1> USE DEF HistoryInv
<1>1. /\ H!Cut(snaps[i]) \in Seq(Nat)
      /\ \A j \in DOMAIN snaps : j <= i => Placed(snaps[j], H!Cut(snaps[i]))
  BY CutPlaces
<1>2. transcript' = IF option = 3 THEN transcript ELSE H!Cut(snaps[i])
  BY DEF H!Rewind
<1>3. transcript' \in Seq(Nat) /\ \A j \in DOMAIN snaps : j <= i => Placed(snaps[j], transcript')
  BY <1>1, <1>2 DEF HistoryType
<1>4. CASE option # 2
  <2> DEFINE ss == SubSeq(snaps, 1, i)
  <2>1. H!RewindFiles(i) /\ snaps' = ss
    BY <1>4 DEF H!Rewind
  <2> HIDE DEF ss
  <2>2. /\ content' \in [Paths -> Nat] /\ was' \in [Paths -> Seq(Nat)]
        /\ backups' \subseteq Paths \X Nat \X Nat
        /\ ss \in Seq(Checkpoint) /\ InTurn(ss) /\ LatestIn(was', backups')
        /\ \A k \in DOMAIN ss : k \in DOMAIN snaps /\ k <= i /\ ss[k] = snaps[k]
                                /\ Refers(ss[k], was', backups')
    BY <2>1, HistoryRewindFiles DEF ss
  <2>3. UNCHANGED <<writes, turns>>
    BY <2>1 DEF H!RewindFiles
  <2>4. HistoryType'
    BY <1>3, <2>1, <2>2, <2>3 DEF HistoryType
  <2>5. \A k \in DOMAIN ss : Placed(ss[k], transcript')
    BY <1>3, <2>2
  <2> QED BY <2>1, <2>2, <2>4, <2>5
<1>5. CASE option = 2
  <2>1. /\ snaps' = [j \in DOMAIN snaps |->
                        [snaps[j] EXCEPT !.moved = @ \/ j > i \/ snaps[i].moved]]
        /\ UNCHANGED <<content, writes, was, backups, turns>>
    BY <1>5 DEF H!Rewind
  <2>2. DOMAIN snaps = 1..Len(snaps) /\ Len(snaps) \in Nat /\ i \in Nat
        /\ \A j \in DOMAIN snaps : snaps[j] \in Checkpoint
    BY ElementOfSeq, LenProperties DEF HistoryType
  <2>3. \A j \in DOMAIN snaps :
           /\ snaps'[j] \in Checkpoint
           /\ snaps'[j].version = snaps[j].version /\ snaps'[j].before = snaps[j].before
           /\ snaps'[j].index = snaps[j].index /\ snaps'[j].then = snaps[j].then
    BY <2>1, <2>2 DEF Checkpoint
  <2>4. \A j \in DOMAIN snaps : ~snaps'[j].moved => ~snaps[j].moved /\ ~(j > i)
    BY <2>1, <2>2 DEF Checkpoint
  <2>5. snaps' \in Seq(Checkpoint) /\ DOMAIN snaps' = DOMAIN snaps
    <3>1. DOMAIN snaps' = 1..Len(snaps) /\ snaps' = [j \in 1..Len(snaps) |-> snaps'[j]]
      BY <2>1, <2>2
    <3>2. \A j \in 1..Len(snaps) : snaps'[j] \in Checkpoint
      BY <2>2, <2>3
    <3> QED BY <2>2, <3>1, <3>2
  <2>6. HistoryType'
    BY <1>3, <2>1, <2>5 DEF HistoryType
  <2>7. InTurn(snaps')
    BY <2>3, <2>4, <2>5 DEF InTurn
  <2>8. ASSUME NEW j \in DOMAIN snaps
        PROVE  Refers(snaps'[j], was', backups') /\ Placed(snaps'[j], transcript')
    <3>1. Refers(snaps'[j], was', backups')
      BY <2>1, <2>3 DEF Refers
    <3>2. Placed(snaps'[j], transcript')
      <4> SUFFICES ASSUME ~snaps'[j].moved
                   PROVE  snaps'[j].index = Len(snaps'[j].then)
                          /\ Begins(snaps'[j].then, transcript')
        BY DEF Placed
      <4>1. ~snaps[j].moved /\ j <= i
        BY <2>2, <2>4
      <4>2. snaps[j].index = Len(snaps[j].then) /\ Begins(snaps[j].then, transcript')
        BY <1>3, <4>1 DEF Placed
      <4> QED BY <2>3, <4>2
    <3> QED BY <3>1, <3>2
  <2> QED BY <2>1, <2>5, <2>6, <2>7, <2>8 DEF LatestIn
<1> QED BY <1>4, <1>5

(* history.py: a checkpoint's backups and its place in the conversation    *)
(* stay good through later changes, rewinds, trimming and clean-up.        *)
THEOREM CheckpointsStayIntact == Spec => []CheckpointsIntact
<1>1. Init => HistoryInv
  BY HistoryStart DEF Init
<1>2. HistoryInv /\ [Next]_<<focus, vars>> => HistoryInv'
  <2>1. ASSUME HistoryInv, H!Next PROVE HistoryInv'
    BY <2>1, HistoryTrack, HistoryFinish, HistoryEndRun, HistoryCompact, HistoryRewind DEF H!Next
  <2>2. ASSUME HistoryInv, UNCHANGED checkpoints PROVE HistoryInv'
    BY <2>2 DEF checkpoints, HistoryInv, HistoryType
  <2> QED BY <2>1, <2>2 DEF Next, vars
<1>3. HistoryInv => CheckpointsIntact
  BY HistoryIntact DEF CheckpointsIntact
<1> QED BY <1>1, <1>2, <1>3, PTL DEF Spec
==============================================================================
