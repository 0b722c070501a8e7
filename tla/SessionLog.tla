------------------------------ MODULE SessionLog ------------------------------
(***************************************************************************)
(* The transcript of a session: src/myclaude/memory/session.py, written by *)
(* the loop over agent events in src/myclaude/app.py (remote.py writes it  *)
(* in the same way).                                                       *)
(*                                                                         *)
(* Messages are appended to the conversation in memory; what a run added   *)
(* since its cursor goes to the file at the end of each turn.  Compaction  *)
(* writes a boundary that replaces everything before it.  The process may  *)
(* be killed in the middle of a write; resume rebuilds the conversation.   *)
(***************************************************************************)
EXTENDS Naturals, Sequences, FiniteSets

CONSTANTS
    MaxMessages,    \* bound: messages of a session
    MaxCrashes      \* bound: ends of the process

ASSUME SessionAssumption == {MaxMessages, MaxCrashes} \subseteq Nat

Kinds == {"user", "answer", "calls", "results", "summary"}

(* n numbers the messages in the order of their creation; of is the number *)
(* of the calls a results message answers.                                 *)
Message == [n : Nat, kind : Kinds, of : Nat]
Summary == [n |-> 0, kind |-> "summary", of |-> 0]

VARIABLES
    conv,       \* the conversation in memory, without the environment message
    cursor,     \* messages of conv that are on disk, or never will be
    opaque,     \* provider state in memory: assistant turn -> the message it is for
    phase,      \* "idle", "top", "acting", "acted", "answered" or "down"
    disk,       \* the readable lines: <<message>>, or a boundary <<Summary>> \o kept messages
    tail,       \* the last line of the file: "ended", "torn", "whole" (only the newline is
                \* missing) or "split" (torn inside a character)
    meta,       \* provider state in the metadata file
    last,       \* number of the last message
    crashes,
    unsaved,    \* history: messages of conv that no flush will write
    skewed,     \* history: one of them was an assistant turn
    damaged     \* history: a crash hit a write

vars == <<conv, cursor, opaque, phase, disk, tail, meta, last, crashes,
          unsaved, skewed, damaged>>

Opaque(f) == DOMAIN f \subseteq Nat /\ \A i \in DOMAIN f : f[i] \in 1..last

TypeOK ==
    /\ conv \in Seq(Message) /\ cursor \in 0..Len(conv)
    /\ Opaque(opaque) /\ Opaque(meta)
    /\ phase \in {"idle", "top", "acting", "acted", "answered", "down"}
    /\ disk \in Seq(Seq(Message)) /\ \A i \in DOMAIN disk : disk[i] # <<>>
    /\ tail \in {"ended", "torn", "whole", "split"}
    /\ last \in Nat /\ crashes \in Nat
    /\ unsaved \subseteq 1..last
    /\ skewed \in BOOLEAN /\ damaged \in BOOLEAN

None == [i \in {} |-> 0]

Init ==
    /\ conv = <<>> /\ cursor = 0 /\ opaque = None /\ phase = "idle"
    /\ disk = <<>> /\ tail = "ended" /\ meta = None
    /\ last = 0 /\ crashes = 0
    /\ unsaved = {} /\ skewed = FALSE /\ damaged = FALSE

Numbers(msgs) == {msgs[i].n : i \in DOMAIN msgs} \ {0}
IsAssistant(m) == m.kind \in {"answer", "calls"}
From(s, k) == SubSeq(s, k, Len(s))
Front(s) == SubSeq(s, 1, Len(s) - 1)
Largest(S) == CHOOSE x \in S : \A y \in S : y <= x

-----------------------------------------------------------------------------
(* What resume makes of the lines it can read.                             *)

Replayed ==
    LET B == {i \in DOMAIN disk : disk[i][1].kind = "summary"}
    IN  IF B = {} THEN disk ELSE From(disk, Largest(B))

(* validate_message_chain: the longest beginning after which no call waits *)
(* for its result; the messages kept in a boundary are not looked at.      *)
Waiting(lines, i) ==
    {lines[j][1].n : j \in {k \in 1..i : lines[k][1].kind = "calls"}}
        \ {lines[j][1].of : j \in 1..i}

(* Faulty variant: everything is taken for valid.                          *)
AllValid(lines) == Len(lines)

Valid(lines) == Largest({0} \cup {i \in DOMAIN lines : Waiting(lines, i) = {}})

(* records_to_messages.                                                    *)
Messages(lines) ==
    IF lines = <<>> THEN <<>>
    ELSE lines[1] \o [i \in 1..(Len(lines) - 1) |-> lines[i + 1][1]]

Restored == Messages(SubSeq(Replayed, 1, Valid(Replayed)))

-----------------------------------------------------------------------------
(* Writing.                                                                *)

(* The file after complete lines were added; the first one is written onto *)
(* a line without an end, and neither can be read afterwards.              *)
After(lines) ==
    CASE lines = <<>> -> disk
      [] tail = "ended" -> disk \o lines
      [] tail = "torn" -> disk \o Tail(lines)
      [] OTHER -> Front(disk) \o Tail(lines)

Write(lines) ==
    /\ disk' = After(lines)
    /\ tail' = IF lines = <<>> THEN tail ELSE "ended"

(* The process is killed while it writes lines, or before it can save the  *)
(* metadata: k lines are complete, and the last may have lost its newline  *)
(* or the next may be there in part (a record may take several writes).    *)
WriteCut(lines) ==
    \E k \in 0..Len(lines) :
        \/ /\ disk' = After(SubSeq(lines, 1, k))
           /\ tail' = IF k = 0 THEN tail ELSE "ended"
        \/ /\ k > IF tail = "ended" THEN 0 ELSE 1
           /\ disk' = After(SubSeq(lines, 1, k))
           /\ tail' = "whole"
        \/ /\ k < Len(lines)
           /\ disk' = IF k = 0 /\ tail = "whole" THEN Front(disk) ELSE After(SubSeq(lines, 1, k))
           /\ tail' \in {"torn", "split"}

Added == [n |-> last + 1, kind |-> "user", of |-> 0]
Unflushed == [i \in 1..(Len(conv) - cursor) |-> <<conv[cursor + i]>>]

(* The places where compaction may cut: never in front of results, and not *)
(* when there is nothing but a summary to summarise.                       *)
Cuts == {k \in 2..Len(conv) : conv[k].kind # "results" /\ conv[k - 1].kind # "summary"}
Compacted(k) == <<Summary>> \o From(conv, k)

(* make_compact_boundary: the summary and what was kept go into one record. *)
Boundary(k) == <<Compacted(k)>>

(* What the surface may be about to write.                                 *)
Writes ==
    (IF phase = "idle" THEN {<< <<Added>> >>} ELSE {})
        \cup (IF phase \in {"acted", "answered"} THEN {Unflushed} ELSE {})
        \cup (IF phase \in {"idle", "top"} THEN {Boundary(k) : k \in Cuts} ELSE {})

-----------------------------------------------------------------------------
(* The conversation.                                                       *)

Room(n) == last + n <= MaxMessages
OnDisk == UNCHANGED <<disk, tail, meta, crashes, damaged>>

(* Faulty variant: the cursor is taken before the message is appended.     *)
SendEarlyCursor ==
    /\ phase = "idle" /\ phase' = "top" /\ Room(1) /\ last' = last + 1
    /\ conv' = Append(conv, Added) /\ cursor' = Len(conv)
    /\ Write(<< <<Added>> >>)
    /\ UNCHANGED <<opaque, meta, crashes, unsaved, skewed, damaged>>

(* A user message goes to the file at once; the run's cursor follows it.   *)
Send ==
    /\ phase = "idle" /\ phase' = "top" /\ Room(1) /\ last' = last + 1
    /\ conv' = Append(conv, Added) /\ cursor' = Len(conv')
    /\ Write(<< <<Added>> >>)
    /\ UNCHANGED <<opaque, meta, crashes, unsaved, skewed, damaged>>

(* A run for notifications: the reminder lies before the cursor.           *)
SendNotification ==
    /\ phase = "idle" /\ phase' = "top" /\ Room(1) /\ last' = last + 1
    /\ conv' = Append(conv, Added) /\ cursor' = Len(conv')
    /\ unsaved' = unsaved \cup {last'}
    /\ UNCHANGED <<opaque, skewed>> /\ OnDisk

(* A queued message or a reminder is added while the run goes on.          *)
Inject ==
    /\ phase \in {"top", "acted"} /\ Room(1) /\ last' = last + 1
    /\ conv' = Append(conv, Added)
    /\ UNCHANGED <<cursor, opaque, phase, unsaved, skewed>> /\ OnDisk

(* A response becomes the next assistant turn; the provider's items are    *)
(* recorded under the number of assistant messages before it.              *)
TurnOf(msgs, i) == Cardinality({j \in 1..(i - 1) : IsAssistant(msgs[j])})
Turn == TurnOf(conv, Len(conv) + 1)

Respond(kind) ==
    /\ last' = last + 1
    /\ conv' = Append(conv, [n |-> last', kind |-> kind, of |-> 0])
    /\ opaque' = [i \in DOMAIN opaque \cup {Turn} |-> IF i = Turn THEN last' ELSE opaque[i]]
    /\ UNCHANGED <<cursor, unsaved, skewed>> /\ OnDisk

Answer == phase = "top" /\ Room(1) /\ Respond("answer") /\ phase' = "answered"
CallTools == phase = "top" /\ Room(1) /\ Respond("calls") /\ phase' = "acting"

Results ==
    /\ phase = "acting" /\ phase' = "acted" /\ Room(1) /\ last' = last + 1
    /\ conv' = Append(conv, [n |-> last', kind |-> "results", of |-> last])
    /\ UNCHANGED <<cursor, opaque, unsaved, skewed>> /\ OnDisk

(* An answer that is not the last (refused by the gate, cut off by the     *)
(* token limit, or followed by a queued message) has a message after it;   *)
(* only the cut one is not the end of a turn.                              *)
GoesOn(next) ==
    /\ phase = "answered" /\ phase' = next /\ Room(1) /\ last' = last + 1
    /\ conv' = Append(conv, Added)
    /\ UNCHANGED <<cursor, opaque, unsaved, skewed>> /\ OnDisk

CutOff == GoesOn("top")
Refused == GoesOn("acted")

(* Faulty variant: the last turn of a run is not written.                  *)
LoopCompleteUnflushed ==
    /\ phase \in {"acted", "answered"} /\ phase' = "idle" /\ cursor' = Len(conv)
    /\ UNCHANGED <<conv, opaque, disk, tail, meta, last, crashes, unsaved, skewed, damaged>>

Flush ==
    /\ Write(Unflushed) /\ cursor' = Len(conv) /\ meta' = opaque
    /\ UNCHANGED <<conv, opaque, last, crashes, unsaved, skewed, damaged>>

(* A run ends with an answer, or with the results of ExitPlanMode.         *)
TurnComplete == phase = "acted" /\ phase' = "top" /\ Flush
LoopComplete == phase \in {"acted", "answered"} /\ phase' = "idle" /\ Flush

(* The run is cancelled or ends with an error: nothing is flushed, and the *)
(* next run's cursor will lie behind what it has added.                    *)
Stop ==
    /\ phase \notin {"idle", "down"} /\ phase' = "idle"
    /\ unsaved' = unsaved \cup Numbers(From(conv, cursor + 1))
    /\ skewed' = (skewed \/ \E i \in (cursor + 1)..Len(conv) : IsAssistant(conv[i]))
    /\ cursor' = Len(conv)
    /\ UNCHANGED <<conv, opaque, last>> /\ OnDisk

(* Faulty variant: the provider state survives the rewritten history.      *)
CompactStateful(k) ==
    /\ phase \in {"idle", "top"} /\ UNCHANGED <<phase, last, crashes, damaged>>
    /\ conv' = Compacted(k) /\ cursor' = Len(conv')
    /\ Write(Boundary(k))
    /\ opaque' = opaque /\ meta' = opaque
    /\ unsaved' = unsaved \ Numbers(conv') /\ skewed' = FALSE

(* Compaction, at the top of a turn or by command: boundary, provider      *)
(* state, cursor.                                                          *)
Compact(k) ==
    /\ phase \in {"idle", "top"} /\ UNCHANGED <<phase, last, crashes, damaged>>
    /\ conv' = Compacted(k) /\ cursor' = Len(conv')
    /\ Write(Boundary(k))
    /\ opaque' = None /\ meta' = None
    /\ unsaved' = unsaved \ Numbers(conv') /\ skewed' = FALSE

-----------------------------------------------------------------------------
(* The process.                                                            *)

Ends ==
    /\ phase # "down" /\ phase' = "down"
    /\ crashes < MaxCrashes /\ crashes' = crashes + 1
    /\ conv' = <<>> /\ cursor' = 0 /\ opaque' = None /\ unsaved' = {}
    /\ UNCHANGED <<meta, skewed>>

Crash == Ends /\ UNCHANGED <<disk, tail, last, damaged>>

(* The number of a message that was being sent is used up.                 *)
CrashWriting ==
    /\ Ends /\ damaged' = TRUE /\ Room(1) /\ last' = last + 1
    /\ \E lines \in Writes : WriteCut(lines)

(* Resume cuts the conversation off in memory and leaves the file as it    *)
(* is; a file that is not valid UTF-8 cannot be resumed.                   *)
Resume ==
    /\ phase = "down" /\ phase' = "idle" /\ tail # "split"
    /\ conv' = Restored /\ cursor' = Len(conv')
    /\ opaque' = meta
    /\ UNCHANGED <<disk, tail, meta, last, crashes, unsaved, skewed, damaged>>

Next ==
    \/ Send \/ SendNotification \/ Inject
    \/ Answer \/ CallTools \/ Results \/ CutOff \/ Refused
    \/ TurnComplete \/ LoopComplete \/ Stop
    \/ \E k \in Cuts : Compact(k)
    \/ Crash \/ CrashWriting \/ Resume

Spec == Init /\ [][Next]_vars

-----------------------------------------------------------------------------
(* Properties.                                                             *)

InOrder(msgs) == \A i, j \in DOMAIN msgs : i < j => msgs[i].n < msgs[j].n

(* As long as no crash has hit a write, a resume gives back the            *)
(* conversation up to the cursor, in its order, but for what no flush will *)
(* ever write: reminders before a run, and what a cancelled or failed run  *)
(* has added.                                                              *)
Mirror ==
    phase # "down" /\ ~damaged =>
        /\ InOrder(conv) /\ InOrder(Restored)
        /\ {Restored[i] : i \in DOMAIN Restored} =
               {m \in {conv[i] : i \in 1..cursor} : m.n \notin unsaved}

(* Wherever the process was killed, resume restores the messages in their  *)
(* order and none of them twice.                                           *)
RestoredInOrder == InOrder(Restored)

(* Wherever the process was killed, a call that resume restores from a     *)
(* line of its own is restored with its result.                            *)
RestoredAnswered ==
    \A i \in DOMAIN Replayed :
        Replayed[i][1].kind = "calls" /\ Replayed[i][1].n \in Numbers(Restored) =>
            \E j \in DOMAIN Restored : Restored[j].of = Replayed[i][1].n

(* The provider's items that the metadata keeps under the number of an     *)
(* assistant turn are the items of the turn resume restores there.         *)
MetaAligned ==
    \A i \in DOMAIN Restored :
        IsAssistant(Restored[i]) /\ TurnOf(Restored, i) \in DOMAIN meta =>
            meta[TurnOf(Restored, i)] = Restored[i].n

(* They are, unless a crash has hit a write or a stopped run has left an   *)
(* assistant turn out of the file.                                         *)
AlignedWhenWhole == ~damaged /\ ~skewed => MetaAligned

(* What replace_history resets the provider state for (conversation.py:    *)
(* 220-222): it is never out of line with the log.                         *)
OpaqueAligned == ~damaged => MetaAligned
===============================================================================
