----------------------------- MODULE FileTools -----------------------------
(***************************************************************************)
(* The file tools of one process: ReadFile, WriteFile, EditFile and        *)
(* DeleteFile (src/myclaude/tools) with the cache that makes an agent read *)
(* a file before it changes it.  The process's agents share the tools'     *)
(* caches.  Editors, shell commands, git and /rewind change the same files *)
(* without taking part in any of this.                                     *)
(*                                                                         *)
(* A tool holds the path's lock from its check to the refresh of the       *)
(* cache; others may act between any two of its steps.  What track_edit    *)
(* does with the file it is about to change is FileHistory's subject.      *)
(***************************************************************************)
EXTENDS Integers

CONSTANTS Paths,
          MaxStamp         \* bound: changes of a file

VARIABLES
    disk,       \* path -> [c: content, m: modification time]
    stamp,      \* the last modification time given, also the last new content
    cache,      \* path -> the content and time the tools last saw, or Unread
    texts,      \* path -> the text cache of ReadFile, or Unread
    text,       \* path -> what ReadFile has and not recorded yet, and how it got it
    op,         \* path -> the tool in progress and how far it is
    seen,       \* contents the tools have read or written
    unseen,     \* contents a tool replaced that no tool had seen
    raced,      \* contents that appeared while a tool was between two steps
    slipped     \* contents that appeared between ReadFile's second read and look at the time

vars == <<disk, stamp, cache, texts, text, op, seen, unseen, raced, slipped>>

Absent == 0
Unread == [c |-> -1, m |-> -1]
NoText == [from |-> Unread, by |-> "none"]
Idle == [kind |-> "none", at |-> "none"]
Changing == {"write", "edit", "delete"}

TypeOK ==
    /\ stamp \in 0..MaxStamp
    /\ \A p \in Paths : disk[p].c \in 0..stamp /\ disk[p].m \in 0..stamp
    /\ cache \in [Paths -> [c : -1..stamp, m : -1..stamp]]
    /\ texts \in [Paths -> [c : -1..stamp, m : -1..stamp]]
    /\ text \in [Paths -> [from : [c : -1..stamp, m : -1..stamp],
                           by : {"none", "cache", "read", "reread"}]]
    /\ op \in [Paths -> [kind : Changing \cup {"none"},
                         at : {"none", "checked", "tracked", "replaced"}]]
    /\ seen \subseteq 0..stamp /\ unseen \subseteq 0..stamp /\ raced \subseteq 0..stamp
    /\ slipped \subseteq 0..stamp

Init ==
    /\ disk = [p \in Paths |-> [c |-> 1, m |-> 1]]
    /\ stamp = 1
    /\ cache = [p \in Paths |-> Unread]
    /\ texts = [p \in Paths |-> Unread] /\ text = [p \in Paths |-> NoText]
    /\ op = [p \in Paths |-> Idle]
    /\ seen = {} /\ unseen = {} /\ raced = {} /\ slipped = {}

Exists(p) == disk[p].c # Absent

-----------------------------------------------------------------------------
(* ReadFile.                                                               *)

\* The text comes from the text cache when its time is the file's, else from the file.
ReadText(p) ==
    /\ Exists(p) /\ text[p] = NoText
    /\ text' = [text EXCEPT ![p] = IF texts[p].m = disk[p].m
                                   THEN [from |-> texts[p], by |-> "cache"]
                                   ELSE [from |-> disk[p], by |-> "read"]]
    /\ UNCHANGED <<disk, stamp, cache, texts, op, seen, unseen, raced, slipped>>

\* The file has changed during the read: it is read again, once.
ReadAgain(p) ==
    /\ text[p].by = "read" /\ disk[p].m # text[p].from.m /\ Exists(p)
    /\ text' = [text EXCEPT ![p] = [from |-> disk[p], by |-> "reread"]]
    /\ UNCHANGED <<disk, stamp, cache, texts, op, seen, unseen, raced, slipped>>

\* A file that is gone when its time is asked for.
ReadFails(p) ==
    /\ text[p].by \in {"read", "reread"} /\ ~Exists(p)
    /\ text' = [text EXCEPT ![p] = NoText]
    /\ UNCHANGED <<disk, stamp, cache, texts, op, seen, unseen, raced, slipped>>

\* What was read again is recorded with the time the file has by then.
RecordRead(p) ==
    LET new == IF text[p].by = "reread" THEN [c |-> text[p].from.c, m |-> disk[p].m]
               ELSE text[p].from
    IN  /\ \/ text[p].by = "cache"
           \/ text[p].by = "read" /\ disk[p].m = new.m
           \/ text[p].by = "reread" /\ Exists(p)
        /\ text' = [text EXCEPT ![p] = NoText]
        /\ texts' = [texts EXCEPT ![p] = IF text[p].by = "cache" THEN @ ELSE new]
        /\ cache' = [cache EXCEPT ![p] = new]
        /\ seen' = seen \cup {new.c}
        /\ UNCHANGED <<disk, stamp, op, unseen, raced, slipped>>

-----------------------------------------------------------------------------
(* WriteFile, EditFile and DeleteFile, under the path's lock.              *)

\* check with the time alone, which a file read while it changes satisfies.
MayChangeByTime(p) ==
    /\ cache[p] # Unread
    /\ Exists(p) => cache[p].m = disk[p].m

\* FileStateCache.check: it must have been read; a file that is gone passes.
MayChange(p) ==
    /\ cache[p] # Unread
    /\ Exists(p) => cache[p] = disk[p]

\* WriteFile asks the cache about an existing file only; the others need the file.
BeginChange(p, kind) ==
    /\ op[p] = Idle
    /\ \/ kind = "write" /\ (Exists(p) => MayChange(p))
       \/ kind # "write" /\ Exists(p) /\ MayChange(p)
    /\ op' = [op EXCEPT ![p] = [kind |-> kind, at |-> "checked"]]
    /\ UNCHANGED <<disk, stamp, cache, texts, text, seen, unseen, raced, slipped>>

\* A content that appears after the second read and before the second look at the time.
Slips(p, c) == IF text[p].by = "reread" THEN slipped \cup {c} ELSE slipped

\* FileHistory.track_edit backs the file up before it is changed.
TrackEdit(p) ==
    /\ op[p].at = "checked"
    /\ op' = [op EXCEPT ![p].at = "tracked"]
    /\ UNCHANGED <<disk, stamp, cache, texts, text, seen, unseen, raced, slipped>>

\* atomic_write_text, or the unlink of DeleteFile (which forgets the file at once).
Replace(p) ==
    /\ op[p].at = "tracked" /\ stamp < MaxStamp
    /\ stamp' = stamp + 1
    /\ disk' = [disk EXCEPT ![p] = IF op[p].kind = "delete" THEN [c |-> Absent, m |-> stamp + 1]
                                   ELSE [c |-> stamp + 1, m |-> stamp + 1]]
    /\ unseen' = IF Exists(p) /\ disk[p].c \notin seen THEN unseen \cup {disk[p].c} ELSE unseen
    /\ cache' = IF op[p].kind = "delete" THEN [cache EXCEPT ![p] = Unread] ELSE cache
    /\ texts' = [texts EXCEPT ![p] = Unread]
    /\ op' = [op EXCEPT ![p] = IF @.kind = "delete" THEN Idle ELSE [@ EXCEPT !.at = "replaced"]]
    /\ seen' = seen \cup {disk'[p].c}
    /\ slipped' = Slips(p, disk'[p].c)
    /\ UNCHANGED <<text, raced>>

\* FileStateCache.update reads the file back; the tool returns.
Refresh(p) ==
    /\ op[p].at = "replaced"
    /\ cache' = [cache EXCEPT ![p] = IF Exists(p) THEN disk[p] ELSE Unread]
    /\ op' = [op EXCEPT ![p] = Idle]
    /\ UNCHANGED <<disk, stamp, texts, text, seen, unseen, raced, slipped>>

\* The text to replace is not there, the backup or the write fails, or what is there now cannot
\* be read back as text: the tool reports an error.
Fail(p) ==
    /\ op[p].at # "none"
    /\ op' = [op EXCEPT ![p] = Idle]
    /\ UNCHANGED <<disk, stamp, cache, texts, text, seen, unseen, raced, slipped>>

\* Somebody else writes or removes the file, or a rewind puts an earlier content back.
Foreign(p) ==
    /\ stamp < MaxStamp
    /\ stamp' = stamp + 1
    /\ \E c \in (0..(stamp + 1)) \ {disk[p].c} :
        /\ disk' = [disk EXCEPT ![p] = [c |-> c, m |-> stamp + 1]]
        /\ raced' = IF op[p].at = "none" THEN raced ELSE raced \cup {c}
        /\ slipped' = Slips(p, c)
    /\ UNCHANGED <<cache, texts, text, op, seen, unseen>>

\* The process starts again: tools and caches start afresh, the files stay.
Restart ==
    /\ cache' = [p \in Paths |-> Unread]
    /\ texts' = [p \in Paths |-> Unread] /\ text' = [p \in Paths |-> NoText]
    /\ op' = [p \in Paths |-> Idle]
    /\ UNCHANGED <<disk, stamp, seen, unseen, raced, slipped>>

Next ==
    \/ \E p \in Paths : \/ ReadText(p) \/ ReadAgain(p) \/ ReadFails(p) \/ RecordRead(p)
                        \/ \E kind \in Changing : BeginChange(p, kind)
                        \/ TrackEdit(p) \/ Replace(p) \/ Refresh(p) \/ Fail(p) \/ Foreign(p)
    \/ Restart

Spec == Init /\ [][Next]_vars

-----------------------------------------------------------------------------
(* What a tool replaces or deletes is what the tools have seen, or it      *)
(* appeared while the tool was at work: the content check, not only the    *)
(* time, closes the gap of a read that overlapped a write.                 *)
NothingUnseenLost == unseen \subseteq raced

(* The text ReadFile would show is the file's, unless a change slipped in  *)
(* between its read and its look at the time - and then reading again does *)
(* not help before the file changes, for the text cache has the right time *)
(* and the wrong text.                                                     *)
TextsCurrent ==
    \A p \in Paths : texts[p].m = disk[p].m /\ Exists(p) =>
                         texts[p].c = disk[p].c \/ disk[p].c \in slipped

OverwritesSeen == NothingUnseenLost /\ TextsCurrent
=============================================================================
