------------------------------ MODULE Mailbox ------------------------------
(***************************************************************************)
(* One inbox of src/myclaude/teams/mailbox.py, used by several processes.  *)
(*                                                                         *)
(* Every operation is Mailbox._with_lock: take the lock file, read the     *)
(* inbox, change the list, write it back, remove the lock file.  A process *)
(* that waited in vain goes on without the lock, a lock older than ten     *)
(* seconds is removed by whoever meets it, and the write truncates the     *)
(* file before it fills it.  TeamDelete may remove the directory at any    *)
(* time.                                                                   *)
(***************************************************************************)
EXTENDS Naturals, Sequences

CONSTANTS
    Procs,          \* threads of control, each in a process of its own
    Messages,
    MAX_ATTEMPTS,   \* 10 in the code
    NoOne,          \* nobody holds the lock
    Torn            \* contents of a file that was truncated and not yet filled

VARIABLES
    inbox,      \* the JSON array: a sequence of [msg, read], or Torn
    lock,       \* the lock file: NoOne or [holder, old]
    exists,     \* the mailbox directory exists
    at,         \* at[p]: where p stands in _with_lock
    op,         \* op[p]: the message p writes, or "consume"
    tries,      \* tries[p]: attempts made
    buf,        \* buf[p]: the list p read and changed
    written,    \* messages some write was begun for
    taken,      \* history: messages consume marked read, in order
    forced      \* history: someone went on without the lock, or removed the lock
                \* of a living process, or died with the file half written

vars == <<inbox, lock, exists, at, op, tries, buf, written, taken, forced>>

Places == {"out", "try", "break", "read", "write", "fill", "unlock"}
Entry == [msg : Messages, read : BOOLEAN]

TypeOK ==
    /\ inbox = Torn \/ inbox \in Seq(Entry)
    /\ lock = NoOne \/ lock \in [holder : Procs, old : BOOLEAN]
    /\ at \in [Procs -> Places] /\ op \in [Procs -> Messages \cup {"consume"}]
    /\ tries \in [Procs -> 0..MAX_ATTEMPTS]
    /\ \A p \in Procs : buf[p] \in Seq(Entry)
    /\ written \subseteq Messages /\ taken \in Seq(Messages)
    /\ exists \in BOOLEAN /\ forced \in BOOLEAN

Init ==
    /\ inbox = <<>> /\ lock = NoOne /\ exists = TRUE
    /\ at = [p \in Procs |-> "out"] /\ op = [p \in Procs |-> "consume"]
    /\ tries = [p \in Procs |-> 0] /\ buf = [p \in Procs |-> <<>>]
    /\ written = {} /\ taken = <<>> /\ forced = FALSE

Go(p, place) == at' = [at EXCEPT ![p] = place]
Inside(p) == at[p] \in {"read", "write", "fill", "unlock"}

-----------------------------------------------------------------------------
(* The operations; a broadcast is a write to one inbox after the other.    *)

Write(p) ==
    \E m \in Messages \ written :
        /\ op' = [op EXCEPT ![p] = m] /\ written' = written \cup {m}

Consume(p) == op' = [op EXCEPT ![p] = "consume"] /\ UNCHANGED written

Begin(p) ==
    /\ at[p] = "out" /\ Go(p, "try") /\ tries' = [tries EXCEPT ![p] = 0]
    /\ Write(p) \/ Consume(p)
    /\ UNCHANGED <<inbox, lock, exists, buf, taken, forced>>

(* The loop of consume over the list: the messages not read, in order.     *)
Unread(list) ==
    LET upto[n \in 0..Len(list)] ==
            IF n = 0 THEN <<>>
            ELSE IF list[n].read THEN upto[n - 1] ELSE Append(upto[n - 1], list[n].msg)
    IN  upto[Len(list)]

(* What fn makes of the list.                                              *)
Changed(list, o) ==
    IF o = "consume" THEN [i \in DOMAIN list |-> [list[i] EXCEPT !.read = TRUE]]
                     ELSE Append(list, [msg |-> o, read |-> FALSE])

-----------------------------------------------------------------------------
(* The lock file.                                                          *)

(* Faulty variant: the lock is opened without O_EXCL.                      *)
OpensAlways(p) == TRUE

MayLock(p) == lock = NoOne

(* os.open; an OSError other than "exists" is raised to the caller.        *)
Acquire(p) ==
    /\ at[p] = "try" /\ tries[p] < MAX_ATTEMPTS /\ exists /\ MayLock(p)
    /\ lock' = [holder |-> p, old |-> FALSE] /\ Go(p, "read")
    /\ UNCHANGED <<inbox, exists, op, tries, buf, written, taken, forced>>

LockFails(p) ==
    /\ at[p] = "try" /\ tries[p] < MAX_ATTEMPTS /\ ~exists /\ Go(p, "out")
    /\ UNCHANGED <<inbox, lock, exists, op, tries, buf, written, taken, forced>>

(* The lock is there: look how old it is, then sleep.                      *)
Busy(p) ==
    /\ at[p] = "try" /\ tries[p] < MAX_ATTEMPTS /\ exists /\ lock # NoOne
    /\ tries' = [tries EXCEPT ![p] = @ + 1]
    /\ Go(p, IF lock.old THEN "break" ELSE "try")
    /\ UNCHANGED <<inbox, lock, exists, op, buf, written, taken, forced>>

(* The unlink removes the lock that is there now, not the one looked at.   *)
BreakLock(p) ==
    /\ at[p] = "break" /\ lock' = NoOne /\ Go(p, "try")
    /\ forced' = (forced \/ (lock # NoOne /\ Inside(lock.holder)))
    /\ UNCHANGED <<inbox, exists, op, tries, buf, written, taken>>

(* After the last attempt it goes on without the lock.                     *)
GiveUp(p) ==
    /\ at[p] = "try" /\ tries[p] = MAX_ATTEMPTS /\ Go(p, "read") /\ forced' = TRUE
    /\ UNCHANGED <<inbox, lock, exists, op, tries, buf, written, taken>>

(* Ten seconds pass.                                                       *)
Ages ==
    /\ lock # NoOne /\ lock' = [lock EXCEPT !.old = TRUE]
    /\ UNCHANGED <<inbox, exists, at, op, tries, buf, written, taken, forced>>

-----------------------------------------------------------------------------
(* Inside: read, change, write.                                            *)

(* A file that is no JSON array counts as empty.                           *)
Read(p) ==
    /\ at[p] = "read" /\ Go(p, "write")
    /\ buf' = [buf EXCEPT ![p] = IF inbox = Torn THEN <<>> ELSE inbox]
    /\ UNCHANGED <<inbox, lock, exists, op, tries, written, taken, forced>>

(* Half of a UTF-8 character is no JSON error and is raised.               *)
ReadFails(p) ==
    /\ at[p] = "read" /\ inbox = Torn /\ Go(p, "unlock")
    /\ UNCHANGED <<inbox, lock, exists, op, tries, buf, written, taken, forced>>

(* write_text truncates the file ...                                       *)
Truncate(p) ==
    /\ at[p] = "write" /\ exists /\ Go(p, "fill") /\ inbox' = Torn
    /\ buf' = [buf EXCEPT ![p] = Changed(buf[p], op[p])]
    /\ taken' = IF op[p] = "consume" THEN taken \o Unread(buf[p]) ELSE taken
    /\ UNCHANGED <<lock, exists, op, tries, written, forced>>

WriteFails(p) ==
    /\ at[p] = "write" /\ ~exists /\ Go(p, "unlock")
    /\ UNCHANGED <<inbox, lock, exists, op, tries, buf, written, taken, forced>>

(* ... and fills it; the directory may have gone meanwhile.                *)
Fill(p) ==
    /\ at[p] = "fill" /\ Go(p, "unlock") /\ inbox' = IF exists THEN buf[p] ELSE inbox
    /\ UNCHANGED <<lock, exists, op, tries, buf, written, taken, forced>>

(* The finally clause removes the lock file, whoever made it.              *)
Unlock(p) ==
    /\ at[p] = "unlock" /\ Go(p, "out") /\ lock' = NoOne
    /\ UNCHANGED <<inbox, exists, op, tries, buf, written, taken, forced>>

-----------------------------------------------------------------------------
(* A process dies and another takes its place; delete_team removes the     *)
(* inboxes, the locks and the directory.                                   *)

Dies(p) ==
    /\ at[p] # "out" /\ Go(p, "out")
    /\ forced' = (forced \/ at[p] = "fill")
    /\ UNCHANGED <<inbox, lock, exists, op, tries, buf, written, taken>>

CleanupAll ==
    /\ exists /\ exists' = FALSE /\ lock' = NoOne /\ inbox' = <<>>
    /\ UNCHANGED <<at, op, tries, buf, written, taken, forced>>

Next ==
    \/ Ages \/ CleanupAll
    \/ \E p \in Procs :
        \/ Begin(p) \/ Acquire(p) \/ LockFails(p) \/ Busy(p) \/ BreakLock(p) \/ GiveUp(p)
        \/ Read(p) \/ ReadFails(p) \/ Truncate(p) \/ WriteFails(p) \/ Fill(p) \/ Unlock(p)
        \/ Dies(p)

Spec == Init /\ [][Next]_vars

-----------------------------------------------------------------------------
(* The inbox it implements.                                                *)

Filling == \E p \in Procs : at[p] = "fill"
Waiting ==
    IF ~exists THEN <<>>
    ELSE IF Filling THEN Unread(buf[CHOOSE p \in Procs : at[p] = "fill"])
    ELSE IF inbox = Torn THEN <<>> ELSE Unread(inbox)

Promise == INSTANCE Inbox WITH unread <- Waiting, broken <- forced

(* mailbox.py: a message written to an inbox is consumed once and in       *)
(* order, with any number of processes, crashes while they wait for or     *)
(* hold the lock, and lock files left behind, as long as nobody ran out of *)
(* patience, no lock of a living process was taken for stale, and no       *)
(* process died between truncating and filling the file.                   *)
KeepsPromise == Promise!Spec
=============================================================================
