--------------------------- MODULE Consolidation ---------------------------
(***************************************************************************)
(* MemoryConsolidator (src/myclaude/memory/consolidation.py): once a day   *)
(* one of the processes of a project tidies the memory files.  The lock    *)
(* file is both the lock (its content is the holder's process id) and the  *)
(* time of the last run (its modification time).  Every system call is a   *)
(* step; processes may die between any two.                                *)
(***************************************************************************)
EXTENDS Naturals, FiniteSets

CONSTANTS Procs, NoOne,
          MaxLocks      \* bound: lock files made

VARIABLES
    lock,       \* the file: [id, pid, age], with id 0 when there is none
    made,       \* lock files made so far
    pc,         \* process -> where it is in maybe_run
    looked,     \* process -> the lock it looked at
    prior,      \* process -> whether there was a lock before its own
    dead,       \* processes that died
    mixed       \* a lock was removed that its remover had not found stale

vars == <<lock, made, pc, looked, prior, dead, mixed>>

Missing == [id |-> 0, pid |-> NoOne, age |-> "day"]

TypeOK ==
    /\ lock \in [id : 0..MaxLocks, pid : Procs \cup {NoOne}, age : {"fresh", "hour", "day"}]
    /\ made \in 0..MaxLocks
    /\ pc \in [Procs -> {"idle", "due", "stale", "clear", "created", "written", "running"}]
    /\ looked \in [Procs -> 0..MaxLocks] /\ prior \in [Procs -> BOOLEAN]
    /\ dead \subseteq Procs /\ mixed \in BOOLEAN

Init ==
    /\ lock = Missing /\ made = 0
    /\ pc = [p \in Procs |-> "idle"] /\ looked = [p \in Procs |-> 0]
    /\ prior = [p \in Procs |-> FALSE] /\ dead = {} /\ mixed = FALSE

At(p, here, there) == pc[p] = here /\ p \notin dead /\ pc' = [pc EXCEPT ![p] = there]

\* maybe_run: a day since the last run, not scanned lately, enough sessions.
Due(p) ==
    /\ At(p, "idle", "due") /\ lock.age = "day"
    /\ UNCHANGED <<lock, made, looked, prior, dead, mixed>>

\* No lock is respected.
HeldByNobody == FALSE

\* Asked of the operating system: a process that is gone, or a pid that names none, is not.
IsProcessRunning(pid) == pid # NoOne /\ pid \notin dead

\* _try_acquire_lock: a lock of the last hour is respected when its process is running.
Held == lock.id # 0 /\ lock.age = "fresh" /\ IsProcessRunning(lock.pid)

Look(p) ==
    /\ \/ Held /\ At(p, "due", "idle") /\ UNCHANGED <<looked, prior, mixed>>
       \/ /\ ~Held /\ At(p, "due", IF lock.id = 0 THEN "clear" ELSE "stale")
          /\ looked' = [looked EXCEPT ![p] = lock.id]
          /\ prior' = [prior EXCEPT ![p] = lock.id # 0]
          \* made, and its process id not written yet: taken for nobody's
          /\ mixed' = (mixed \/ (lock.id # 0 /\ lock.age = "fresh" /\ lock.pid = NoOne))
    /\ UNCHANGED <<lock, made, dead>>

\* The old lock is removed, whichever it is by now.
Unlink(p) ==
    /\ \/ lock.id = 0 /\ At(p, "stale", "idle") /\ UNCHANGED mixed
       \/ lock.id # 0 /\ At(p, "stale", "clear") /\ mixed' = (mixed \/ lock.id # looked[p])
    /\ lock' = Missing
    /\ UNCHANGED <<made, looked, prior, dead>>

\* O_CREAT | O_EXCL.
CanCreate == lock.id = 0

Create(p) ==
    /\ made < MaxLocks
    /\ \/ /\ CanCreate /\ At(p, "clear", "created")
          /\ made' = made + 1 /\ lock' = [id |-> made + 1, pid |-> NoOne, age |-> "fresh"]
          /\ looked' = [looked EXCEPT ![p] = made + 1]
       \/ ~CanCreate /\ At(p, "clear", "idle") /\ UNCHANGED <<made, lock, looked>>
    /\ UNCHANGED <<prior, dead, mixed>>

\* The process id goes into the file that was created, which may be gone.
WritePid(p) ==
    /\ At(p, "created", "written")
    /\ lock' = IF lock.id = looked[p] THEN [lock EXCEPT !.pid = p] ELSE lock
    /\ UNCHANGED <<made, looked, prior, dead, mixed>>

\* Read back: another process's id, or none, means the lock went to somebody else.
Verify(p) ==
    /\ IF lock.pid = p THEN At(p, "written", "running") ELSE At(p, "written", "idle")
    /\ UNCHANGED <<lock, made, looked, prior, dead, mixed>>

\* The sub-agent is through; the lock's time is that of this run.
Succeed(p) ==
    /\ At(p, "running", "idle")
    /\ UNCHANGED <<lock, made, looked, prior, dead, mixed>>

\* Failed or cancelled: _rollback_lock gives the path its earlier time, or removes it,
\* whosever lock is there.
Fail(p) ==
    /\ At(p, "running", "idle")
    /\ lock' = IF prior[p] THEN [lock EXCEPT !.id = IF @ = 0 THEN looked[p] ELSE @,
                                             !.pid = NoOne, !.age = "day"]
                           ELSE Missing
    /\ UNCHANGED <<made, looked, prior, dead, mixed>>

Die(p) ==
    /\ p \notin dead /\ dead' = dead \cup {p}
    /\ pc' = [pc EXCEPT ![p] = "idle"]
    /\ UNCHANGED <<lock, made, looked, prior, mixed>>

\* Time: a run is taken to last less than a day, and an attempt to lock less than an hour.
Age ==
    /\ lock.id # 0 /\ lock.age # "day"
    /\ \A p \in Procs : pc[p] \in {"idle", "running"}
    /\ lock.age = "hour" => \A p \in Procs : pc[p] # "running"
    /\ lock' = [lock EXCEPT !.age = IF @ = "fresh" THEN "hour" ELSE "day"]
    /\ UNCHANGED <<made, pc, looked, prior, dead, mixed>>

Next ==
    \/ \E p \in Procs :
        \/ Due(p) \/ Look(p) \/ Unlink(p) \/ Create(p) \/ WritePid(p) \/ Verify(p)
        \/ Succeed(p) \/ Fail(p) \/ Die(p)
    \/ Age

Spec == Init /\ [][Next]_vars

-----------------------------------------------------------------------------
(* Two processes tidy the memory at once only after one removed a lock     *)
(* other than the stale one it had looked at, or had not waited for a new  *)
(* lock's process id.                                                      *)
OneDreams == ~mixed => Cardinality({p \in Procs : pc[p] = "running"}) <= 1
=============================================================================
