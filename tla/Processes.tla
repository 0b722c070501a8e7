----------------------------- MODULE Processes -----------------------------
(***************************************************************************)
(* Shell commands that outlive their call (src/myclaude/tools/             *)
(* process_manager.py, bash.py, bash_tasks.py).  One manager keeps the     *)
(* tasks of one root in memory and writes them to that root's tasks.json   *)
(* at every change.  Bash configures it with the directory it first ran    *)
(* in, BashOutput and BashStop with the directory the agent is in now;     *)
(* configuring another root loads that root's file in place of the tasks   *)
(* in memory, whose processes and watchers go on.                          *)
(***************************************************************************)
EXTENDS Naturals, FiniteSets

CONSTANTS
    Ids,        \* bound: commands
    Roots,      \* the project and its worktrees
    Nowhere     \* no root configured yet

VARIABLES
    root,       \* ProcessManager._root
    bashRoot,   \* Bash._project_root
    workDir,    \* the agent's directory, which BashOutput and BashStop use
    call,       \* call[i]: "new", "waited" for in the foreground, "kept" as a task or "over"
    alive,      \* the processes running
    tasks,      \* tasks[i]: the status in memory, or "absent"
    held,       \* the tasks in memory that have a process to stop
    watched,    \* the tasks with a watcher
    stopping,   \* the tasks a BashStop waits for
    files,      \* files[r][i]: the status in the tasks.json of r
    moved       \* the root has changed while tasks were watched

vars == <<root, bashRoot, workDir, call, alive, tasks, held, watched, stopping, files, moved>>

Final == {"completed", "failed", "stopped"}
Status == {"absent", "running", "detached"} \cup Final

TypeOK ==
    /\ root \in Roots \cup {Nowhere} /\ bashRoot \in Roots \cup {Nowhere} /\ workDir \in Roots
    /\ call \in [Ids -> {"new", "waited", "kept", "over"}]
    /\ \A s \in {alive, held, watched, stopping} : s \subseteq Ids
    /\ tasks \in [Ids -> Status] /\ files \in [Roots -> [Ids -> Status]] /\ moved \in BOOLEAN

Init ==
    /\ root = Nowhere /\ bashRoot = Nowhere /\ workDir \in Roots
    /\ call = [i \in Ids |-> "new"] /\ tasks = [i \in Ids |-> "absent"]
    /\ alive = {} /\ held = {} /\ watched = {} /\ stopping = {}
    /\ files = [r \in Roots |-> tasks] /\ moved = FALSE

\* The root in use is loaded again.
MovesAlways(r) == TRUE

\* configure: nothing to do for the root in use.
Moves(r) == root # r

\* _load_metadata: a task that ran is no longer this process's.
Loaded(file) == [i \in Ids |-> IF file[i] = "running" THEN "detached" ELSE file[i]]

Configure(r) ==
    /\ root' = r
    /\ tasks' = IF Moves(r) THEN Loaded(files[r]) ELSE tasks
    /\ held' = IF Moves(r) THEN {} ELSE held
    /\ moved' = (moved \/ (root # r /\ watched # {}))

\* _persist, into the root configured last.
Persisted(t) == files' = [files EXCEPT ![root] = t]

\* Bash starts a command; it waits for the process before it knows whether to keep it.
BashDir == IF bashRoot = Nowhere THEN workDir ELSE bashRoot

Start(i) ==
    /\ call[i] = "new"
    /\ bashRoot' = BashDir /\ Configure(BashDir)
    /\ call' = [call EXCEPT ![i] = "waited"] /\ alive' = alive \cup {i}
    /\ UNCHANGED <<workDir, watched, stopping, files>>

\* adopt: at once for a background command, else when its time is up.
Adopt(i) ==
    /\ call[i] = "waited"
    /\ call' = [call EXCEPT ![i] = "kept"]
    /\ tasks' = [tasks EXCEPT ![i] = "running"] /\ Persisted(tasks')
    /\ held' = held \cup {i} /\ watched' = watched \cup {i}
    /\ UNCHANGED <<root, bashRoot, workDir, alive, stopping, moved>>

\* The command ended in time, or the call was cancelled and its process group terminated.
Finish(i) ==
    /\ call[i] = "waited"
    /\ call' = [call EXCEPT ![i] = "over"] /\ alive' = alive \ {i}
    /\ UNCHANGED <<root, bashRoot, workDir, tasks, held, watched, stopping, files, moved>>

Ends(i) ==
    /\ call[i] = "kept" /\ i \in alive /\ alive' = alive \ {i}
    /\ UNCHANGED <<root, bashRoot, workDir, call, tasks, held, watched, stopping, files, moved>>

\* _watch: the status goes to the object the watcher has, listed or not.
Watch(i) ==
    /\ i \in watched \ alive
    /\ watched' = watched \ {i}
    /\ \E s \in {"completed", "failed"} :
        tasks' = IF i \in held THEN [tasks EXCEPT ![i] = s] ELSE tasks
    /\ Persisted(tasks')
    /\ UNCHANGED <<root, bashRoot, workDir, call, alive, held, stopping, moved>>

\* BashOutput lists or reads.
Output ==
    /\ Configure(workDir)
    /\ UNCHANGED <<bashRoot, workDir, call, alive, watched, stopping, files>>

\* BashStop: a task of another process, or one that ended, is refused.
CanStop(i) == i \in held' /\ tasks'[i] = "running"

Stop(i) ==
    /\ Configure(workDir)
    /\ stopping' = IF CanStop(i) THEN stopping \cup {i} ELSE stopping
    /\ UNCHANGED <<bashRoot, workDir, call, alive, watched, files>>

Killed(i) ==
    /\ i \in stopping /\ i \in alive /\ alive' = alive \ {i}
    /\ UNCHANGED <<root, bashRoot, workDir, call, tasks, held, watched, stopping, files, moved>>

\* The process is dead and its watcher through; the deadline of the run may cut the wait short.
Stopped(i) ==
    /\ i \in stopping \ watched /\ stopping' = stopping \ {i}
    /\ tasks' = IF i \in held THEN [tasks EXCEPT ![i] = "stopped"] ELSE tasks
    /\ Persisted(tasks')
    /\ UNCHANGED <<root, bashRoot, workDir, call, alive, held, watched, moved>>

StopCut(i) ==
    /\ i \in stopping /\ stopping' = stopping \ {i}
    /\ UNCHANGED <<root, bashRoot, workDir, call, alive, tasks, held, watched, files, moved>>

\* EnterWorktree, ExitWorktree, /worktree and a sub-agent with a worktree, whose tools share
\* the manager.
ChangeDir(r) ==
    /\ r # workDir /\ workDir' = r
    /\ UNCHANGED <<root, bashRoot, call, alive, tasks, held, watched, stopping, files, moved>>

\* The program ends or dies, and starts again: background processes survive it.
Restart ==
    /\ root # Nowhere
    /\ root' = Nowhere /\ bashRoot' = Nowhere /\ workDir' \in Roots
    /\ call' = [i \in Ids |-> IF call[i] = "waited" THEN "over" ELSE call[i]]
    /\ \E dead \in SUBSET {i \in Ids : call[i] = "waited"} : alive' = alive \ dead
    /\ tasks' = [i \in Ids |-> "absent"] /\ held' = {} /\ watched' = {} /\ stopping' = {}
    /\ moved' = FALSE
    /\ UNCHANGED files

Next ==
    \/ \E i \in Ids :
        \/ Start(i) \/ Adopt(i) \/ Finish(i) \/ Ends(i) \/ Watch(i)
        \/ Stop(i) \/ Killed(i) \/ Stopped(i) \/ StopCut(i)
    \/ Output \/ Restart
    \/ \E r \in Roots : ChangeDir(r)

Spec == Init /\ [][Next]_vars

-----------------------------------------------------------------------------
(* A command reported over has ended, in memory and in every file.         *)
StatusTrue ==
    \A i \in Ids :
        (tasks[i] \in Final \/ \E r \in Roots : files[r][i] \in Final) => i \notin alive

(* What is watched can be stopped.                                         *)
Stoppable == \A i \in watched : i \in held /\ tasks[i] = "running"

(* The file says what memory says, but for tasks of an earlier process.    *)
FileCurrent ==
    root # Nowhere =>
        \A i \in Ids : \/ files[root][i] = tasks[i]
                       \/ files[root][i] = "running" /\ tasks[i] = "detached"

(* A background command is listed, stoppable and recorded as what it is,   *)
(* as long as no other root was configured while one was watched; what is  *)
(* recorded as over is over even then.                                     *)
ProcessesKept == StatusTrue /\ FileCurrent /\ (moved \/ Stoppable)
=============================================================================
