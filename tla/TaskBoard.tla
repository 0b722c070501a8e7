----------------------------- MODULE TaskBoard -----------------------------
(***************************************************************************)
(* The shared tasks of a team: src/myclaude/teams/shared_task.py.          *)
(*                                                                         *)
(* A process keeps one store for each spelling of the team's name its      *)
(* tools were given, all over the same file, and another process has       *)
(* stores of its own.  An update loads, changes and rewrites the whole     *)
(* file, a creation does not even load; nothing is locked, but no          *)
(* operation awaits anything: one process runs them one after the other.   *)
(***************************************************************************)
EXTENDS Naturals, FiniteSets

CONSTANTS
    Procs,      \* processes that use the team
    Spellings,  \* of the team's name
    Slug,       \* the one create_team chooses
    MaxMade,    \* bound: tasks ever created
    NoFile,     \* tasks.json does not exist
    Torn        \* it was truncated and not yet filled

(* A store is told by its process and the spelling it is kept under.       *)
Stores == Procs \X Spellings

VARIABLES
    file,       \* tasks.json: NoFile, Torn or a board
    mem,        \* mem[x]: _next_id and _tasks of store x
    opened,     \* stores that exist
    at,         \* at[x]: "out", "named", "loaded" or "fill"
    target,     \* target[x]: the task the update of x changes
    seen,       \* seen[x]: the file as x loaded it for its update
    made,       \* tasks created so far; they are numbered
    users,      \* history: stores that existed
    lost        \* history: kinds of operations that saved over what they had not read

vars == <<file, mem, opened, at, target, seen, made, users, lost>>

Empty == [next |-> 1, tasks |-> <<>>]
Ids == 1..MaxMade
Task == [made : Ids, done : BOOLEAN]

Store == [next : 1..MaxMade + 1, tasks : UNION {[ids -> Task] : ids \in SUBSET Ids}]

TypeOK ==
    /\ file \in {NoFile, Torn} \cup Store /\ mem \in [Stores -> Store]
    /\ opened \subseteq Stores /\ target \in [Stores -> Ids] /\ made \in 0..MaxMade
    /\ at \in [Stores -> {"out", "named", "loaded", "fill"}]
    /\ lost \subseteq {"init", "create", "race", "update"}

Init ==
    /\ file = NoFile /\ mem = [x \in Stores |-> Empty] /\ opened = {}
    /\ at = [x \in Stores |-> "out"] /\ target = [x \in Stores |-> 1]
    /\ seen = [x \in Stores |-> NoFile] /\ made = 0 /\ lost = {}
    /\ users = {}

Of(p) == {x \in Stores : x[1] = p}

(* No operation of the process is going on.                                *)
Idle(x) == \A y \in Of(x[1]) : at[y] = "out"

Go(x, place) == at' = [at EXCEPT ![x] = place]

-----------------------------------------------------------------------------
(* _load keeps what is in memory and puts the file over it.                *)

Merged(s) ==
    IF file = NoFile THEN s
    ELSE [next |-> file.next,
          tasks |-> [i \in DOMAIN file.tasks \cup DOMAIN s.tasks |->
                        IF i \in DOMAIN file.tasks THEN file.tasks[i] ELSE s.tasks[i]]]

(* A torn file raises; the caller gets the error.                          *)
Loads(x) == file # Torn /\ mem' = [mem EXCEPT ![x] = Merged(@)]

(* _save of the store s truncates tasks.json; Fill writes it.  What the    *)
(* file held, but for the task that is meant, and s does not, is lost.     *)
Overwritten(s, but) ==
    IF file \in {NoFile, Torn} THEN {}
    ELSE {i \in DOMAIN file.tasks \ but :
              i \notin DOMAIN s.tasks \/ s.tasks[i] # file.tasks[i]}

Save(x, s, but, kind) ==
    /\ mem' = [mem EXCEPT ![x] = s] /\ file' = Torn /\ Go(x, "fill")
    /\ lost' = IF Overwritten(s, but) = {} THEN lost ELSE lost \cup {kind}

Fill(x) ==
    /\ at[x] = "fill" /\ file' = mem[x] /\ Go(x, "out")
    /\ UNCHANGED <<mem, opened, target, seen, made, users, lost>>

-----------------------------------------------------------------------------
(* TeamManager.create_team and get_task_store.                             *)

(* unique_team_name finds no directory of the name ...                     *)
NameTeam(x) ==
    /\ Idle(x) /\ x[2] = Slug /\ file = NoFile /\ Go(x, "named")
    /\ UNCHANGED <<file, mem, opened, target, seen, made, users, lost>>

(* ... and init_empty writes an empty board; the new store takes the place *)
(* of one the process may still hold under that name.                      *)
InitEmpty(x) ==
    /\ at[x] = "named" /\ opened' = opened \cup {x} /\ users' = users \cup {x}
    /\ Save(x, Empty, {}, "init")
    /\ UNCHANGED <<target, seen, made>>

Open(x) ==
    /\ Idle(x) /\ x \notin opened /\ file # NoFile /\ Loads(x)
    /\ opened' = opened \cup {x} /\ users' = users \cup {x}
    /\ UNCHANGED <<file, at, target, seen, made, lost>>

-----------------------------------------------------------------------------
(* TaskCreate, TaskGet and TaskList, TaskUpdate.                           *)

Ready(x) == Idle(x) /\ x \in opened

With(s) ==
    [next |-> s.next + 1,
     tasks |-> [i \in DOMAIN s.tasks \cup {s.next} |->
                   IF i = s.next THEN [made |-> made + 1, done |-> FALSE] ELSE s.tasks[i]]]

Create(x) ==
    /\ Ready(x) /\ made < MaxMade /\ mem[x].next <= MaxMade /\ made' = made + 1
    /\ Save(x, With(mem[x]), {}, "create")
    /\ UNCHANGED <<opened, users, target, seen>>

GetOrList(x) ==
    /\ Ready(x) /\ Loads(x)
    /\ UNCHANGED <<file, opened, at, target, seen, made, users, lost>>

(* Faulty variant: the update trusts its memory.                           *)
NoLoad(x) == mem' = mem

UpdateLoads(x) == Loads(x)

Update(x) ==
    /\ Ready(x) /\ UpdateLoads(x) /\ target' \in [Stores -> Ids]
    /\ \A y \in Stores \ {x} : target'[y] = target[y]
    /\ seen' = [seen EXCEPT ![x] = file] /\ Go(x, "loaded")
    /\ UNCHANGED <<file, opened, made, users, lost>>

Forget(x) == target' = [target EXCEPT ![x] = 1] /\ seen' = [seen EXCEPT ![x] = NoFile]

Unknown(x) ==
    /\ at[x] = "loaded" /\ target[x] \notin DOMAIN mem[x].tasks /\ Go(x, "out") /\ Forget(x)
    /\ UNCHANGED <<file, mem, opened, made, users, lost>>

UpdateSaves(x) ==
    /\ at[x] = "loaded" /\ target[x] \in DOMAIN mem[x].tasks
    /\ \E done \in BOOLEAN :
          Save(x, [mem[x] EXCEPT !.tasks[target[x]].done = done], {target[x]},
               IF file = seen[x] THEN "update" ELSE "race")
    /\ Forget(x) /\ UNCHANGED <<opened, users, made>>

-----------------------------------------------------------------------------
(* The team is deleted under one spelling, and the store of that spelling  *)
(* is dropped; a process dies with all its stores, and may start again.    *)

Delete(x) ==
    /\ Ready(x) /\ file' = NoFile /\ opened' = opened \ {x}
    /\ mem' = [mem EXCEPT ![x] = Empty]
    /\ UNCHANGED <<at, target, seen, made, users, lost>>

Dies(p) ==
    /\ \E x \in Of(p) : x \in opened \/ at[x] # "out"
    /\ opened' = opened \ Of(p)
    /\ mem' = [x \in Stores |-> IF x \in Of(p) THEN Empty ELSE mem[x]]
    /\ at' = [x \in Stores |-> IF x \in Of(p) THEN "out" ELSE at[x]]
    /\ target' = [x \in Stores |-> IF x \in Of(p) THEN 1 ELSE target[x]]
    /\ seen' = [x \in Stores |-> IF x \in Of(p) THEN NoFile ELSE seen[x]]
    /\ UNCHANGED <<file, made, users, lost>>

Next ==
    \/ \E x \in Stores :
        \/ NameTeam(x) \/ InitEmpty(x) \/ Open(x) \/ Create(x) \/ GetOrList(x)
        \/ Update(x) \/ Unknown(x) \/ UpdateSaves(x) \/ Fill(x) \/ Delete(x)
    \/ \E p \in Procs : Dies(p)

Spec == Init /\ [][Next]_vars

-----------------------------------------------------------------------------
(* Properties.                                                             *)

(* shared_task.py: what one store wrote is lost only to a creation by      *)
(* another store that has not read it (and may hand out the same number    *)
(* again), be it another process or the same one under another spelling,   *)
(* to updates of two processes that overlap, and to two processes that     *)
(* create the team at once.  An update that runs alone loses nothing,      *)
(* whatever was deleted, opened or half written before, and a team used    *)
(* through one store loses nothing at all.                                 *)
LostOnlyToStale ==
    /\ lost \subseteq {"init", "create", "race"}
    /\ lost # {} => Cardinality(users) > 1
    /\ lost \cap {"init", "race"} # {} => Cardinality({x[1] : x \in users}) > 1
=============================================================================
