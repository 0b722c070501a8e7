------------------------------ MODULE Workspace ------------------------------
(***************************************************************************)
(* What a run leaves behind it - files, checkpoints, worktrees, processes, *)
(* rules, memories, skills, the conversation's own files - and what works  *)
(* beside it, for TLC.  These parts meet only at calls that each module    *)
(* models from its own side, so the instance explores their sum: focus is  *)
(* chosen at the start and the others stay in their initial states.        *)
(***************************************************************************)
EXTENDS Integers, FiniteSets, Sequences

CONSTANTS Paths, MaxStamp, MaxWrites, MaxVersions, MaxTurns, MAX_SNAPSHOTS,
          Names, Ephemeral, Root, MaxCommits,
          Procs, NoOne, MaxLocks, MaxSaid,
          Ids, Roots, Nowhere, Calls, MaxRules,
          MaxMade, MaxUpdates, MaxShown, MaxFailures,
          Memories, MaxAsked, Agents, MaxServers, MaxHooks,
          MaxInstalls, Texts, NoSkill

ASSUME WorkspaceAssumption ==
    /\ Root \notin Names /\ MaxCommits \in Nat
    /\ NoOne \notin Procs
    /\ MaxHooks \in Nat /\ MaxInstalls \in Nat
    /\ {MaxServers, MAX_SNAPSHOTS} \subseteq Nat \ {0}

VARIABLES
    focus,
    disk, stamp, cache, texts, text, op, seen, unseen, raced, slipped,
    content, writes, open, was, backups, snaps, transcript, turns,
    tree, branch, dirty, commits, active, session, saved, workDir, removing, running, team, lost,
    excused, strayed,
    lock, locks, pc, looked, prior, dead, mixed,
    hist, said, mark, current, extracting, pending, read, memories, index, changed, marked,
    passed, skipped,
    root, bashRoot, agentDir, call, alive, tasks, held, watched, stopping, records, moved,
    tried, rules, broken, allowed, asking, saving, always, overwritten, again,
    conv, made, spills, replaced, judged, ledger, injected, failures, phase, auto, manual,
    overlapped, untold,
    asked, answering, recall, present, early, typed, told,
    servers, up, stack, mcp, live, managed, using, mine, excuses,
    kind, executed, twice, doubled, at, todo, firing, owed, heard,
    dir, place, own, entry, noticed, catalog, torn, unlisted,
    inForce, granted, shown, hint, results, here, inRun, summary, since, carried, elsewhere

files == <<disk, stamp, cache, texts, text, op, seen, unseen, raced, slipped>>
checkpoints == <<content, writes, open, was, backups, snaps, transcript, turns>>
worktrees == <<tree, branch, dirty, commits, active, session, saved, workDir, removing, running,
               team, lost, excused, strayed>>
memory == <<lock, locks, pc, looked, prior, dead, mixed>>
extraction == <<hist, said, mark, current, extracting, pending, read, memories, index, changed,
                marked, passed, skipped>>
processes == <<root, bashRoot, agentDir, call, alive, tasks, held, watched, stopping, records,
               moved>>
permissions == <<tried, rules, broken, allowed, asking, saving, always, overwritten, again>>
context == <<conv, made, spills, replaced, judged, ledger, injected, failures, phase, auto,
             manual, overlapped, untold>>
recalled == <<asked, answering, recall, present, early, typed, told>>
connections == <<servers, up, stack, mcp, live, managed, using, mine, excuses>>
hooks == <<kind, executed, twice, doubled, at, todo, firing, owed, heard>>
installed == <<dir, place, own, entry, noticed, catalog, torn, unlisted>>
skills == <<inForce, granted, shown, hint, results, here, inRun, summary, since, carried,
            elsewhere>>

F == INSTANCE FileTools
H == INSTANCE FileHistory WITH disk <- content, made <- writes, files <- backups,
                               hist <- transcript, said <- turns, MaxMade <- MaxWrites,
                               MaxSaid <- MaxTurns
W == INSTANCE Worktrees
M == INSTANCE Consolidation WITH made <- locks
E == INSTANCE Extraction
P == INSTANCE Processes WITH workDir <- agentDir, files <- records
R == INSTANCE Permissions WITH session <- allowed, lost <- overwritten
C == INSTANCE Context WITH files <- spills, seen <- judged
Q == INSTANCE Recall WITH phase <- answering, task <- recall, files <- present
S == INSTANCE Servers WITH made <- servers, session <- mcp, alive <- live, at <- using,
                           excused <- excuses
K == INSTANCE Hooks WITH Callers <- Agents, again <- twice
I == INSTANCE Skills
A == INSTANCE ActiveSkills WITH active <- inForce, untold <- elsewhere

(* What is not looked at starts in one state.                              *)
Quiet == /\ focus # "processes" => agentDir = CHOOSE r \in Roots : TRUE
         /\ focus # "permissions" => tried = CHOOSE c \in Calls : TRUE
         /\ focus # "hooks" => kind = CHOOSE k \in [K!Ordinal -> K!Accepted] : TRUE

Init ==
    /\ focus \in {"files", "checkpoints", "worktrees", "memory", "extraction", "processes",
                  "permissions", "context", "recall", "servers", "hooks", "installed", "skills"}
    /\ F!Init /\ H!Init /\ W!Init /\ M!Init /\ E!Init /\ P!Init /\ R!Init /\ C!Init
    /\ Q!Init /\ S!Init /\ K!Init /\ I!Init /\ A!Init /\ Quiet

Next ==
    /\ UNCHANGED focus
    /\ focus # "files" => UNCHANGED files
    /\ focus # "checkpoints" => UNCHANGED checkpoints
    /\ focus # "worktrees" => UNCHANGED worktrees
    /\ focus # "memory" => UNCHANGED memory
    /\ focus # "extraction" => UNCHANGED extraction
    /\ focus # "processes" => UNCHANGED processes
    /\ focus # "permissions" => UNCHANGED permissions
    /\ focus # "context" => UNCHANGED context
    /\ focus # "recall" => UNCHANGED recalled
    /\ focus # "servers" => UNCHANGED connections
    /\ focus # "hooks" => UNCHANGED hooks
    /\ focus # "installed" => UNCHANGED installed
    /\ focus # "skills" => UNCHANGED skills
    /\ \/ focus = "files" /\ F!Next
       \/ focus = "checkpoints" /\ H!Next
       \/ focus = "worktrees" /\ W!Next
       \/ focus = "memory" /\ M!Next
       \/ focus = "extraction" /\ E!Next
       \/ focus = "processes" /\ P!Next
       \/ focus = "permissions" /\ R!Next
       \/ focus = "context" /\ C!Next
       \/ focus = "recall" /\ Q!Next
       \/ focus = "servers" /\ S!Next
       \/ focus = "hooks" /\ K!Next
       \/ focus = "installed" /\ I!Next
       \/ focus = "skills" /\ A!Next

vars == <<files, checkpoints, worktrees, memory, extraction, processes, permissions, context,
          recalled, connections, hooks, installed, skills>>

Spec == Init /\ [][Next]_<<focus, vars>>

-----------------------------------------------------------------------------
(* Bound: what follows a command that met a run is not followed.           *)
Alone == C!Alone

(* edit_file.py, write_file.py, delete_file.py, file_state_cache.py: a     *)
(* tool destroys no content the tools have not seen, and ReadFile shows    *)
(* what is there, but for what appeared between two of their steps.        *)
OverwritesSeen == F!OverwritesSeen

(* history.py: a checkpoint's backups and its place in the conversation    *)
(* stay good through later changes, rewinds, trimming and clean-up.        *)
CheckpointsIntact == H!CheckpointsIntact

(* manager.py, cleanup.py of worktree/: no work is destroyed that nobody   *)
(* gave up, and the agent's directory is there.                            *)
WorktreesSafe == W!WorkSurvives /\ W!WorkDirExists

(* consolidation.py, auto_memory.py, recall.py: one process tidies the     *)
(* memory at a time, no message is passed over by the extraction of        *)
(* memories, and memories are told in the run they were picked for.        *)
MemorySafe == M!OneDreams /\ E!NothingSkipped /\ Q!RecallFits

(* process_manager.py, mcp/: background commands are listed, recorded and  *)
(* stoppable as what they are, and servers that run can be ended.          *)
ProcessesKept == P!ProcessesKept /\ S!ServersHeld

(* checker.py, rules.py, hooks/: "always" is for always, a hook's refusal  *)
(* holds, and hooks for once run once.                                     *)
AnswersKept == R!AnswersKept /\ K!HooksKept

(* context/, skills/: what the conversation refers to is there, and the    *)
(* ledger, the skills that are installed and the skills that are active    *)
(* are told.                                                               *)
ContextKept == C!ContextKept /\ I!InstalledWhole /\ A!SkillsKept
==============================================================================
