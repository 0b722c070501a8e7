----------------------------- MODULE Worktrees -----------------------------
(***************************************************************************)
(* Git worktrees: WorktreeManager with its saved session, the Enter and    *)
(* ExitWorktree tools, the /worktree command, the worktree a sub-agent or  *)
(* a teammate gets, and the periodic removal of old ones.                  *)
(*                                                                         *)
(* What is at stake is the work in a worktree: uncommitted changes live in *)
(* its directory, commits on its branch.  Removing a worktree is two steps *)
(* with a pause between them, the directory first, the branch then.  git   *)
(* is external: a command may fail, and a timeout raises.                  *)
(***************************************************************************)
EXTENDS Integers, FiniteSets

CONSTANTS Names,        \* worktrees
          Ephemeral,    \* those named for a sub-agent
          Root,         \* the repository's own directory
          MaxCommits    \* bound: commits on a worktree's branch

VARIABLES
    tree,       \* name -> "none", "here", or "switched": another branch is checked out
    branch,     \* names whose branch exists
    dirty,      \* names with uncommitted changes
    commits,    \* name -> commits on the branch since it was made
    active,     \* name -> the commits its recorded head includes, or NotActive
    session,    \* current_session, or Root
    saved,      \* the session file
    workDir,    \* agent.work_dir
    removing,   \* name -> who has removed its directory and not yet its branch, or "no"
    running,    \* names a sub-agent works in
    team,       \* names a teammate works in
    lost,       \* names whose work was destroyed
    excused,    \* names whose work somebody gave up, or that git misreported
    strayed     \* the agent was left in a directory that may be gone

vars == <<tree, branch, dirty, commits, active, session, saved, workDir, removing, running, team,
          lost, excused, strayed>>

NotActive == -1

TypeOK ==
    /\ tree \in [Names -> {"none", "here", "switched"}]
    /\ branch \subseteq Names /\ dirty \subseteq Names
    /\ commits \in [Names -> 0..MaxCommits] /\ active \in [Names -> -1..MaxCommits]
    /\ session \in Names \cup {Root} /\ saved \in Names \cup {Root}
    /\ workDir \in Names \cup {Root}
    /\ removing \in [Names -> {"no", "exit", "other"}] /\ running \subseteq Names /\ team \subseteq Names
    /\ lost \subseteq Names /\ excused \subseteq Names /\ strayed \in BOOLEAN

Init ==
    /\ tree = [n \in Names |-> "none"] /\ branch = {} /\ dirty = {}
    /\ commits = [n \in Names |-> 0] /\ active = [n \in Names |-> NotActive]
    /\ session = Root /\ saved = Root /\ workDir = Root
    /\ removing = [n \in Names |-> "no"] /\ running = {} /\ team = {}
    /\ lost = {} /\ excused = {} /\ strayed = FALSE

Known(n) == active[n] # NotActive
InTree(n) == tree[n] # "none"

-----------------------------------------------------------------------------
(* Creating and entering.                                                  *)

\* read_worktree_head_sha: what is checked out, its own commits counted.
HeadSha(n) == commits[n]

\* create: an existing directory on its own branch is taken over, with its present head;
\* one on another branch is removed by force first, and then git refuses the branch that is
\* still there.
Create(n) ==
    /\ ~Known(n)
    /\ \/ /\ tree[n] = "here"
          /\ active' = [active EXCEPT ![n] = HeadSha(n)]
          /\ UNCHANGED <<tree, branch, commits, dirty>>
       \/ /\ tree[n] = "none" /\ n \notin branch
          /\ tree' = [tree EXCEPT ![n] = "here"] /\ branch' = branch \cup {n}
          /\ active' = [active EXCEPT ![n] = 0] /\ commits' = [commits EXCEPT ![n] = 0]
          /\ dirty' = dirty \ {n}

\* enter: only a worktree the manager knows; whether it is there is not looked at.
Go(n) ==
    /\ session' = n /\ saved' = n /\ workDir' = n
    /\ strayed' = (tree'[n] = "none" \/ removing[n] # "no")

\* EnterWorktree outside a session, or /worktree create inside one too.
Enter(n) ==
    /\ Create(n) /\ Go(n)
    /\ UNCHANGED <<removing, running, team, lost, excused>>

\* create finds another branch checked out in the directory: it is thrown away, and adding it
\* again fails.
CreateOverSwitched(n) ==
    /\ ~Known(n) /\ tree[n] = "switched"
    /\ tree' = [tree EXCEPT ![n] = "none"] /\ dirty' = dirty \ {n}
    /\ lost' = IF n \in dirty THEN lost \cup {n} ELSE lost
    /\ excused' = excused \cup {n}
    /\ strayed' = (strayed \/ workDir = n)
    /\ UNCHANGED <<branch, commits, active, session, saved, workDir, removing, running, team>>

\* /worktree enter.
EnterKnown(n) ==
    /\ Known(n)
    /\ UNCHANGED <<tree, branch, dirty, commits, active, removing, running, team, lost, excused>>
    /\ Go(n)

-----------------------------------------------------------------------------
(* Removing.                                                               *)

\* Commits are not counted.
ChangedOnDisk(n, since) == n \in dirty

\* count_worktree_changes: a git that reports an error counts as no change, one that cannot
\* be run as one.
Changed(n, since) == n \in dirty \/ commits[n] > since

\* The check of exit and auto_cleanup finds nothing in n.
Clean(n, since) == ~Changed(n, since)
Misreported(n) == InTree(n)

\* git worktree remove --force: the directory goes, whatever is in it, or git fails.
ForceRemove(n) ==
    \/ /\ tree' = [tree EXCEPT ![n] = "none"] /\ dirty' = dirty \ {n}
       /\ lost' = IF n \in dirty THEN lost \cup {n} ELSE lost
    \/ UNCHANGED <<tree, dirty, lost>>

\* The first half of _remove_worktree.
RemoveDirectory(n, by) == removing' = [removing EXCEPT ![n] = by] /\ ForceRemove(n)

\* The second half, after the pause: the branch goes unless it is checked out, and the entry.
\* An exit then moves the agent back.
RemoveBranch(n) ==
    /\ removing[n] # "no" /\ removing' = [removing EXCEPT ![n] = "no"]
    /\ branch' = IF tree[n] = "here" THEN branch ELSE branch \ {n}
    /\ lost' = IF n \in branch /\ tree[n] # "here" /\ commits[n] > 0 THEN lost \cup {n} ELSE lost
    /\ active' = [active EXCEPT ![n] = NotActive]
    /\ workDir' = IF removing[n] = "exit" THEN Root ELSE workDir
    /\ strayed' = (strayed /\ removing[n] # "exit")
    /\ UNCHANGED <<tree, dirty, commits, session, saved, running, team, excused>>

\* The one who removes is cancelled in the pause (escape, or the run's deadline, while
\* ExitWorktree is awaited), or deleting the branch takes too long: branch and entry stay, and
\* an exit does not move the agent.
RemovalStopped(n) ==
    /\ removing[n] # "no" /\ removing' = [removing EXCEPT ![n] = "no"]
    /\ strayed' = (strayed \/ workDir = n)
    /\ UNCHANGED <<tree, branch, dirty, commits, active, session, saved, workDir, running, team,
                   lost, excused>>

\* The tool and the command leave the session and keep the worktree.
ExitKeep ==
    /\ session # Root /\ Known(session)
    /\ session' = Root /\ saved' = Root /\ workDir' = Root /\ strayed' = FALSE
    /\ UNCHANGED <<tree, branch, dirty, commits, active, removing, running, team, lost, excused>>

\* Where the check counts commits from: ExitWorktree also counts from the repository's head,
\* /worktree exit only from the head on record, which after a take-over is the present one.
CountedFrom(by, n) == IF by = "tool" THEN 0 ELSE active[n]

\* exit with removal: given leave to discard, or the check found nothing.  The session is
\* left before the directory is removed.
ExitRemove(by, discard) ==
    LET n == session IN
    /\ n # Root /\ Known(n) /\ removing[n] = "no"
    /\ \/ discard /\ excused' = excused \cup {n}
       \/ ~discard /\ Clean(n, CountedFrom(by, n))
          /\ excused' = IF Changed(n, 0) THEN excused \cup {n} ELSE excused
       \/ ~discard /\ Misreported(n) /\ excused' = excused \cup {n}
    /\ session' = Root /\ saved' = Root
    /\ RemoveDirectory(n, "exit")
    /\ UNCHANGED <<branch, commits, active, workDir, running, team, strayed>>

\* git does not return in time: exit fails after the session is left, and the agent stays
\* where it is.
ExitTimesOut(discard) ==
    LET n == session IN
    /\ n # Root /\ Known(n) /\ removing[n] = "no"
    /\ discard \/ Clean(n, active[n])
    /\ session' = Root /\ saved' = Root /\ strayed' = TRUE
    /\ UNCHANGED <<tree, branch, dirty, commits, active, workDir, removing, running, team, lost,
                   excused>>

\* auto_cleanup when a sub-agent is done, counting from the head it started at: a changed
\* worktree is kept; one the manager no longer knows is taken for removed.
SubAgentDone(n) ==
    /\ n \in running /\ running' = running \ {n}
    /\ \/ /\ ~Known(n) \/ Changed(n, 0)
          /\ UNCHANGED <<tree, dirty, removing, lost, excused, strayed>>
       \/ /\ Known(n) /\ removing[n] = "no"
          /\ \/ Clean(n, 0) /\ UNCHANGED excused
             \/ Misreported(n) /\ excused' = excused \cup {n}
          /\ RemoveDirectory(n, "other")
          /\ strayed' = (strayed \/ workDir = n)
    /\ UNCHANGED <<branch, commits, active, session, saved, workDir, team>>

\* A sub-agent that fails or is cancelled leaves its worktree.
SubAgentFails(n) ==
    /\ n \in running /\ running' = running \ {n}
    /\ UNCHANGED <<tree, branch, dirty, commits, active, session, saved, workDir, removing, team,
                   lost, excused, strayed>>

\* The session is not asked about.
StaleAnywhere(n) == n \in Ephemeral /\ InTree(n) /\ commits[n] = 0

\* cleanup_stale_worktrees: old, named for a sub-agent, not the session's, without commits no
\* remote has (if git fails to tell, it is kept).
Stale(n) == n \in Ephemeral /\ InTree(n) /\ session # n /\ commits[n] = 0

\* ... and without changes.  Whether an agent is at work in it is not asked.  One the manager
\* does not know is left alone when git fails.
RemoveStale(n) ==
    /\ Stale(n) /\ removing[n] = "no"
    /\ \/ Clean(n, 0) /\ UNCHANGED excused
       \/ Misreported(n) /\ excused' = excused \cup {n}
    /\ RemoveDirectory(n, "other") /\ (Known(n) \/ tree'[n] = "none")
    /\ strayed' = (strayed \/ (workDir = n /\ session = Root))
    /\ UNCHANGED <<branch, commits, active, session, saved, workDir, running, team>>

\* delete_team removes a member's worktree by force and leaves its branch and its entry.
DeleteTeam(n) ==
    /\ n \in team /\ team' = team \ {n}
    /\ ForceRemove(n)
    /\ excused' = excused \cup {n}
    /\ strayed' = (strayed \/ workDir = n)
    /\ UNCHANGED <<branch, commits, active, session, saved, workDir, removing, running>>

-----------------------------------------------------------------------------
(* The worktrees of sub-agents and teammates, and the work in all of them. *)

\* A fresh name every time.
Spawn(n, isTeammate) ==
    /\ n \in Ephemeral /\ tree[n] = "none" /\ n \notin branch /\ Create(n)
    /\ running' = IF isTeammate THEN running ELSE running \cup {n}
    /\ team' = IF isTeammate THEN team \cup {n} ELSE team
    /\ UNCHANGED <<session, saved, workDir, removing, lost, excused, strayed>>

\* Whoever works in a directory changes files, commits them, or checks out another branch; what
\* is done in the pause of a removal that failed is at risk.
Work(n) ==
    /\ InTree(n)
    /\ \/ dirty' = dirty \cup {n} /\ UNCHANGED <<tree, commits>>
       \/ /\ tree[n] = "here" /\ commits[n] < MaxCommits
          /\ commits' = [commits EXCEPT ![n] = @ + 1] /\ dirty' = dirty \ {n} /\ UNCHANGED tree
       \/ tree[n] = "here" /\ tree' = [tree EXCEPT ![n] = "switched"] /\ UNCHANGED <<dirty, commits>>
    /\ excused' = IF removing[n] # "no" THEN excused \cup {n} ELSE excused
    /\ UNCHANGED <<branch, active, session, saved, workDir, removing, running, team, lost, strayed>>

\* Another process: restore_session takes the saved session over when the directory is there.
Restart ==
    /\ LET s == IF saved # Root /\ InTree(saved) THEN saved ELSE Root IN
       /\ session' = s /\ saved' = s /\ workDir' = s
       /\ active' = [n \in Names |-> IF n = s THEN commits[n] ELSE NotActive]
    /\ removing' = [n \in Names |-> "no"] /\ running' = {} /\ team' = {} /\ strayed' = FALSE
    /\ UNCHANGED <<tree, branch, dirty, commits, lost, excused>>

Next ==
    \/ \E n \in Names :
        \/ Enter(n) \/ CreateOverSwitched(n) \/ EnterKnown(n) \/ RemoveBranch(n)
        \/ RemovalStopped(n)
        \/ SubAgentDone(n) \/ SubAgentFails(n) \/ RemoveStale(n) \/ DeleteTeam(n) \/ Work(n)
        \/ \E isTeammate \in BOOLEAN : Spawn(n, isTeammate)
    \/ ExitKeep
    \/ \E discard \in BOOLEAN : ExitTimesOut(discard) \/ \E by \in {"tool", "user"} : ExitRemove(by, discard)
    \/ Restart

Spec == Init /\ [][Next]_vars

-----------------------------------------------------------------------------
(* Work in a worktree is destroyed only where somebody said to discard it, *)
(* git failed to report it, its branch was switched, its team was deleted, *)
(* it was done during a removal, or /worktree exit counted from the head   *)
(* of a take-over.                                                         *)
WorkSurvives == lost \subseteq excused

(* The directory the agent works in is there, or is just being left,       *)
(* unless a user entered what was being removed, the worktree of a         *)
(* finished sub-agent was the session's, git timed out, or an exit was     *)
(* cancelled in its pause; the next move of the agent ends these.          *)
WorkDirExists == workDir # Root => InTree(workDir) \/ removing[workDir] # "no" \/ strayed
=============================================================================
