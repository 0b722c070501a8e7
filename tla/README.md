# A TLA+ model of MyClaude

MyClaude is a coding agent: a terminal program that sends a conversation to a language model, runs the tools the
model asks for, and goes on until the model gives an answer. This directory holds a TLA+ model of the parts of the
program whose behaviour over time is hard to test, the configurations that check it with TLC, and theorems about it
checked by TLAPS. Paths below are relative to `src/myclaude/` unless they begin with `src/`.

How to run, from this directory:

    tlc -workers 2 -config AgentLoopTurns.cfg MCAgentLoop.tla
    tlc -workers 2 -config TaskManager.cfg    TaskManager.tla
    tlc -workers 2 -config Surfaces.cfg       Surfaces.tla
    tlc -workers 2 -config Teamwork.cfg       Teamwork.tla
    tlc -workers 2 -config Workspace.cfg      Workspace.tla
    tlapm AgentLoopProofs.tla        # and the other *Proofs modules

`PROJECT.json` lists the runs, the theorems, and for every definition the source lines it models.

## 1. The system: inventory

Everything runs on one asyncio event loop per process; file writes and file searches run in threads; shell commands,
hooks and team members may be processes. A step of the model is therefore the code between two awaits.

### 1.1 The core

**Agent loop** (`agent.py`, `conversation.py`, `run_context.py`, `tools/base.py`). *State:* the conversation, the
queue of user messages typed during a run with its steering event, and the locals of `run` (turn, retries, output
recoveries, the response being handled, the results so far). *Operations:* `run`, `queue_user_message`,
`interrupt`/cancellation, and inside a run limits, compaction, the request with its retries, execution of tool calls
in batches, the permission dialog, the completion gate. *Interactions:* called by the surfaces, which consume its
events; calls the provider, the tools, the permission checker, the hooks, the gate. *Hard:* a message can be queued,
the deadline can pass and the run can be cancelled at every await; a call that was announced to the provider must be
answered whatever ends the run. *Correct when:* every request pairs calls with results; no user message is lost or
taken in twice; a run reported complete has answered what it took in; exclusive calls run alone; a run with a deadline
ends.

**Verification gate** (`verification.py`, `tools/context_ledger.py`). *State:* workspace revision, status of that
revision, refusals so far. *Operations:* `start_task`, `observe`, `waive`, `assess_completion`, `restore`. *Called
by* the loop after each batch and before an answer is accepted; waived by a tool while a batch runs. *Hard:* the same
verdict must stay about the same revision over many turns and several tasks. *Correct when:* nobody finishes
unverified without having been told, and "passed" rests on evidence about the current revision.

**Background tasks** (`agents/task_manager.py`, `agents/notification.py`, `agents/trace.py`). *State:* the tasks, the
coroutines, the registration `_async_tasks`, the notification queue, the manifest `tasks.json`. *Operations:* launch,
resume, cancel, poll, drain, load; the idle loop of a teammate. *Interactions:* starts sub-agents; polled by the
surfaces. *Hard:* cancellation at any await (the first step included), resume against a coroutine that is still
there, a process that dies between two writes of the manifest. *Correct when:* work is begun once, every end is
reported once, only the death of the process loses any.

**Session log** (`memory/session.py`, written from `app.py` and `remote.py`). *State:* transcript file, metadata file,
and the cursor of the surface. *Operations:* append, boundary, save of metadata, resume with chain validation, list,
delete. *Hard:* a crash inside a record or between two; a file that is never repaired; cursors that must follow
compaction. *Correct when:* what resume restores mirrors the conversation, in order, with no unanswered call.

**Provider continuation state** (`provider_state.py`, `serialization.py`). Items the provider must be given back,
keyed by the number of the assistant turn they belong to. *Correct when* the key still denotes that turn after a
compaction, a stopped run or a resume.

### 1.2 Surfaces

**TUI** (`app.py` and its dialogs). *State:* the streaming flag, the handle of the current run, the permission slot
and the question slot. *Operations:* submit (start or queue), escape, control-C, answer a prompt, a two-second poll
that starts runs for notifications and mail, waiting for MCP. *Hard:* the flag is raised several awaits after a run was
created, so two runs may start; one slot serves a run and all background tasks. **Remote** (`remote.py`): one client
at a time over a WebSocket; connects, disconnects, answers, cancels; the prompts of who is waiting outlive the
connection. **Headless** (`__main__.py`): one run, then a bounded wait for tasks, or rounds of follow-up runs for a
team. *Correct when* flag, handle and slots belong to the one run there is, each typed message reaches the conversation
once and in order, who asks has somebody to answer, and a headless process exits and leaves nothing behind.

### 1.3 Context

**Compaction** (`context/manager.py`): large results become files with a preview in the conversation; a summary
replaces all but a tail; the circuit breaker; `/compact` beside a run. **Context ledger** (`context/ledger.py`): what is
known of the task, told in reminders. *Correct when* what the conversation refers to is there, and what the agent takes
for told is told. **Orchestration contract** (`orchestration.py`): how many sub-agents a request may use.

### 1.4 Agents and teams

**Sub-agents** (`tools/agent_tool.py`, `agents/`): an agent with narrowed tools and mode, in the foreground, the
background, a fork or a team. **Teams** (`teams/manager.py`, `mailbox.py`, `shared_task.py`, `registry.py`): files
shared by several processes, with a lock on one of them; a name registry; an idle loop that reads the mailbox; a
coordinator mode that swaps the tools. *Hard:* lost updates, a lock that is ignored after ten attempts, a teammate that
leaves just as it is written to, namesakes, two spellings of one team. *Correct when* a message is read once and in
order by somebody, a living teammate is found and has a team, the full tools return, budgets and tool sets hold.
**Team panes** (`spawn_tmux.py`, `spawn_iterm2.py`) are never chosen by the manager.

### 1.5 Files and processes

**File tools** (`tools/read_file.py`, `write_file.py`, `edit_file.py`, `delete_file.py`, `file_state_cache.py`): read
before edit, checked against time and content. **Checkpoints** (`filehistory/history.py`, `/rewind`). **Processes**
(`tools/process_manager.py`, `bash.py`, `bash_tasks.py`): commands in the background, under a root that may change.
**Worktrees** (`worktree/`): create, enter, exit, remove, around awaits between git commands. **Permissions**
(`permissions/`): layers of which the first with an opinion decides, a rules file shared by processes. **OS sandbox**
(`sandbox/`): command lines. *Correct when* nothing unseen is overwritten, a rewind finds what the checkpoint held, no
work in a worktree is destroyed that nobody gave up, what is running can be stopped, and "always" means always.

### 1.6 The rest

**Memory** (`memory/`): recall beside the first request of a run, extraction after a run, consolidation by one process a
day under a lock file. **Hooks** (`hooks/`), **MCP** (`mcp/`), **skills and commands** (`skills/`, `commands/`). *Hard:*
state that outlives the run or the conversation it belongs to, one client or engine shared by all agents, directories
that are replaced while they are scanned. **Providers** (`client.py`, `cache.py`), **usage** (`usage.py`), **runtime
assembly and configuration**, **other tools**, **evaluation harness** (`eval/`) are external protocols, arithmetic,
construction or a sequential driver; where they touch the core (a provider is a set of responses, a budget may be
reached) the core's model has them.

The hazards of all these parts, each at its line, are in `PROJECT.json` under "hazards", with the properties that
guard them.

## 2. The modules

| Module | Models | Composed with |
|---|---|---|
| `VerificationGate` | the gate as functions from gate to gate | used by `AgentLoop` |
| `AgentLoop` | `Agent.run` and consecutive runs on one conversation | extends `VerificationGate` |
| `MCAgentLoop` | the sets of provider responses for TLC | extends `AgentLoop` |
| `TaskLife` | what the task manager promises for one task (abstract) | refined by `TaskManager` |
| `TaskManager` | background tasks, teammates, manifest, drain, restart | `INSTANCE TaskLife WITH` a refinement mapping |
| `SessionLog` | transcript, cursor, compaction boundary, provider state, crashes, resume | |
| `TuiSurface`, `RemoteSurface`, `Headless` | the three ways to drive the agent | `Surfaces` |
| `Inbox` | what a mailbox promises (abstract) | refined by `Mailbox` |
| `Mailbox`, `TaskBoard` | the two files of a team, system call by system call, between processes | `Teamwork` |
| `Teams` | teams, teammates, names, coordinator mode of one process | `Teamwork` |
| `Delegation` | sub-agents: budgets, tools, modes, trace nodes | `Teamwork` |
| `FileTools`, `FileHistory`, `Worktrees` | files, checkpoints, worktrees | `Workspace` |
| `Extraction`, `Consolidation`, `Recall` | memory | `Workspace` |
| `Processes`, `Servers` | background commands, an MCP server | `Workspace` |
| `Permissions`, `Hooks` | who may run a call | `Workspace` |
| `Context`, `Skills`, `ActiveSkills` | what the conversation refers to; skills installed and in use | `Workspace` |
| `AgentLoopProofs`, `GateProofs`, `MessageProofs` | theorems about the loop: pairing, the gate, the messages | `AgentLoop` |
| `TaskManagerProofs` | theorems about tasks, drain, refinement of `TaskLife` | `TaskManager` |
| `SessionLogProofs` | theorems about transcript and resume | `SessionLog` |
| `SurfacesProofs`, `TeamworkProofs`, `WorkspaceProofs` | theorems about the composed parts; refinement of `Inbox` | `Surfaces`, `Teamwork`, `Workspace` |

In every module a definition introduced as "Faulty variant" is not part of the specification: it is a plausible
mistake in the definition that follows it, kept so that each property can be shown to notice one.

Many properties have the form "... unless": the exceptions are history variables set by exactly the step that makes
the promise void (a race, a crash, a command in a bad moment). They are part of the finding: what the code guarantees is
the sentence with its exceptions, and section 6 lists those a reader would not expect.

`Surfaces`, `Teamwork` and `Workspace` explore the sum of their parts: `focus` chooses one at the start and the others
stay in one initial state. Parts of one sum share no variable. Where one calls the other, both have the
call from their own side (a change of the conversation in `FileHistory`, `Extraction`, `Context` and `ActiveSkills`; a
deadline that cuts an await in `Recall`, `Servers` and `Hooks`), allowed whenever the caller might make it, so an
interleaving of two parts shows each of them nothing that its own model does not allow. What is lost are properties
that relate two parts.

### 2.1 AgentLoop and VerificationGate

`pc` says where the coroutine of `run` is suspended: `top` (head of the loop), `presend` (before the request: hooks,
compaction), `stream` / `backoff` / `reactive` (request loop, sleeping before a retry, compacting after an overflow),
`received` (hooks after the response), `tools` / `asking` / `observe` (batches, permission dialog, results shown to the
gate), `finish` and `turnend` (the awaits between the answer and the end of the run), `idle`. The other variables
carry the names of the code, as the comments beside them say.

* A message is its kind, the user messages it carries and the call ids it carries; text is left out. Call ids are
  numbers in the order the calls were received.
* A response is how it stopped, whether it has text, and the kinds of its calls. A kind is a class of tools that the
  loop treats alike: `read` (concurrency-safe), `agent` (also interruptible by steering), `write` (exclusive, never
  interrupted), `check` (a verification command run by Bash: exclusive, interruptible), `waive`, `unknown`, `exit`
  (ExitPlanMode, which ends the run with outcome `plan`: the code reports LoopComplete for it as for an answer, so both
  outcomes count as completed).
* `Step` collects the moves the coroutine makes by itself, `Surroundings` those that wait for provider, tool, user
  or clock. `TimesOut` stands for every await that is wrapped by the run's deadline. The permission dialog is not one
  of them: the run is suspended at the `yield` of the request while its consumer waits for the answer, and the deadline
  of `_await_run` only starts when the consumer asks for the next event.
* Whether the history is compacted, and where it may be cut, depends on message lengths: every cut that leaves
  something to summarise is possible, moved by `Align` as `_align_keep_start_to_tool_pair` does.
* The budget (`spent`) is a choice made once per response; hooks, recall, ledger and environment messages only add
  reminders and are left out of the conversation.
* History variables: `orphans` (executions that outlived their run), `abandoned` (ids of calls whose run ended before
  their results were recorded), `streams`, `warned`, `evidence`.

### 2.2 TaskManager and TaskLife

A coroutine is a record with its own program counter: `created` (scheduled, never run), `agent`, `idle`, `followup`,
`done`. `FinishAs` is the `finally` block of `_run_background`. Asyncio's rule that a coroutine cancelled before its
first step runs none of its code is `DiesUnstarted`. A resumed task gets an agent without a team (`member`), as the
caller of `resume` builds it. A teammate without a mailbox returns from its idle loop at once (`GoesIdle`). `Restart`
is the end of the process at any moment and `_load_manifest` in the next. `adopt_running` is a launch whose agent is
already at work and is not a separate action; the trace tree repeats the status and is left out.

`TaskLife` has two variables per task: its phase and the number of ends still to be reported. `TaskManager` maps its
status to the phase and its queue to the debt, for tasks that are not teammates, and implements it (`LifePromise`).
Teammates do not: a teammate is "completed" while its idle loop may still run it, see the findings.

### 2.3 SessionLog

A line of the transcript is a message or a boundary with the messages it keeps. `disk` holds the lines that can be
read and `tail` the state of the last one, since an unfinished line spoils the record appended to it. `phase` follows
the surface's loop over agent events: what is flushed when, and what a stopped run leaves behind. `WriteCut`
enumerates every point at which the process can be killed inside a write. `Restored` is what `resume` would rebuild
now, so properties about resume can be stated in every state.

Left out: listing and deleting sessions, migration of old records, the environment message, `/rewind` (which does not
touch the transcript; see `FileHistory`).

### 2.4 Surfaces

`TuiSurface`: `runs` are the coroutines of `_send_message` with their place (`created`, `mcp`, `setup`, ..., `asking`,
`ending`); keys, answers and the poll act between their awaits through `streaming`, `agentTask`, `slot`, `askSlot`. The
permission lock of `TaskManager` orders the prompts of a run and of background tasks. `hurt` names the races that
happened: two runs created at once, a run stopped before its `try`, control-C, messages left in the queue.
`RemoteSurface`: connections are numbered; a prompt remembers which client it was shown to. `Headless`: the phases of
`_run_prompt`, the tasks as `absent`/`running`/`untold`/`heard`/`cut`, the rounds. AgentLoop's subject, the run itself,
is here "injects the queue, asks, ends".

### 2.5 Teamwork

`Mailbox` has one step per system call of `_with_lock` (try, wait, force, read, truncate, fill, unlock), a crash
between any two and a lock that goes stale; it implements `Inbox`: written messages wait, a consume takes all of them
once and in order, and when a lock was forced or a write torn nothing is promised any more. `TaskBoard` has load,
change and rewrite as steps of stores: a process has one for each spelling of the team it uses, all over one file, and
a creation does not load. `Teams` numbers neither messages nor polls beyond what the promise needs: an inbox holds
whether a message came in time. Directories, objects in `_teams`, the registry of names and the saved tool registry
are separate, as in the code, and can disagree. `Delegation`: `decision` is charged by each call; `tools`, `kmode` and
`node` are what a child got when it was spawned and what the trace says of it. A resume is refused while the agent
runs, and leaves a node nobody has (`stray`); an idle teammate counts as completed and is replaced, while its loop
goes on and ends later (`leftover`).

### 2.6 Workspace

* `FileTools`: contents are versions; `disk`, the state cache and the text cache each hold version and time; a tool's
  check, write and refresh are three steps, and a foreign writer may come between. `FileHistory`: backups are
  (path, version, content); a change is backup and write. `Worktrees`: work is `dirty` (in the directory) and `commits`
  (on the branch); removal is two steps with the code's pause between them; git may fail or time out, and an exit may be
  cancelled in the pause (`RemovalStopped`).
* `Extraction`: the mark is a count of messages kept for the process. `Consolidation`: the lock file is its content, its
  age and its identity; each system call is a step. `Recall`: the side query, its consumption, and which run is told.
* `Processes`: the tasks in memory, each root's `tasks.json`, which processes live and which are watched. `Servers`: each
  connection is a server with its exit stack; the client remembers one.
* `Permissions`: calls are one of each kind the layers tell apart (a compound command, an edit, a configuration file,
  a path outside the sandbox, a plug-in tool whose name no rule can express, a dangerous command). `Hooks`: matching,
  then one hook after the other.
* `Context`: messages are results (in full or as a preview) and the ledger versions they tell. A rendering shows the last
  entries only (`Renderings`, `MaxShown` of them), a list of updates too (`Tellings`). Compaction is two steps, with the
  wait for its summary between, and others commit to the ledger during that wait (`Meanwhile`, `SkillActivated`).
* `Skills`: directories with the installation they hold parts of; what the loader read, and whether it would notice a
  change. A tree downloads in two parts, the manifest and the rest, and several processes install. `ActiveSkills`: the
  text that is active, those that granted tools, and those in the present conversation; the agent only knows the
  conversation of its last run (`here`).

## 3. The runs

| Run | Distinct states | What it shows |
|---|---|---|
| `turns` | about 1,004,000 | the conversation and the queue, two user messages, every way a response and a run can end |
| `gate` | about 6,662,000 | the gate over two tasks of up to three turns, plans among the answers |
| `ends` | about 537,000 | liveness: with a deadline every run ends, unless it waits for an answer to a permission request |
| `tasks` | about 70,000 | tasks and teammates, refinement of `TaskLife`, liveness |
| `session` | about 596,000 | transcript against memory over two ends of the process |
| `surfaces` | about 207,000 | the three surfaces; liveness of the headless one |
| `teams` | about 579,000 | mailbox (refinement of `Inbox`), shared tasks, teams, sub-agents |
| `workspace` | about 645,000 | thirteen parts that outlive a run or work beside it |
| `evidence`, `exclusive`, `tasks_once`, `session_opaque` | | one disagreement each between a statement in the repository and the code (section 6) |

**`turns`** checks `TypeOK`, `RequestPaired` (each request has every call followed at once by its results),
`NoMessageLost` (each submitted message is in exactly one place), `CompletedAnswered` (the model spoke after every
message of a run that reports LoopComplete; of a run that ended with ExitPlanMode, after every message but those taken in
behind the results of its last response), `OneAnswerShown`, `SteeringMatchesQueue`, `ExclusiveInRun`. Bounds: two
user messages (one starts the run, one races it; or the second finds the first run over), two turns, two retries, one
output recovery, the run ends after two unknown tools (three in the code; the count is what matters, not its limit),
responses with at most two calls (a concurrent pair, a mixed pair, two unknown tools, ExitPlanMode) and each kind of
stop. Two turns are enough for compaction to cut between turns and inside one, and for a run that
failed to leave its calls to the next.

**`gate`** checks `WarnedBeforeFinish` (whoever completes over unverified modifications was refused since the last
write, or called ExitPlanMode) and `PassedOnEvidence` with writes, checks, waivers and plans in every order, two
tasks and three turns each: the shortest interesting story is write, refusal, write, answer; three turns hold it, and
the second task meets what the first left.

**`ends`** checks `RunEndsUnlessAsked` with nothing assumed of provider, tool, dialog or user: a run ends, or from
some time on waits for a permission answer for ever. (That it ends in any case is not so, see section 6.) One message,
four turns (the turn limit keeps the state space finite), one response for each way a turn can go on; the deadline can
pass at any point of them.

**`tasks`** has a plain task and a teammate, three coroutines per process, two polls, one restart. Three coroutines
allow a resume beside an idle loop; two polls have a poll that finds mail and one that does not; tasks interact only
through the notification queue, the drain and the manifest, so two are enough. `PlainRegistered`,
`RunningIsAlive`, `ManifestCurrent`, `DrainDropsNothing` relate status, coroutine, registration and manifest;
`LifePromise` is the refinement; `Settles` is liveness. The drain exists only in a process without teammates, as in
the code.

**`session`** has five messages and two ends of the process. `Mirror`: as long as no crash has hit a write, resume
gives back the conversation up to the cursor except what no flush will ever write (reminders placed before a run, what
a stopped run added). `RestoredInOrder`, `RestoredAnswered`: wherever the process was killed, what is restored is in
order and each restored call has its result. `AlignedWhenWhole`: provider state agrees with the restored turns unless
a crash hit a write or a stopped run left an assistant turn out of the file. Five messages hold a turn with calls and
results, a compaction and a run after it; two ends let a resumed session crash again, which is where an unrepaired
file shows.

**`surfaces`**: `SurfaceTracksRun` (flag, handle and question slot are those of the one active run),
`PromptAnswerable` (an answer goes to the prompt on display), `TypedInOrder`, `PromptHasReader` (who waits for an answer
waits for the client that is connected), `StreamingIsRun`, `NothingLeftBehind` (headless exit), `HeadlessExits`
(liveness). Bounds: two runs and three typed messages in the TUI (a run, one created beside it, one queued), three
messages and two connections in the remote interface (a client that leaves and another that finds its prompts), two
tasks, three rounds for the code's ninety (only reaching the limit matters). `FewRaces` does not follow a terminal
session past its second race, where the promises are void anyway.

**`teams`**: `KeepsPromise` (mailbox implements `Inbox`), `LostOnlyToStale` (an update of the shared tasks is lost
only to an overlapping one or to a store, of another process or of another spelling, that creates unread),
`TeammatesReached`, `FullToolsReturn`, `DelegationBounded`, `ChildContained`. Bounds: two processes with two spellings
of the team each, two messages, two attempts for the code's ten and two polls for its sixty; two created tasks; two
team names and one alias, two agents and two names (namesakes in one team, in two teams); three generations of agents
(main, fork, child) with two sub-agents, the modes plan and bypass between which the order of all modes shows, one
wasted call. `FewMishaps` ends a behaviour soon after something that voids the promise checked there (a forced lock,
two spellings, a lowered mode); which ones is written in `Teamwork`.

**`workspace`**, by property:

* `OverwritesSeen`: no tool replaces or deletes content the tools have not seen, except what appeared while the tool was
  at work; and the text ReadFile would show is the file's. One path (paths interact in nothing), four modification times:
  read, foreign write, write, foreign write.
* `CheckpointsIntact`: what a snapshot's backups hold, and its place in the conversation, survive rewinds, trimming and
  clean-up. Three contents, versions and runs, two snapshots kept of the code's hundred, so that trimming happens.
* `WorktreesSafe`: no work is destroyed but where somebody discarded it; the agent's directory is there, unless a step
  that strands it has happened (a removed worktree entered, a sub-agent's or a team's worktree that was the session's,
  a time-out of git, an exit cancelled in its pause) and the agent has not moved since. One worktree name, used by the
  session, a sub-agent and a team; two commits.
* `MemorySafe`: one process consolidates at a time (two processes, three lock files: a stale one, its successor, and
  the one removed by mistake); extraction passes over no message (five messages); recalled memories are told once, in the
  run they were picked for (three runs).
* `ProcessesKept`: what is reported over is over, what is watched can be stopped (two commands, two roots); an MCP
  server that runs is one the client can end (two agents, four connections).
* `AnswersKept`: a call answered "always" is not asked again where the layers above the answer have no opinion (no
  rule says ask, the path is in the sandbox), by the process that was answered, and by every process for a command
  that is not compound and a tool a rule can name, as long as its rule is in the file. The rule leaves the file only
  with `/permission reset` or with an append that had not read it: one that read before another wrote, or while the
  file was not YAML (two processes, one rule written by hand beside the answer's). A hook for once runs once, unless
  two events had taken it before it began, and a refusal holds (two callers, two hooks).
* `ContextKept`: previews name files that are there, and each ledger update that counts as told is told by the
  conversation, unless a rewind cut it off, more came between two reminders than are listed, the ledger had more than a
  full rendering shows when a summary replaced the reminders that told it, or a skill was activated while that summary
  was written (three messages, one update kept of the code's eighty, one entry shown of its thirty a section, one
  failure for the breaker's three; `Alone` stops where `/compact` or `/rewind` met a run); a skill's
  directory is whole and LoadSkill serves what is installed (two installations, of which one may belong to another
  process); the active skill's text is in the conversation, about to be, or named by the summary, and no tools are
  granted but by skills of this conversation and what `/session` carried over (two texts of one skill).

The type invariants of the composed parts are conjuncts of nothing here: they were checked with the parts, and a
property that meets a value of another type fails to evaluate. `AgentLoop`'s is a run property and proved,
`TaskManager`'s is proved.

**Deadlock.** `CHECK_DEADLOCK FALSE` is set everywhere because each system really stops: a session that is idle
with all its bounded messages submitted, a process that has drained or exited, a file that cannot be resumed, a team
that is over, a project all of whose processes are dead. Where something must happen, a liveness property says so.

**Fairness.** `AgentLoop!FairSpec` assumes weak fairness of `Step` (the event loop resumes a coroutine that is ready)
and of `Expire` (the timer of the deadline fires, in the awaits that `_await_run` wraps); none of provider, tools,
dialog, user. `TaskManager!FairSpec` assumes weak fairness of each coroutine, which includes that its agent's run
ends; that is `RunEndsUnlessAsked` for agents that have a deadline and whose permission requests are answered, and an
assumption for the others. Nothing is assumed of users, mail or cancellation. `Surfaces!FairSpec` assumes for the
headless process that a run of the agent ends (the same, and it asks nobody) and that `_run_prompt` goes on after
waits that have a limit in the code (the drain's timeout, a round's sleep); nothing of tasks and teammates, so
`HeadlessExits` says that they cannot keep the process. The other modules are used without fairness: their properties
are safety.

## 4. What is proved

Every safety property the passing runs check, both refinements included, is also a theorem checked by TLAPS, for every
value of the constants: any number of messages, tasks, processes, agents, files, crashes, and any limits. Only liveness
stays with TLC.

| Module | Theorem | Statement |
|---|---|---|
| `AgentLoopProofs` | `Invariance`, `TypeCorrect` | `Spec => []IInv`, `Spec => []TypeOK` |
| | `RequestsArePaired` | `Spec => []RequestPaired` |
| | `OneAnswerPerTurn` | `Spec => []OneAnswerShown` |
| | `SteeringFollowsQueue` | `Spec => []SteeringMatchesQueue` |
| | `CallsExclusiveInRun` | `Spec => []ExclusiveInRun` |
| `GateProofs` | `WarnedFirst` | `Spec => []WarnedBeforeFinish`, if both budgets of refusals are positive (1 and 2 in the code); ExitPlanMode is the exception the statement names |
| | `PassedRestsOnEvidence` | `Spec => []PassedOnEvidence` |
| `MessageProofs` | `MessagesKept`, `CompletedRunsAnswer` | `Spec => []` of `NoMessageLost`, `CompletedAnswered` (with the messages behind an ExitPlanMode as its exception) |
| `TaskManagerProofs` | `TasksTypeCorrect` | `Spec => []TypeOK` |
| | `PlainTasksRegistered`, `RunningTasksAlive`, `ManifestIsCurrent`, `DrainLeavesNothing` | `Spec => []` of the four invariants of run `tasks` |
| | `ImplementsTaskLife` | `Spec => LifePromise` |
| `SessionLogProofs` | `RestoresInOrder`, `RestoredCallsAnswered`, `LogMirrorsConversation`, `ItemsStayAligned` | `Spec => []` of the four invariants of run `session` |
| `SurfacesProofs` | `TerminalTracksRun`, `PromptsAnswerable`, `TypedMessagesInOrder` | `Spec => []` of `SurfaceTracksRun`, `PromptAnswerable`, `TypedInOrder` |
| | `RemotePromptsRead`, `RemoteFlagIsRun` | `Spec => []` of `PromptHasReader`, `StreamingIsRun` |
| | `HeadlessLeavesNothing` | `Spec => []NothingLeftBehind` |
| `TeamworkProofs` | `MailboxKeepsPromise` | `Spec => KeepsPromise` (refinement of `Inbox`) |
| | `TasksLostOnlyToStale` | `Spec => []LostOnlyToStale` |
| | `DelegationStaysBounded`, `ChildrenContained` | `Spec => []` of `DelegationBounded`, `ChildContained` |
| | `TeammatesStayReached`, `ToolsReturn` | `Spec => []` of `TeammatesReached`, `FullToolsReturn` |
| `WorkspaceProofs` | `ChangesAreSeen`, `CheckpointsStayIntact`, `WorktreesStaySafe`, `MemoryStaysSafe`, `ProcessesStayKept`, `AnswersStayKept`, `ContextStaysKept` | `Spec => []` of the seven invariants of run `workspace` |

**Assumptions.** Each is a named ASSUME beside the constants, evaluated by TLC in a run. `LoopAssumption`,
`BlocksAssumption`, `SessionAssumption`, `SurfacesAssumption`, `TasksAssumption`: limits are naturals, switches Booleans,
teammates are tasks, responses well-typed. `TeamworkAssumption`: the marks for "no holder", "no file", "torn", "no team",
"the lead" are none of the values they stand beside, the alias is a second spelling and no directory, there is at least
one name, the user's modes are modes. `WorkspaceAssumption`: the same of its marks; at least one server connection and
at least one snapshot are allowed. None of them bounds a size.

**The loop.** `RequestPaired` speaks only of the moment of a request; it is not inductive. `IInv` strengthens it in three
ways. `ConvOK` says that the whole conversation is paired at all times, except for the last message while its calls
are being executed, and except for abandoned calls. `ToolsOK` is the bookkeeping of a batch: the calls before `next`
have results, those of a concurrent batch run or have one. It is needed to know that when `observe` is reached each
call has a result, so that the ids recorded with the results are exactly those of the calls. `ShownOK` ties the output
shown to the request in flight. The lemmas about sequences (appending a message that carries no ids, appending a
message that answers the last one, cutting at an aligned place) say when `Paired` survives; the step of each action cites
one of them. Exclusiveness needs a second, smaller invariant, that the calls of a concurrent batch are
concurrency-safe.

*The gate.* `WarnedBeforeFinish` is about the end of a run, several awaits after the answer was accepted. `GateOK`
carries the verdict over them: a positive refusal count means the model was warned since the last write, and while an
answer is on its way out (`Leaving`) the gate does not refuse it. Only the last implication needs the budgets to be
positive: with a budget of zero an unverified answer passes at once.

*Messages.* `NoMessageLost` counts the places of a message. `Once` says the same without counting, of conversation and
queue as they are: each message submitted has one holder, none else has any. Appending, injecting the whole queue and
replacing a prefix by its summary preserve `Once`; only the last implication counts. For `CompletedAnswered`, `AnswerOK`
follows the answer from the moment the loop has accepted it, through hooks and the second look at the queue, to the
end. For a run that ends with ExitPlanMode it says that nothing but the queue stands behind the results of its calls.

**The tasks.** `PlainRegistered` (a live coroutine of a plain task is registered and says "running") is what makes the
`finally` block remove the right registration and `resume` refuse; with types, `RunningIsAlive`, `ManifestCurrent` and
the fact that only teammates have members it is inductive. The refinement then takes one step per action: starts map to
`Begin`, the finally block to `End`, poll and drain to `Report`, `Restart` to `ProcessEnds`, the rest stutter. The drain
needs `AllRegistered`, which is `PlainRegistered` for *every* task of a process that launched no teammate: also of a task
that was a teammate's in the process before, since `resume` gives it an agent without a team.

**The session log.** Four invariants, each resting on those before it.
* `OrderInv`: message numbers grow along the conversation and along the readable file, and whatever lies behind the
  cursor is newer than everything in the file. It holds through any crash and gives `RestoredInOrder`; cutting the
  lines off at the first call without a result gives `RestoredAnswered`.
* `PendingInv`: what lies behind the cursor will be written, and its calls have their results there too, except the one
  the run is waiting for. Therefore a flush never writes a call alone.
* `MirrorInv`: while no crash has hit a write, the file from its last boundary on holds exactly the messages before the
  cursor that a flush was ever to write, and every call in it is answered, so that resume cuts nothing off.
* `AlignInv`: provider items in memory and on disk belong to the turns they are filed under. The number of a turn is a
  count of assistant messages before a place; `TurnByNumbers` turns it into a count of messages with a smaller number,
  which does not depend on the place, so that equal sets of assistant messages number their turns alike.

**The surfaces.** In the terminal, `Tracked` says of every run that has not ended that the handle is its, so that
there is at most one, and when it has raised the flag, as long as none of the races in `hurt` has happened. `TextInv`
says that conversation, starting run and queue together are the messages typed, in order, and that the queue is empty
while the flag is down. `PromptInv` needs no exception and, with types, is inductive by itself: a prompt is shown only
under the lock of the task manager. `RemoteInv` ties the flag to the place of the one task, allows a run one prompt,
and knows that while nobody is connected nothing starts but what an approval left behind. `HeadlessInv` says that
until the process exits no task has been given up.

**Teams.** `Held`: while no lock was forced and the mailbox is there, the lock is of the process inside, the file is
torn only while that process fills it, and what it is about to write was computed from what the file holds. From it
every step of `Mailbox` is a step of `Inbox` or none; when the lock is forced both are broken. `BoardInv` has one part
for a single store (file and memory agree between its operations) and one for several, of other processes or of
another spelling (an update that loaded the present file keeps what it holds). `KidsInv` charges each child to a call
of the decision in force, carries the tools and modes a child was given, and ties a live child to a node that is
running, or was closed by the loop of the teammate it replaced. `TeamsInv` is about rosters: who is in one was started
for that team; and a living member of a team under one spelling is in the object, in the directory and among the
active.

**Files and what else outlives a run.** One invariant per part, of the parts that `Workspace` composes; a part that is
not looked at does not move.
* `FilesInv`: whatever the cache holds, and whatever a tool at work is about to replace, the tools have seen, is no
  file at all, or appeared during a change; a text with the file's time is the file's text.
* `HistoryInv`: each version a snapshot names is tracked, has the tracked content and its backup, and so has the latest
  version; later snapshots name later versions and places. So a new backup overwrites none that is referred to, and
  a rewind that forgets later snapshots forgets no earlier one's.
* `WorktreesInv`: a worktree that is being removed has no commits anybody counts on, or was excused; the agent is in its
  session's worktree, has been moved out of it, or is marked as stranded.
* `LockInv`: each attempt makes a lock file of its own, none is under way while a lock is an hour old, a lock that was
  found stale stays so, and who runs holds the lock. `ExtractionInv`: the mark is the length of the conversation it was
  set in, all of which was read or passed over knowingly, and an extraction reads from the mark on. `RecallInv`: the
  one side query is of the present run or of one that ended early.
* `ProcessesInv`: a command that was not kept is on no record, and a running command that can be stopped is watched.
  `ServersInv`: a client that is neither alive nor connecting has nothing running but what a failure excuses.
* `RulesInv`: types and the property. `HooksInv`: the hooks a call owes are still to begin, awaited, or have let it
  through (`HooksAwaited`), and one for once that has begun waits nowhere (`HooksOnce`).
* `ContextInv`: previews name files that are there wherever a result occurs, and a summary under way is of the
  conversation as it still is and of a ledger of which the rest, committed meanwhile, is accounted for.
  `InstalledInv`: an installation about to be put in place is whole, one that is over has left nothing, and a loader
  that noticed the last change has an entry that is there. `ActiveInv`: the summary under way tells of the active
  text, or it is known what it loses.

**Induction over data.** The library's induction theorems take an operator as a parameter, which the provers cannot
instantiate. Where a proof runs over the length of a list (what `Mailbox!Unread` collects, the last boundary of a
file, the unanswered call of a replay) the fact is given as the *set* of numbers it holds of: a set of naturals that
is not empty has a least element (`Least`, from the well-foundedness of the naturals), so a set that contains 0 and
with each number the next contains all up to the length (`UpTo`).

**What the proofs changed.** Attempts to prove found one false part of the model's properties: `Teams!Reachable`
excepted a teammate whose name was held by a namesake at the moment, and with three agents and two names the name can
be taken, given up and left to nobody. It now excepts a teammate that ever met a namesake of another team. (Two
agents, the bound of run `teams`, do not show this.) Other changes are restatements that mean the same: `TurnOf`
counts the turns before a place of any conversation, `Mirror` is stated as order and equality of sets, `Hooks!InOrder`
by what an order of hooks is, `Mailbox!Unread` as a recursive function.

Left to TLC: `RunEndsUnlessAsked`, `Settles` and `HeadlessExits` (liveness under fairness is beyond the prover), and the
disagreements of section 6, which are violations.

## 5. What is not modelled

`PROJECT.json` gives each component's status and what is left out of it. In general:

* Wording and layout of everything, token counts and the thresholds behind compaction, budgets and recovery: whether
  one is reached is a choice of the model. Texts, patterns, diffs, parsing (commands, rules, skill files, hook
  conditions): a model has one value for each case the code tells apart.
* **OS sandbox** and **team panes** build command lines (and the manager never chooses panes); **runtime assembly and
  configuration** is construction at start-up; the **evaluation harness** is a sequential driver outside the program;
  provider wire formats, transports and schemas of MCP, HTTP endpoints, web pages fetched by tools: translation without
  behaviour over time.
* In `AgentLoop`: a post-tool hook that times out after its tool has written (`agent.py:1936`, the one hazard without
  a property). The state it leads to, an error recorded for a write that has happened, is reached by `ExpireCall`
  followed by `OrphanEnds`; that the gate has seen every write is not stated, since the model keeps no account of what
  the files hold. Left out are also the notes hooks leave for the next request, and commands the user types during a
  run, which are in `Context`, `ActiveSkills` and `FileHistory`.
* Asynchronous hooks once begun; several MCP servers (they share nothing); skills that run in a fork (a fork is in
  `Delegation`, its conversation its own); Glob and Grep; the files a Bash command writes its output to.
* The wait of a process for its children at exit, and signals, outside what `Restart` says: the process may end
  between any two steps.
* How two parts of one sum act on each other beyond the calls both model (section 2).

## 6. Where the code and its descriptions part

Each of these is a run whose one property TLC violates:

* **`evidence`**: a verification command that is moved to the background returns no exit code, and no exit code is
  taken for success (`verification.py:159`), so a modified task completes as "passed" while its check still runs. The
  class asks for "current-revision evidence" (`verification.py:48`).
* **`exclusive`**: cancelling a run cancels the wait for a Bash or Agent execution, not the execution
  (`agent.py:1864`), and cannot stop the thread of a file write. The next run's exclusive calls overlap with it,
  against the comment at `agent.py:1404-1406`.
* **`tasks_once`**: a teammate is marked completed before its idle loop, `resume` accepts it, and a message then
  starts a second run of the agent on the same conversation (`agents/task_manager.py:180`).
* **`session_opaque`**: a cancelled or failed run leaves its assistant turns in memory only, while the provider state,
  keyed by assistant turn, is saved with the next run; after a resume the items of one turn are attached to another
  (`app.py:1461`). `conversation.py:220-221` resets the state elsewhere for exactly this reason.

Each of these is an exception that a property names, because the code does what a document or comment says it does not.
Without the exception TLC finds the property violated:

* **Plans and the gate**: a response with ExitPlanMode ends the run with LoopComplete (`agent.py:1548-1563`) and asks
  no gate: what the run has written stays unverified and the model was not told, against the same docstring. Messages
  queued until then are injected behind the results and wait for the next run to be answered. Exceptions of
  `WarnedBeforeFinish` and `CompletedAnswered`.
* **Permission requests and the deadline**: the run is suspended at the `yield` of a permission request
  (`agent.py:1803`) while the surface awaits the answer; the deadline starts to count around the answer's future only
  afterwards (`agent.py:1809`). A silent user, at the terminal, the remote client or behind a sub-agent's request,
  holds a run with a deadline for ever, against the comment at `agent.py:897-898` and `run_context.py:7`. The
  exception of `RunEndsUnlessAsked`.
* **A cancelled ExitWorktree**: escape, or the deadline, during the pause between the removal of a worktree's
  directory and that of its branch (`worktree/manager.py:247`) raises through `except Exception`: session left, branch
  and entry kept, the agent still in the directory that is gone, against `tools/exit_worktree.py:31-32`. `strayed` in
  `WorktreesSafe`.
* **"Always" outside the sandbox**: the sandbox of paths and rules that say ask come before the answer
  (`permissions/checker.py:96-111` against 113 and 135), so a write outside the sandbox is asked about every time,
  against "Yes, and don't ask again for this pattern" (`permission_dialog.py:14`). `MustAsk` in `AnswersKept`.
* **Appends of two processes**: `locked_path` is a lock of one process; appends of two processes to the rules file
  overwrite each other, which is what the comment at `permissions/rules.py:256-257` says must not happen.
  `overwritten` in `AnswersKept`.
* **The consolidation lock**: between creating the lock file and writing the process id into it the lock counts as
  nobody's (`memory/consolidation.py:232`), and a process that found a stale lock removes whichever is there: two
  consolidate. `mixed` in `MemorySafe`.
* **Hooks for once**: hooks are matched before the first of them is awaited (`hooks/engine.py:32`), so two agents take
  one for once before either has begun it. `doubled` in `AnswersKept`.

Met while modelling, visible in the model, stated as properties only as far as section 3 says:

* Resume cuts an unanswered call off in memory, not in the file. What the resumed session appends lies behind the
  unanswered call, and the next resume cuts it off again. The properties of run `session` hold since what is lost is a
  suffix; they do not promise that nothing is lost.
* A notification run has no user record in the file. After a torn line its first record, the calls, is the one that is
  spoiled, and their results remain readable without them. `RestoredAnswered` is therefore stated of calls only.
* A file cut inside a multi-byte character cannot be decoded, and resume raises (`tail = "split"`).
* A task cancelled before its coroutine's first step says "running" until the process ends (`stillborn`).
* A cancellation can be swallowed: one that arrives while the loop awaits what it has itself cancelled, or a recall
  that has ended, is caught with it (`agent.py:629`, `agent.py:1872-1905`), and the run goes on. `Cancel` always ends
  the run; the states of a run that goes on are those without a cancellation.
* A crash between the boundary record and the save of the metadata leaves the old provider state in place, hence the
  exception `damaged` in the alignment properties.

**Surfaces.**
* TUI: until the first run raises the flag (it may be waiting for MCP) a second submission, and each of the two polls,
  starts another run; escape during that wait cancels the connection of MCP servers and loses the message; control-C
  lowers the flag before the run has ended; the end of a run denies the prompt of a background task.
* Remote: the branch that queues a message during a run cannot be reached, messages are dropped; an error before the
  `try` leaves the flag up for good; a prompt shown while nobody is connected holds the permission lock until somebody
  cancels.
* Headless: a follow-up run that ends in an error skips `_finalize`; a team that outlasts the rounds is left running.
* The notification of a task (`agents/notification.py:45-51`), a continuation and a mailbox message are user messages
  and start a new task for the gate, the ledger and the orchestration contract.

**Delegation.**
* A call of Agent that fails is charged; `resume` is not, and one that is refused because the agent runs leaves a
  trace node "running" that nobody has, as does the cancellation of a foreground sub-agent. An idle teammate can be
  resumed: its own idle loop, ending later, closes the trace node of the agent that took its place. A teammate's mode
  is fixed when it is spawned.
* Two spellings of a team name are two objects over one directory; each deletes it under the other's members. The name
  registry is global, so a namesake in another team takes the name. Nobody reads the notices to the lead's inbox.
* Writers of the shared tasks overwrite each other, other processes as well as one process that spells the team in two
  ways, which gets two stores over one file (`teams/manager.py:102-111`); a torn file stops all but creations, which
  overwrite it.

**Files.**
* All agents of a process share the state cache: "read before edit" holds of the process, not of the agent. The refresh
  after a write takes a foreign write in between for its own.
* Two changes of a path before its first snapshot leave two backups, of which clean-up may remove the first. A rewind of
  the conversation alone, and a compaction, leave later indices wrong.
* `/worktree exit --remove` counts commits from the head at its take-over; a failing git counts as "no changes"; a
  worktree whose branch was switched is removed by force; failed or cancelled sub-agents leave theirs behind.
* BashOutput and BashStop configure the process manager with the agent's present directory, Bash with its first: after
  a change of directory running commands are forgotten, "detached" or cannot be stopped.

**Memory, recall.**
* The mark of what was extracted is never set back when the conversation is replaced.
* Nothing calls `RunContext.drain` or `cancel_all`, although `agent.py:711-712` and `run_context.py:8-11` say the recall
  task ends with its run: what a run that ended early leaves behind is told in a later run.

**Permissions, hooks, MCP.**
* "always" for a compound command, and for a tool whose name no rule can carry, is asked again in the next process; an
  append while the rules file cannot be read drops all rules.
* A hook that refuses but whose action raises refuses nothing.
* `connect` replaces the exit stack without closing the old one, and any failed call marks the client dead: servers stay.

**Context, skills.**
* `/compact` and `/rewind` may run while a run works on the conversation: what it adds meanwhile is lost. More than
  eighty ledger updates between two reminders are dropped untold.
* A rendering of the whole ledger, in a first reminder and in a summary, shows thirty entries of a section and seven
  thousand characters (`context/ledger.py:301-326`): what a compaction takes away with the reminders that told it, and
  the summary does not list, counts as told. So does a skill activated while the summary is being written, by a slash
  command or a sub-agent, since the version set afterwards is the new one (`agent.py:1060`, `agent.py:2114`).
* A cancelled installation leaves its staging directory (`CancelledError` is no `Exception`), although
  `skills/install.py:280-283` says that a failure leaves nothing; the loader scans it before the installed skill and
  prefers it. Removing the old directory and renaming the new one is not atomic. InstallSkill reloads the loader but
  not the catalog, and the look before the next message then finds nothing new.
* A skill invoked by a slash command before the first run, or after `/clear` or `/session`, is "successfully loaded" but
  its text goes to no conversation or to the old one, and LoadSkill then answers that it is already active. The comment
  at `agent.py:774-777` says compaction carries the text; for an agent with a ledger it carries the name.
* `/session` and `/rewind` leave skills active and their tools allowed; a sub-agent's LoadSkill activates and grants
  in the main agent.

## 7. Plan

To prove: that `SessionLog` implements an abstract log of which a crash takes at most a suffix; that a task number of
`TaskBoard` is handed out once by a process that uses the team alone (a step property `BoardSole` implies).

To model: an account of the written files in `AgentLoop`, so that "the gate has seen every write" can be stated with its
exceptions; the anchor of the token estimate in `conversation.py` and the choice of the kept tail against a reference
definition; skills in a fork.
