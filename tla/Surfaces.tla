------------------------------ MODULE Surfaces ------------------------------
(***************************************************************************)
(* The three ways to drive the agent, for TLC.  A process runs one of      *)
(* them and they share nothing, so the instance explores their sum, not    *)
(* their product: focus is chosen at the start and the others stay in      *)
(* their initial states.                                                   *)
(***************************************************************************)
EXTENDS Naturals, FiniteSets

CONSTANTS MaxRuns, MaxTyped, MaxMessages, MaxClients, Tasks, MaxRounds

ASSUME SurfacesAssumption ==
    {MaxRuns, MaxTyped, MaxMessages, MaxClients, MaxRounds} \subseteq Nat

VARIABLES
    focus,
    streaming, agentTask, runs, mcp, queue, conv, typed, perm, lock, slot, askSlot, inputOff,
    completed, notes, hurt,
    client, clients, pc, serving, text, sent, heard, steering, dropped, restarts, pending,
    wants, harm,
    phase, task, mail, team, json, error, crashed, rounds, finalized

tui == <<streaming, agentTask, runs, mcp, queue, conv, typed, perm, lock, slot, askSlot, inputOff,
         completed, notes, hurt>>
remote == <<client, clients, pc, serving, text, sent, heard, steering, dropped, restarts, pending,
            wants, harm>>
headless == <<phase, task, mail, team, json, error, crashed, rounds, finalized>>

T == INSTANCE TuiSurface
R == INSTANCE RemoteSurface WITH streaming <- serving, conv <- heard, queue <- steering,
                                 hurt <- harm
H == INSTANCE Headless

Init ==
    /\ focus \in {"tui", "remote", "headless"} /\ T!Init /\ R!Init /\ H!Init
    /\ focus # "headless" => json

Next ==
    /\ UNCHANGED focus
    /\ \/ focus = "tui" /\ T!Next /\ UNCHANGED <<remote, headless>>
       \/ focus = "remote" /\ R!Next /\ UNCHANGED <<tui, headless>>
       \/ focus = "headless" /\ H!Next /\ UNCHANGED <<tui, remote>>

Spec == Init /\ [][Next]_<<focus, tui, remote, headless>>

Headless(A) == focus = "headless" /\ A

(* Fairness: a run of the agent ends, and _run_prompt goes on after waits  *)
(* that have a limit; nothing is assumed of tasks and teammates.           *)
FairSpec ==
    /\ Spec
    /\ WF_headless(Headless(H!MainRunEnds)) /\ WF_headless(Headless(H!DrainTasks))
    /\ WF_headless(Headless(H!Round)) /\ WF_headless(Headless(H!FollowUpEnds))

(* Bound: a terminal session is not followed past the second race.         *)
FewRaces == Cardinality(hurt) <= 1

(* The types of the three surfaces.                                        *)
TypeOK == T!TypeOK /\ R!TypeOK /\ H!TypeOK

(* app.py: the flag, the handle and the question slot belong to the one    *)
(* active run, unless one of three races happened.                         *)
SurfaceTracksRun == T!SurfaceTracksRun

(* app.py and TaskManager.handle_permission_request: an answer goes to the *)
(* prompt on display.                                                      *)
PromptAnswerable == T!PromptAnswerable

(* app.py: typed messages reach the conversation once and in order.        *)
TypedInOrder == T!TypedInOrder

(* remote.py: who waits for an answer waits for the present client.        *)
PromptHasReader == R!PromptHasReader

(* remote.py: the flag is up exactly during a run and nothing is queued.   *)
StreamingIsRun == R!StreamingIsRun

(* __main__.py: what a headless process leaves behind when it exits.       *)
NothingLeftBehind == H!NothingLeftBehind

(* __main__.py: a headless process exits, whatever its teammates and tasks *)
(* do or do not do.                                                        *)
HeadlessExits == focus = "headless" ~> H!Exits
=============================================================================
