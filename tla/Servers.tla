------------------------------ MODULE Servers ------------------------------
(***************************************************************************)
(* One MCP server of the configuration (src/myclaude/mcp/): the client     *)
(* that connects to it when the program starts, the tool calls of the      *)
(* agents, which all share the client, the reconnection a call makes when  *)
(* the client is not alive, and the shutdown.  A connection is a server    *)
(* process (or an HTTP session) with the exit stack that ends it; the      *)
(* client remembers one stack.                                             *)
(***************************************************************************)
EXTENDS Naturals, FiniteSets

CONSTANTS
    Agents,         \* the agents of the process
    MaxServers      \* bound: connections

VARIABLES
    made,       \* connections made
    up,         \* the servers running
    stack,      \* MCPClient._stack, or 0
    session,    \* MCPClient._session, or 0
    alive,      \* MCPClient._alive
    managed,    \* "starting"; "yes"; "no" after the shutdown; "never" connected
    at,         \* at[a]: "idle", "connecting" or "calling"
    mine,       \* mine[a]: the connection a is making, or calls through
    excused     \* calls that failed, connections that were cut, made at once or too late

vars == <<made, up, stack, session, alive, managed, at, mine, excused>>

TypeOK ==
    /\ made \in 0..MaxServers /\ up \subseteq 1..made
    /\ stack \in 0..made /\ session \in 0..made /\ alive \in BOOLEAN
    /\ managed \in {"starting", "yes", "no", "never"}
    /\ at \in [Agents -> {"idle", "connecting", "calling"}] /\ mine \in [Agents -> 0..made]
    /\ excused \in 0..MaxServers

\* connect_all is connecting.
Init ==
    /\ made = 1 /\ up = {1} /\ stack = 1
    /\ session = 0 /\ alive = FALSE /\ managed = "starting"
    /\ at = [a \in Agents |-> "idle"] /\ mine = [a \in Agents |-> 0]
    /\ excused = 0

\* Everything opened so far is forgotten instead.
StackDropped == up' = up /\ stack' = 0

\* _cleanup_stack: whichever stack the client has by now.
StackClosed == up' = up \ {stack} /\ stack' = 0

\* connect_all: the client becomes the manager's when it is connected, not before.
Started ==
    /\ managed = "starting"
    /\ \/ /\ managed' = "yes" /\ stack \in up
          /\ session' = stack /\ alive' = TRUE /\ UNCHANGED <<up, stack>>
       \/ managed' = "never" /\ StackClosed /\ UNCHANGED <<session, alive>>
    /\ UNCHANGED <<made, at, mine, excused>>

\* Something the leak of a connection may be put down to.
Excuse == excused' = IF excused < MaxServers THEN excused + 1 ELSE excused

\* The user cancels the wait for it: what was being opened is nobody's.
StartCut ==
    /\ managed = "starting" /\ managed' = "never" /\ Excuse
    /\ UNCHANGED <<made, up, stack, session, alive, at, mine>>

\* MCPToolWrapper.execute through a client that says it is alive; there are tools only of a
\* server that was connected.
Call(a) ==
    /\ managed \in {"yes", "no"} /\ alive /\ at[a] = "idle"
    /\ at' = [at EXCEPT ![a] = "calling"] /\ mine' = [mine EXCEPT ![a] = session]
    /\ UNCHANGED <<made, up, stack, session, alive, managed, excused>>

\* ... or through one that is not, at times after the shutdown: connect makes a new stack
\* without closing the old one.
Connect(a) ==
    /\ managed \in {"yes", "no"} /\ ~alive /\ at[a] = "idle" /\ made < MaxServers
    /\ made' = made + 1 /\ up' = up \cup {made + 1} /\ stack' = made + 1
    /\ at' = [at EXCEPT ![a] = "connecting"] /\ mine' = [mine EXCEPT ![a] = made + 1]
    /\ IF managed = "no" \/ \E b \in Agents : at[b] = "connecting" THEN Excuse
       ELSE UNCHANGED excused
    /\ UNCHANGED <<session, alive, managed>>

\* The session goes on where the client's stack is now; without one the connection fails.
Connected(a) ==
    /\ at[a] = "connecting" /\ mine[a] \in up /\ stack # 0
    /\ at' = [at EXCEPT ![a] = "calling"]
    /\ session' = mine[a] /\ alive' = TRUE
    /\ UNCHANGED <<made, up, stack, managed, mine, excused>>

ConnectFails(a) ==
    /\ at[a] = "connecting" /\ at' = [at EXCEPT ![a] = "idle"]
    /\ StackClosed
    /\ UNCHANGED <<made, session, alive, managed, mine, excused>>

\* The run is cancelled while its call connects: nothing is closed.
ConnectCut(a) ==
    /\ at[a] = "connecting" /\ at' = [at EXCEPT ![a] = "idle"] /\ Excuse
    /\ UNCHANGED <<made, up, stack, session, alive, managed, mine>>

\* The server answers, with a result or an error of the tool; or the run is cancelled.
CallEnds(a) ==
    /\ at[a] = "calling" /\ at' = [at EXCEPT ![a] = "idle"]
    /\ UNCHANGED <<made, up, stack, session, alive, managed, mine, excused>>

\* The call raises: the client is taken for dead, whether or not the server is, and although
\* another agent may have connected it anew.
CallFails(a) ==
    /\ at[a] = "calling" /\ at' = [at EXCEPT ![a] = "idle"]
    /\ alive' = FALSE /\ Excuse
    /\ UNCHANGED <<made, up, stack, session, managed, mine>>

Dies(s) ==
    /\ s \in up /\ up' = up \ {s}
    /\ UNCHANGED <<made, stack, session, alive, managed, at, mine, excused>>

\* MCPManager.shutdown closes the clients it has; agents in the background may still call.
Shutdown ==
    /\ managed = "yes" /\ managed' = "no"
    /\ alive' = FALSE /\ session' = 0 /\ StackClosed
    /\ UNCHANGED <<made, at, mine, excused>>

Next ==
    \/ Started \/ StartCut \/ Shutdown
    \/ \E a \in Agents : \/ Call(a) \/ Connect(a) \/ Connected(a) \/ ConnectFails(a)
                         \/ ConnectCut(a) \/ CallEnds(a) \/ CallFails(a)
    \/ \E s \in 1..MaxServers : Dies(s)

Spec == Init /\ [][Next]_vars

-----------------------------------------------------------------------------
(* A server that runs is the one the client can end, and none runs after   *)
(* the shutdown, but for at most one for each call that failed, each       *)
(* connection that was cut, and each made while another was being made or  *)
(* after the shutdown; and a client that says it is alive has a session to *)
(* call through.                                                           *)
ServersHeld ==
    /\ Cardinality(up \ {stack}) <= excused
    /\ managed \in {"no", "never"} => Cardinality(up) <= excused
    /\ alive => session # 0
=============================================================================
