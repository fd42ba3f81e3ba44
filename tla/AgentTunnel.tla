----------------------------- MODULE AgentTunnel -----------------------------
(***************************************************************************)
(* The gateway's end of the agent tunnels: the WebSocket server of         *)
(* index.ts, AgentRegistry and AgentConnection.                            *)
(*                                                                         *)
(* Node runs one handler at a time to its end, so each action is a whole   *)
(* handler together with everything it calls.  What interleaves are the    *)
(* events: messages, socket close events, timers and the requests of the   *)
(* SFTP sessions.                                                          *)
(*                                                                         *)
(* A plugin opens one socket per connection attempt and authenticates on   *)
(* it once (GatewayConnection.onOpen), so an AgentConnection is identified *)
(* with its socket; `currentConnection` keeps the agent id it was made for.*)
(***************************************************************************)
EXTENDS FiniteSets

CONSTANTS
    Agents,     \* agent ids
    Sockets,    \* WebSockets that can exist at once
    Requests,   \* request ids; an id is used again only when it is forgotten
    NoAgent,    \* currentConnection = null
    NoSocket    \* no entry in activeAgents

ASSUME NoAgentAssumption  == NoAgent \notin Agents
ASSUME NoSocketAssumption == NoSocket \notin Sockets

VARIABLES
    readyState,         \* per socket, as the gateway's ws sees it
    currentConnection,  \* per socket, the agent id of its AgentConnection
    activeAgents,       \* AgentRegistry.activeAgents
    pendingRequests,    \* per connection, AgentConnection.pendingRequests
    inFlight,           \* per socket, the requests the plugin may still answer
    outcome             \* per request, how the promise of sendRequest stands

vars == <<readyState, currentConnection, activeAgents,
          pendingRequests, inFlight, outcome>>

-----------------------------------------------------------------------------
(* The types of the variables: every socket is in a state of ws, every     *)
(* registry entry is a socket, every outcome is one sendRequest can have.  *)

TypeOK ==
    /\ readyState \in [Sockets -> {"OPEN", "CLOSING", "CLOSED"}]
    /\ currentConnection \in [Sockets -> Agents \union {NoAgent}]
    /\ activeAgents \in [Agents -> Sockets \union {NoSocket}]
    /\ pendingRequests \in [Sockets -> SUBSET Requests]
    /\ inFlight \in [Sockets -> SUBSET Requests]
    /\ outcome \in [Requests -> {"unsent", "waiting", "ANSWERED",
                                 "TIMEOUT", "AGENT_OFFLINE"}]

Init ==
    /\ readyState = [s \in Sockets |-> "CLOSED"]
    /\ currentConnection = [s \in Sockets |-> NoAgent]
    /\ activeAgents = [a \in Agents |-> NoSocket]
    /\ pendingRequests = [s \in Sockets |-> {}]
    /\ inFlight = [s \in Sockets |-> {}]
    /\ outcome = [r \in Requests |-> "unsent"]

-----------------------------------------------------------------------------
(* AgentConnection.close of the connection on socket s; NoSocket closes    *)
(* nothing.  It resolves and forgets the pending requests and closes the   *)
(* socket, which has an effect only while the socket is open.              *)

\* Seeded bug: the promises are forgotten without being resolved.
AbandonedSilently(s) == outcome

\* Seeded bug: the connection is closed but its socket is not.
SocketLeftOpen(s) == readyState

Abandoned(s) ==
    [r \in Requests |->
        IF s # NoSocket /\ r \in pendingRequests[s] THEN "AGENT_OFFLINE"
                                                    ELSE outcome[r]]

Drained(s) == [x \in Sockets |-> IF x = s THEN {} ELSE pendingRequests[x]]

ClosedByGateway(s) ==
    [x \in Sockets |-> IF x = s /\ readyState[x] = "OPEN" THEN "CLOSING"
                                                          ELSE readyState[x]]

\* Seeded bug: registerAgent forgets to close what it replaces.
ExistingIgnored(a) == NoSocket

\* The connection that registerAgent finds under the id.
Existing(a) == activeAgents[a]

\* Seeded bug: unregisterAgent closes the connection and keeps the entry.
EntryKept(a) == activeAgents

\* activeAgents after unregisterAgent.
Unregistered(a) == [x \in Agents |-> IF x = a THEN NoSocket ELSE activeAgents[x]]

-----------------------------------------------------------------------------
(* The life of a socket.                                                   *)

\* A plugin connects and the upgrade is accepted.  The new socket takes the
\* place of one that is closed for good.
Connect(s) ==
    /\ readyState[s] = "CLOSED"
    /\ readyState' = [readyState EXCEPT ![s] = "OPEN"]
    /\ currentConnection' = [currentConnection EXCEPT ![s] = NoAgent]
    /\ UNCHANGED <<activeAgents, pendingRequests, inFlight, outcome>>

\* An auth message with a valid secret: registerAgent closes the connection
\* that is registered under the id, if any, and registers the new one.
AuthAccept(s, a) ==
    /\ readyState[s] = "OPEN"
    /\ currentConnection[s] = NoAgent
    /\ currentConnection' = [currentConnection EXCEPT ![s] = a]
    /\ activeAgents' = [activeAgents EXCEPT ![a] = s]
    /\ readyState' = ClosedByGateway(Existing(a))
    /\ pendingRequests' = Drained(Existing(a))
    /\ outcome' = Abandoned(Existing(a))
    /\ UNCHANGED inFlight

\* An auth message with a wrong id or secret: AUTH_FAILED and ws.close().
AuthReject(s) ==
    /\ readyState[s] = "OPEN"
    /\ currentConnection[s] = NoAgent
    /\ readyState' = [readyState EXCEPT ![s] = "CLOSING"]
    /\ UNCHANGED <<currentConnection, activeAgents, pendingRequests,
                   inFlight, outcome>>

\* The plugin closes, or the network drops the connection: ws leaves OPEN
\* before it emits 'close'.
RemoteClose(s) ==
    /\ readyState[s] = "OPEN"
    /\ readyState' = [readyState EXCEPT ![s] = "CLOSING"]
    /\ UNCHANGED <<currentConnection, activeAgents, pendingRequests,
                   inFlight, outcome>>

\* The 'close' event of a socket: unregisterAgent by the agent id of its
\* connection, which closes and drops whichever connection is registered.
SocketClosed(s) ==
    LET a == currentConnection[s]
        registered == IF a = NoAgent THEN NoSocket ELSE activeAgents[a]
    IN
    /\ readyState[s] = "CLOSING"
    /\ readyState' = [ClosedByGateway(registered) EXCEPT ![s] = "CLOSED"]
    /\ activeAgents' = Unregistered(a)
    /\ pendingRequests' = Drained(registered)
    /\ outcome' = Abandoned(registered)
    /\ inFlight' = [inFlight EXCEPT ![s] = {}]
    /\ UNCHANGED currentConnection

-----------------------------------------------------------------------------
(* Requests.                                                               *)

\* A session looks the agent up and calls sendRequest in the same turn.  A
\* random request id is never one that is still in use.
SendRequest(a, r) ==
    LET s == activeAgents[a] IN
    /\ s # NoSocket
    /\ outcome[r] # "waiting"
    /\ \A x \in Sockets : r \notin inFlight[x]
    /\ \/ /\ readyState[s] = "OPEN"
          /\ pendingRequests' = [pendingRequests EXCEPT ![s] = @ \union {r}]
          /\ inFlight' = [inFlight EXCEPT ![s] = @ \union {r}]
          /\ outcome' = [outcome EXCEPT ![r] = "waiting"]
       \/ /\ readyState[s] # "OPEN"
          /\ outcome' = [outcome EXCEPT ![r] = "AGENT_OFFLINE"]
          /\ UNCHANGED <<pendingRequests, inFlight>>
    /\ UNCHANGED <<readyState, currentConnection, activeAgents>>

\* Seeded bug: a response is believed whether or not the request is pending.
ResponseAlwaysResolves(s, r) == [outcome EXCEPT ![r] = "ANSWERED"]

\* handleIncomingMessage resolves the promise of a pending request only.
ResponseResolves(s, r) ==
    IF r \in pendingRequests[s] THEN [outcome EXCEPT ![r] = "ANSWERED"]
                                ELSE outcome

\* A response arrives; ws delivers messages until the socket is closed.
HandleIncomingMessage(s, r) ==
    /\ readyState[s] \in {"OPEN", "CLOSING"}
    /\ r \in inFlight[s]
    /\ inFlight' = [inFlight EXCEPT ![s] = @ \ {r}]
    /\ pendingRequests' = [pendingRequests EXCEPT ![s] = @ \ {r}]
    /\ outcome' = ResponseResolves(s, r)
    /\ UNCHANGED <<readyState, currentConnection, activeAgents>>

\* Seeded bug: a timed out request is reported with a code of its own.
TimedOutUnknown(s, r) == [outcome EXCEPT ![r] = "TIMED_OUT"]

\* What the timer of a request resolves its promise with.
TimedOut(s, r) == [outcome EXCEPT ![r] = "TIMEOUT"]

\* The 30 second timer of a pending request fires.
Timeout(s, r) ==
    /\ r \in pendingRequests[s]
    /\ pendingRequests' = [pendingRequests EXCEPT ![s] = @ \ {r}]
    /\ outcome' = TimedOut(s, r)
    /\ UNCHANGED <<readyState, currentConnection, activeAgents, inFlight>>

-----------------------------------------------------------------------------

Next ==
    \E s \in Sockets :
        \/ Connect(s)
        \/ AuthReject(s)
        \/ RemoteClose(s)
        \/ SocketClosed(s)
        \/ \E a \in Agents : AuthAccept(s, a)
        \/ \E a \in Agents, r \in Requests : SendRequest(a, r)
        \/ \E r \in Requests : HandleIncomingMessage(s, r) \/ Timeout(s, r)

Spec == Init /\ [][Next]_vars

\* A timer fires unless it is cleared, and ws destroys a socket whose closing
\* handshake does not end within its close timeout.
Fairness ==
    \A s \in Sockets :
        /\ WF_vars(SocketClosed(s))
        /\ \A r \in Requests : WF_vars(Timeout(s, r))

FairSpec == Spec /\ Fairness

-----------------------------------------------------------------------------
(* Safety.                                                                 *)

\* The registry holds an agent's own connection, and drops it no later than
\* the handler of its socket's 'close' event: a session never gets a
\* connection of another agent or one that is closed for good.
RegisteredIsConnected ==
    \A a \in Agents :
        LET s == activeAgents[a] IN
        s # NoSocket => /\ currentConnection[s] = a
                        /\ readyState[s] \in {"OPEN", "CLOSING"}

\* An agent has one live connection: an authenticated socket that is open is
\* the one in the registry, whatever order sockets of the agent came and went
\* in.  Otherwise a plugin would hold a tunnel that no session can use.
OpenIsRegistered ==
    \A s \in Sockets :
        readyState[s] = "OPEN" /\ currentConnection[s] # NoAgent
            => activeAgents[currentConnection[s]] = s

\* Requests are pending on registered connections only: a connection that is
\* replaced or unregistered leaves no session waiting for its timer.
PendingOnlyOnRegistered ==
    \A s \in Sockets :
        pendingRequests[s] # {}
            => /\ currentConnection[s] # NoAgent
               /\ activeAgents[currentConnection[s]] = s

\* A promise is outstanding exactly while one connection has the request in
\* its pendingRequests: none is forgotten unresolved and none resolved early.
WaitingIsPending ==
    \A r \in Requests :
        /\ outcome[r] = "waiting" <=> \E s \in Sockets : r \in pendingRequests[s]
        /\ \A s, t \in Sockets :
              r \in pendingRequests[s] /\ r \in pendingRequests[t] => s = t

\* The conjunction is inductive.
TunnelInv ==
    /\ TypeOK
    /\ RegisteredIsConnected
    /\ OpenIsRegistered
    /\ PendingOnlyOnRegistered
    /\ WaitingIsPending

\* What "agent_unregistered" tells the sessions, whose listener aborts "handles
\* linked to the disconnected server": an agent is dropped only once the
\* socket it was registered with is closed.
UnregisteredMeansDisconnected ==
    [][\A a \in Agents :
          activeAgents[a] # NoSocket /\ activeAgents'[a] = NoSocket
              => readyState'[activeAgents[a]] = "CLOSED"]_vars

-----------------------------------------------------------------------------
(* Liveness.                                                               *)

\* Every promise of sendRequest is settled: no SFTP operation hangs on an
\* agent that is silent, replaced or gone.
EveryRequestSettles ==
    \A r \in Requests : outcome[r] = "waiting" ~> outcome[r] # "waiting"

\* A connection whose socket is closing leaves the registry: a dead agent is
\* not reported online for ever.
ClosingIsForgotten ==
    \A a \in Agents, s \in Sockets :
        activeAgents[a] = s /\ readyState[s] = "CLOSING" ~> activeAgents[a] # s

-----------------------------------------------------------------------------
(* Refinement.                                                             *)

online == {a \in Agents : activeAgents[a] # NoSocket}

waiting ==
    [a \in Agents |-> IF activeAgents[a] = NoSocket
                      THEN {} ELSE pendingRequests[activeAgents[a]]]

\* The tunnels keep the promise the sessions are built on.
Service == INSTANCE TunnelService

ImplementsService == Service!TunnelSpec
=============================================================================
