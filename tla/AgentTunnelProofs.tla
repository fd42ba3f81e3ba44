-------------------------- MODULE AgentTunnelProofs --------------------------
(***************************************************************************)
(* Proofs about AgentTunnel for every set of agents, sockets and requests: *)
(* its invariant, and that it implements TunnelService.                    *)
(***************************************************************************)
EXTENDS AgentTunnel, TLAPS

USE NoAgentAssumption, NoSocketAssumption

-----------------------------------------------------------------------------
(* The type invariant.                                                     *)

\* The initial state is well typed.
LEMMA InitTypeOK == Init => TypeOK
  BY DEF Init, TypeOK

\* Every handler of the tunnel server keeps its state well typed.
LEMMA NextTypeOK == TypeOK /\ [Next]_vars => TypeOK'
<1> SUFFICES ASSUME TypeOK, [Next]_vars PROVE TypeOK'
  OBVIOUS
<1> USE DEF TypeOK
<1>1. ASSUME NEW s \in Sockets, Connect(s) PROVE TypeOK'
  BY <1>1 DEF Connect
<1>2. ASSUME NEW s \in Sockets, NEW a \in Agents, AuthAccept(s, a) PROVE TypeOK'
  BY <1>2 DEF AuthAccept, Existing, ClosedByGateway, Drained, Abandoned
<1>3. ASSUME NEW s \in Sockets, AuthReject(s) PROVE TypeOK'
  BY <1>3 DEF AuthReject
<1>4. ASSUME NEW s \in Sockets, RemoteClose(s) PROVE TypeOK'
  BY <1>4 DEF RemoteClose
<1>5. ASSUME NEW s \in Sockets, SocketClosed(s) PROVE TypeOK'
  BY <1>5 DEF SocketClosed, Unregistered, ClosedByGateway, Drained, Abandoned
<1>6. ASSUME NEW a \in Agents, NEW r \in Requests, SendRequest(a, r) PROVE TypeOK'
  BY <1>6 DEF SendRequest
<1>7. ASSUME NEW s \in Sockets, NEW r \in Requests, HandleIncomingMessage(s, r)
      PROVE TypeOK'
  BY <1>7 DEF HandleIncomingMessage, ResponseResolves
<1>8. ASSUME NEW s \in Sockets, NEW r \in Requests, Timeout(s, r) PROVE TypeOK'
  BY <1>8 DEF Timeout, TimedOut
<1>9. CASE UNCHANGED vars
  BY <1>9 DEF vars
<1> QED
  BY <1>1, <1>2, <1>3, <1>4, <1>5, <1>6, <1>7, <1>8, <1>9 DEF Next

\* Every variable of the tunnel server keeps its type.
THEOREM TunnelTypeCorrect == Spec => []TypeOK
  BY InitTypeOK, NextTypeOK, PTL DEF Spec

-----------------------------------------------------------------------------
(* The inductive invariant.                                                *)

\* The initial state satisfies it.
LEMMA InitInv == Init => TunnelInv
  BY InitTypeOK DEF Init, TunnelInv, RegisteredIsConnected, OpenIsRegistered,
     PendingOnlyOnRegistered, WaitingIsPending

\* The invariant speaks of the registry, the connections and the promises; a
\* step on requests alone leaves its first three parts alone when it adds to
\* a registered connection only.
LEMMA NextInv == TunnelInv /\ [Next]_vars => TunnelInv'
<1> SUFFICES ASSUME TunnelInv, [Next]_vars PROVE TunnelInv'
  OBVIOUS
<1>0. TypeOK /\ TypeOK'
  BY NextTypeOK DEF TunnelInv
<1> USE <1>0 DEF TunnelInv
<1>1. ASSUME NEW s \in Sockets, Connect(s) PROVE TunnelInv'
  <2> USE <1>1 DEF Connect, TypeOK
  <2>1. /\ readyState'[s] = "OPEN" /\ currentConnection'[s] = NoAgent
        /\ \A x \in Sockets \ {s} :
              /\ readyState'[x] = readyState[x]
              /\ currentConnection'[x] = currentConnection[x]
    OBVIOUS
  <2>2. \A a \in Agents : activeAgents[a] # s
    BY DEF RegisteredIsConnected
  <2>3. pendingRequests[s] = {}
    BY <2>2 DEF PendingOnlyOnRegistered
  <2>4. RegisteredIsConnected'
    BY <2>1, <2>2 DEF RegisteredIsConnected
  <2>5. OpenIsRegistered'
    BY <2>1 DEF OpenIsRegistered
  <2>6. PendingOnlyOnRegistered'
    BY <2>1, <2>3 DEF PendingOnlyOnRegistered
  <2>7. WaitingIsPending'
    BY DEF WaitingIsPending
  <2> QED
    BY <2>4, <2>5, <2>6, <2>7
<1>2. ASSUME NEW s \in Sockets, NEW a \in Agents, AuthAccept(s, a)
      PROVE TunnelInv'
  <2> USE <1>2 DEF AuthAccept, Existing, TypeOK
  <2>1. \A b \in Agents : activeAgents[b] # s
    BY DEF RegisteredIsConnected
  <2>2. \A b \in Agents \ {a} :
           activeAgents[b] = activeAgents[a] => activeAgents[b] = NoSocket
    BY DEF RegisteredIsConnected
  <2>3. pendingRequests[s] = {}
    BY DEF PendingOnlyOnRegistered
  <2>4. RegisteredIsConnected'
    BY <2>1, <2>2 DEF RegisteredIsConnected, ClosedByGateway
  <2>5. OpenIsRegistered'
    BY <2>1, <2>2 DEF OpenIsRegistered, ClosedByGateway
  <2>6. PendingOnlyOnRegistered'
    BY <2>1, <2>3 DEF PendingOnlyOnRegistered, Drained
  <2>7. WaitingIsPending'
    BY DEF WaitingIsPending, Drained, Abandoned
  <2> QED
    BY <2>4, <2>5, <2>6, <2>7
<1>3. ASSUME NEW s \in Sockets, AuthReject(s) \/ RemoteClose(s) PROVE TunnelInv'
  BY <1>3 DEF AuthReject, RemoteClose, TypeOK, RegisteredIsConnected,
     OpenIsRegistered, PendingOnlyOnRegistered, WaitingIsPending
<1>5. ASSUME NEW s \in Sockets, SocketClosed(s) PROVE TunnelInv'
  <2> USE <1>5 DEF SocketClosed, TypeOK
  <2> DEFINE a == currentConnection[s]
             registered == IF a = NoAgent THEN NoSocket ELSE activeAgents[a]
  <2>1. \A b \in Agents : activeAgents[b] = s => b = a
    BY DEF RegisteredIsConnected
  <2>2. \A b \in Agents :
           activeAgents[b] = registered /\ b # a => activeAgents[b] = NoSocket
    BY DEF RegisteredIsConnected
  <2>3. RegisteredIsConnected'
    BY <2>1, <2>2 DEF RegisteredIsConnected, ClosedByGateway, Unregistered
  <2>4. OpenIsRegistered'
    BY <2>2 DEF OpenIsRegistered, ClosedByGateway, Unregistered
  <2>5. PendingOnlyOnRegistered'
    BY <2>2 DEF PendingOnlyOnRegistered, Drained, Unregistered
  <2>6. WaitingIsPending'
    BY DEF WaitingIsPending, Drained, Abandoned
  <2> QED
    BY <2>3, <2>4, <2>5, <2>6
<1>6. ASSUME NEW a \in Agents, NEW r \in Requests, SendRequest(a, r)
      PROVE TunnelInv'
  BY <1>6 DEF SendRequest, TypeOK, RegisteredIsConnected,
     OpenIsRegistered, PendingOnlyOnRegistered, WaitingIsPending
<1>7. ASSUME NEW s \in Sockets, NEW r \in Requests, HandleIncomingMessage(s, r)
      PROVE TunnelInv'
  BY <1>7 DEF HandleIncomingMessage, ResponseResolves, TypeOK,
     RegisteredIsConnected, OpenIsRegistered, PendingOnlyOnRegistered,
     WaitingIsPending
<1>8. ASSUME NEW s \in Sockets, NEW r \in Requests, Timeout(s, r)
      PROVE TunnelInv'
  BY <1>8 DEF Timeout, TimedOut, TypeOK, RegisteredIsConnected,
     OpenIsRegistered, PendingOnlyOnRegistered, WaitingIsPending
<1>9. CASE UNCHANGED vars
  BY <1>9 DEF vars, RegisteredIsConnected, OpenIsRegistered,
     PendingOnlyOnRegistered, WaitingIsPending
<1> QED
  BY <1>1, <1>2, <1>3, <1>5, <1>6, <1>7, <1>8, <1>9 DEF Next

\* The invariant holds of every behaviour of the tunnel server.
THEOREM TunnelInvariant == Spec => []TunnelInv
  BY InitInv, NextInv, PTL DEF Spec

\* An authenticated socket that is open is the one its agent is registered
\* with, in whatever order the sockets of the agent came and went.
THEOREM OneLiveConnection == Spec => []OpenIsRegistered
  BY TunnelInvariant, PTL DEF TunnelInv

\* A promise is outstanding exactly while one connection has it pending, and
\* that connection is in the registry.
THEOREM NoForgottenPromise ==
    Spec => [](WaitingIsPending /\ PendingOnlyOnRegistered)
  BY TunnelInvariant, PTL DEF TunnelInv

-----------------------------------------------------------------------------
(* The tunnels implement TunnelService.                                    *)

\* The initial state maps to an initial state.
LEMMA InitMaps == Init => Service!TunnelInit
  BY DEF Init, Service!TunnelInit, online, waiting

\* Every step maps to a step of the service or leaves it unchanged.
LEMMA NextMaps ==
    TunnelInv /\ [Next]_vars
        => Service!TunnelNext \/ UNCHANGED Service!tunnelVars
<1> SUFFICES ASSUME TunnelInv, [Next]_vars
             PROVE  Service!TunnelNext \/ UNCHANGED Service!tunnelVars
  OBVIOUS
<1> USE DEF TunnelInv, TypeOK, online, waiting
<1>1. ASSUME NEW s \in Sockets,
             Connect(s) \/ AuthReject(s) \/ RemoteClose(s)
      PROVE UNCHANGED Service!tunnelVars
  BY <1>1 DEF Connect, AuthReject, RemoteClose, Service!tunnelVars
<1>2. ASSUME NEW s \in Sockets, NEW a \in Agents, AuthAccept(s, a)
      PROVE Service!Up(a) \/ Service!Replaced(a)
  <2> USE <1>2 DEF AuthAccept, Existing
  <2>1. pendingRequests[s] = {} /\ activeAgents[a] # s
    BY DEF PendingOnlyOnRegistered, RegisteredIsConnected
  <2>2. \A b \in Agents \ {a} :
           activeAgents[b] = activeAgents[a] => activeAgents[b] = NoSocket
    BY DEF RegisteredIsConnected
  <2>3. \A b \in Agents \ {a} : waiting'[b] = waiting[b]
    BY <2>2 DEF Drained
  <2>4. waiting'[a] = {}
    BY <2>1 DEF Drained
  <2>5. CASE activeAgents[a] = NoSocket
    <3>1. waiting' = waiting
      BY <2>3, <2>4, <2>5
    <3>2. outcome' = outcome
      BY <2>5 DEF Abandoned
    <3>3. online' = online \union {a} /\ a \notin online
      BY <2>5
    <3> QED
      BY <3>1, <3>2, <3>3 DEF Service!Up
  <2>6. CASE activeAgents[a] # NoSocket
    <3>1. waiting' = [waiting EXCEPT ![a] = {}]
      BY <2>3, <2>4
    <3>2. outcome' = [r \in Requests |-> IF r \in waiting[a]
                          THEN "AGENT_OFFLINE" ELSE outcome[r]]
      BY <2>6 DEF Abandoned
    <3>3. online' = online /\ a \in online
      BY <2>6
    <3> QED
      BY <3>1, <3>2, <3>3 DEF Service!Replaced, Service!Abandon
  <2> QED
    BY <2>5, <2>6
<1>3. ASSUME NEW s \in Sockets, SocketClosed(s)
      PROVE \/ \E a \in Agents : Service!Down(a)
            \/ UNCHANGED Service!tunnelVars
  <2> USE <1>3 DEF SocketClosed, Unregistered
  <2> DEFINE a == currentConnection[s]
  <2>1. CASE a = NoAgent
    BY <2>1 DEF Drained, Abandoned, Service!tunnelVars
  <2>2. CASE a # NoAgent /\ activeAgents[a] = NoSocket
    BY <2>2 DEF Drained, Abandoned, Service!tunnelVars
  <2>3. CASE a # NoAgent /\ activeAgents[a] # NoSocket
    <3>1. a \in online /\ online' = online \ {a}
      BY <2>3
    <3>2. \A b \in Agents \ {a} :
             activeAgents[b] = activeAgents[a] => activeAgents[b] = NoSocket
      BY <2>3 DEF RegisteredIsConnected
    <3>3. waiting' = [waiting EXCEPT ![a] = {}]
      BY <2>3, <3>2 DEF Drained
    <3>4. outcome' = [r \in Requests |-> IF r \in waiting[a]
                          THEN "AGENT_OFFLINE" ELSE outcome[r]]
      BY <2>3 DEF Abandoned
    <3> QED
      BY <3>1, <3>3, <3>4, <2>3 DEF Service!Down, Service!Abandon
  <2> QED
    BY <2>1, <2>2, <2>3
<1>4. ASSUME NEW a \in Agents, NEW r \in Requests, SendRequest(a, r)
      PROVE Service!Ask(a, r) \/ Service!Refuse(a, r)
  <2> USE <1>4 DEF SendRequest
  <2>1. CASE readyState[activeAgents[a]] = "OPEN"
    <3>1. \A b \in Agents \ {a} : activeAgents[b] # activeAgents[a]
      BY DEF RegisteredIsConnected
    <3>2. waiting' = [waiting EXCEPT ![a] = @ \union {r}]
      <4>1. pendingRequests' =
               [pendingRequests EXCEPT ![activeAgents[a]] = @ \union {r}]
        BY <2>1
      <4>2. waiting'[a] = waiting[a] \union {r}
        BY <4>1
      <4>3. \A b \in Agents \ {a} : waiting'[b] = waiting[b]
        BY <4>1, <3>1
      <4> QED
        BY <4>2, <4>3
    <3>3. a \in online /\ online' = online
      OBVIOUS
    <3>4. outcome[r] # "waiting" /\ outcome' = [outcome EXCEPT ![r] = "waiting"]
      BY <2>1
    <3> HIDE DEF online, waiting, TypeOK, TunnelInv, SendRequest
    <3> QED
      BY <3>2, <3>3, <3>4 DEF Service!Ask
  <2>2. CASE readyState[activeAgents[a]] # "OPEN"
    BY <2>2 DEF Service!Refuse
  <2> QED
    BY <2>1, <2>2
<1>5. ASSUME NEW s \in Sockets, NEW r \in Requests,
             r \in pendingRequests[s], NEW how,
             pendingRequests' = [pendingRequests EXCEPT ![s] = @ \ {r}],
             outcome' = [outcome EXCEPT ![r] = how],
             UNCHANGED activeAgents
      PROVE /\ currentConnection[s] \in Agents
            /\ Service!Settle(currentConnection[s], r, how)
  <2> DEFINE a == currentConnection[s]
  <2>1. a \in Agents /\ activeAgents[a] = s
    BY <1>5 DEF PendingOnlyOnRegistered
  <2>2. \A b \in Agents \ {a} : activeAgents[b] # s
    BY DEF RegisteredIsConnected
  <2>3. waiting' = [waiting EXCEPT ![a] = @ \ {r}]
    BY <1>5, <2>1, <2>2
  <2>4. r \in waiting[a] /\ online' = online
    BY <1>5, <2>1
  <2> HIDE DEF online, waiting, TypeOK, TunnelInv
  <2> QED
    BY <1>5, <2>1, <2>3, <2>4 DEF Service!Settle
<1>6. ASSUME NEW s \in Sockets, NEW r \in Requests, HandleIncomingMessage(s, r)
      PROVE \/ \E a \in Agents : Service!Answer(a, r)
            \/ UNCHANGED Service!tunnelVars
  <2> USE <1>6 DEF HandleIncomingMessage, ResponseResolves
  <2>1. CASE r \in pendingRequests[s]
    <3>1. /\ currentConnection[s] \in Agents
          /\ Service!Settle(currentConnection[s], r, "ANSWERED")
      BY <2>1, <1>5
    <3> QED
      BY <3>1 DEF Service!Answer
  <2>2. CASE r \notin pendingRequests[s]
    <3>1. pendingRequests[s] \ {r} = pendingRequests[s]
      BY <2>2
    <3>2. pendingRequests' = pendingRequests
      BY <3>1
    <3> QED
      BY <2>2, <3>2 DEF Service!tunnelVars
  <2> QED
    BY <2>1, <2>2
<1>7. ASSUME NEW s \in Sockets, NEW r \in Requests, Timeout(s, r)
      PROVE \E a \in Agents : Service!Expire(a, r)
  <2>1. /\ currentConnection[s] \in Agents
        /\ Service!Settle(currentConnection[s], r, "TIMEOUT")
    BY <1>7, <1>5 DEF Timeout, TimedOut
  <2> QED
    BY <2>1 DEF Service!Expire
<1>8. CASE UNCHANGED vars
  BY <1>8 DEF vars, Service!tunnelVars
<1> QED
  BY <1>1, <1>2, <1>3, <1>4, <1>6, <1>7, <1>8 DEF Next, Service!TunnelNext

\* The registry with its connections, sockets and timers implements the
\* service that the SFTP sessions are specified over.
THEOREM TunnelImplementsService == Spec => ImplementsService
  BY TunnelInvariant, InitMaps, NextMaps, PTL
     DEF Spec, ImplementsService, Service!TunnelSpec

-----------------------------------------------------------------------------
(* What holds of the events that come late.                                *)

\* A connection that agent a had before is closing, and its 'close' event is
\* still to come.
StaleCloseComes(a) ==
    \E s \in Sockets :
        /\ s # activeAgents[a]
        /\ currentConnection[s] = a /\ readyState[s] = "CLOSING"

\* The registry drops an agent in the handler of a 'close' event of the agent's
\* own: of the socket that is registered, or of one that it has replaced.
LEMMA DroppedByClose ==
    ASSUME TypeOK, [Next]_vars, NEW a \in Agents,
           activeAgents[a] # NoSocket, activeAgents'[a] = NoSocket
    PROVE  \E s \in Sockets :
              /\ currentConnection[s] = a
              /\ readyState[s] = "CLOSING" /\ readyState'[s] = "CLOSED"
<1> USE DEF TypeOK
<1>1. ASSUME NEW s \in Sockets, SocketClosed(s)
      PROVE  /\ currentConnection[s] = a
             /\ readyState[s] = "CLOSING" /\ readyState'[s] = "CLOSED"
  BY <1>1 DEF SocketClosed, Unregistered, ClosedByGateway
<1>2. ASSUME NEW s \in Sockets, NEW b \in Agents, AuthAccept(s, b) PROVE FALSE
  BY <1>2 DEF AuthAccept
<1>3. CASE UNCHANGED activeAgents
  BY <1>3
<1> QED
  BY <1>1, <1>2, <1>3 DEF Next, vars, Connect, AuthReject, RemoteClose, SendRequest,
     HandleIncomingMessage, Timeout

\* The registry drops an agent whose socket goes on.
LiveAgentDropped(a) ==
    /\ activeAgents[a] # NoSocket /\ activeAgents'[a] = NoSocket
    /\ readyState'[activeAgents[a]] # "CLOSED"

\* UnregisteredMeansDisconnected fails when the 'close' event of a replaced
\* connection comes after the agent has registered again, and in no other way:
\* an agent that has no such event to come is dropped with its own socket.
THEOREM OnlyAStaleCloseDropsALiveAgent ==
    Spec => [][\A a \in Agents : LiveAgentDropped(a) => StaleCloseComes(a)]_vars
<1>1. ASSUME TunnelInv, [Next]_vars
      PROVE  [\A a \in Agents : LiveAgentDropped(a) => StaleCloseComes(a)]_vars
  BY <1>1, DroppedByClose DEF TunnelInv, LiveAgentDropped, StaleCloseComes
<1> QED
  BY <1>1, TunnelInvariant, PTL DEF Spec

\* The id r is given to a new request, and no response to the old one can come.
UsedAgain(r) ==
    /\ outcome'[r] \in {"waiting", "AGENT_OFFLINE"}
    /\ \A s \in Sockets : r \notin inFlight[s]

\* A promise that is settled stays as it is: neither a late response, nor the
\* timer, nor a close resolves it again, until its id is used for a new request,
\* which no socket may still answer.
THEOREM SettledPromisesStay ==
    Spec => [][\A r \in Requests :
                  outcome[r] # "waiting" /\ outcome'[r] # outcome[r] => UsedAgain(r)]_vars
<1>1. ASSUME TunnelInv, [Next]_vars, NEW r \in Requests,
             outcome[r] # "waiting", outcome'[r] # outcome[r]
      PROVE  UsedAgain(r)
  <2> USE <1>1 DEF TunnelInv, TypeOK
  <2>1. \A s \in Sockets : r \notin pendingRequests[s]
    BY DEF WaitingIsPending
  <2>2. ASSUME NEW a \in Agents, NEW q \in Requests, SendRequest(a, q)
        PROVE  UsedAgain(r)
    BY <2>2 DEF SendRequest, UsedAgain
  <2>3. ASSUME NEW s \in Sockets \union {NoSocket}, outcome' = Abandoned(s) PROVE FALSE
    BY <2>1, <2>3 DEF Abandoned
  <2>4. ASSUME NEW s \in Sockets, NEW q \in Requests,
               HandleIncomingMessage(s, q) \/ Timeout(s, q)
        PROVE  FALSE
    BY <2>1, <2>4 DEF HandleIncomingMessage, ResponseResolves, Timeout, TimedOut
  <2>5. ASSUME NEW s \in Sockets, NEW a \in Agents, AuthAccept(s, a) PROVE FALSE
    BY <2>3, <2>5 DEF AuthAccept, Existing
  <2>6. ASSUME NEW s \in Sockets, SocketClosed(s) PROVE FALSE
    BY <2>3, <2>6 DEF SocketClosed
  <2> QED
    BY <2>2, <2>4, <2>5, <2>6 DEF Next, vars, Connect, AuthReject, RemoteClose
<1>2. ASSUME TunnelInv, [Next]_vars
      PROVE  [\A r \in Requests :
                  outcome[r] # "waiting" /\ outcome'[r] # outcome[r] => UsedAgain(r)]_vars
  BY <1>1, <1>2
<1> QED
  BY <1>2, TunnelInvariant, PTL DEF Spec
=============================================================================
