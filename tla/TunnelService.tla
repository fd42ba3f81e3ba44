---------------------------- MODULE TunnelService ----------------------------
(***************************************************************************)
(* What the agent registry and its connections promise to the SFTP         *)
(* sessions of the gateway, without sockets, timers or request ids.        *)
(*                                                                         *)
(* A session asks whether an agent is online and, if it is, sends it a     *)
(* request.  The promise of sendRequest is resolved exactly once: with the *)
(* agent's response, with TIMEOUT, or with AGENT_OFFLINE.  No promise is   *)
(* left outstanding on an agent that the registry does not hold.           *)
(*                                                                         *)
(* AgentTunnel implements this specification and SftpSession is built on   *)
(* it.                                                                     *)
(***************************************************************************)
CONSTANTS Agents,    \* agent ids, the server ids of the virtual root
          Requests   \* requests that can be outstanding at once

VARIABLES
    online,     \* the agents in AgentRegistry.activeAgents
    waiting,    \* per agent, the requests whose promise is outstanding
    outcome     \* per request, how its latest promise stands

tunnelVars == <<online, waiting, outcome>>

Settled == {"unsent", "ANSWERED", "TIMEOUT", "AGENT_OFFLINE"}

TunnelTypeOK ==
    /\ online \subseteq Agents
    /\ waiting \in [Agents -> SUBSET Requests]
    /\ outcome \in [Requests -> Settled \union {"waiting"}]

TunnelInit ==
    /\ online = {}
    /\ waiting = [a \in Agents |-> {}]
    /\ outcome = [r \in Requests |-> "unsent"]

-----------------------------------------------------------------------------

\* Every outstanding promise on agent a is resolved with AGENT_OFFLINE.
Abandon(a) ==
    /\ outcome' = [r \in Requests |->
                     IF r \in waiting[a] THEN "AGENT_OFFLINE" ELSE outcome[r]]
    /\ waiting' = [waiting EXCEPT ![a] = {}]

\* An agent authenticates that the registry does not hold.
Up(a) ==
    /\ a \notin online
    /\ online' = online \union {a}
    /\ UNCHANGED <<waiting, outcome>>

\* An agent authenticates again: the connection it had is closed.
Replaced(a) ==
    /\ a \in online
    /\ Abandon(a)
    /\ UNCHANGED online

\* The registry drops an agent.
Down(a) ==
    /\ a \in online
    /\ Abandon(a)
    /\ online' = online \ {a}

\* A request goes out to an online agent and its promise is outstanding.
Ask(a, r) ==
    /\ a \in online
    /\ outcome[r] # "waiting"
    /\ waiting' = [waiting EXCEPT ![a] = @ \union {r}]
    /\ outcome' = [outcome EXCEPT ![r] = "waiting"]
    /\ UNCHANGED online

\* The agent is still registered but its socket is already closing.
Refuse(a, r) ==
    /\ a \in online
    /\ outcome[r] # "waiting"
    /\ outcome' = [outcome EXCEPT ![r] = "AGENT_OFFLINE"]
    /\ UNCHANGED <<online, waiting>>

\* An outstanding promise is resolved, by the response or by the timer.
Settle(a, r, how) ==
    /\ r \in waiting[a]
    /\ waiting' = [waiting EXCEPT ![a] = @ \ {r}]
    /\ outcome' = [outcome EXCEPT ![r] = how]
    /\ UNCHANGED online

Answer(a, r) == Settle(a, r, "ANSWERED")
Expire(a, r) == Settle(a, r, "TIMEOUT")

-----------------------------------------------------------------------------

TunnelNext ==
    \E a \in Agents :
        \/ Up(a)
        \/ Replaced(a)
        \/ Down(a)
        \/ \E r \in Requests :
              Ask(a, r) \/ Refuse(a, r) \/ Answer(a, r) \/ Expire(a, r)

TunnelSpec == TunnelInit /\ [][TunnelNext]_tunnelVars
=============================================================================
