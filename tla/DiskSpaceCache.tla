--------------------------- MODULE DiskSpaceCache ---------------------------
(***************************************************************************)
(* The disk-space cache of the agent registry and the STATVFS and FSTATVFS *)
(* handlers that fill it, over the agent tunnels as TunnelService          *)
(* specifies them.                                                         *)
(*                                                                         *)
(* Every await ends the turn of a handler.  What follows it is a           *)
(* microtask: it runs before the next connection, close event, timer or    *)
(* call is handled, which is what Quiet says in the guards of those.       *)
(* Several answers may come in one turn (ws emits all the messages of a    *)
(* chunk of data at once).  The sizes themselves are left out: a space is  *)
(* what an agent measured, with the time at which it did, or a default     *)
(* (0 of 0 bytes, 80 of 100 GB).                                           *)
(***************************************************************************)
EXTENDS TunnelService, Integers

CONSTANTS
    Ttl,        \* CACHE_TTL_MS, in steps of the clock
    MaxTime,    \* bound on the clock
    NoServer    \* no agent is awaited

ASSUME CacheAssumption ==
    Ttl \in Nat \ {0} /\ MaxTime \in Nat /\ NoServer \notin Agents

VARIABLES
    time,      \* Date.now()
    capable,   \* the agents whose connection has the capability STATVFS
    cache,     \* diskCache
    call       \* per slot, the STATVFS call of a client that occupies it

vars == <<online, waiting, outcome, time, capable, cache, call>>

Times == 0 .. MaxTime

\* measured: when the agent measured it, 0 for another space.
Entries == [space : {"absent", "default", "measured"}, measured : Times, cachedAt : Times]
Absent == [space |-> "absent", measured |-> 0, cachedAt |-> 0]

\* left: the servers that are still to be asked.  server, now: the one that
\* is awaited, and the `now` of its getAgentDiskSpace.  ages: how old the
\* measurements it has got were at the time of their lookup.
Calls == [stage : {"idle", "running", "awaiting"},
          root : BOOLEAN, left : SUBSET Agents,
          server : Agents \union {NoServer}, now : Times, ages : SUBSET Int]

TypeOK ==
    /\ TunnelTypeOK
    /\ time \in Times
    /\ capable \subseteq Agents
    /\ cache \in [Agents -> Entries]
    /\ call \in [Requests -> Calls]

NewCall(stage, root, ids) ==
    [stage |-> stage, root |-> root, left |-> ids, server |-> NoServer,
     now |-> 0, ages |-> {}]

Init ==
    /\ TunnelInit
    /\ time = 0 /\ capable = {}
    /\ cache = [a \in Agents |-> Absent]
    /\ call = [r \in Requests |-> NewCall("idle", FALSE, {})]

-----------------------------------------------------------------------------
\* Seeded bug: only an answer ends the await.
IsAnswered(r) == outcome[r] = "ANSWERED"
\* The promise of the call's request is settled, one way or another.
IsSettled(r) == outcome[r] # "waiting"

\* No microtask is left of the handlers that ran last.
Quiet ==
    \A r \in Requests :
        /\ call[r].stage # "running"
        /\ call[r].stage = "awaiting" => ~IsSettled(r)

\* STATVFS, or FSTATVFS on a handle: on a server, or on the virtual root with
\* the servers the user is authorized for.  One that is refused with
\* PERMISSION_DENIED or FAILURE changes nothing here.
Statvfs(r) ==
    /\ Quiet /\ call[r].stage = "idle"
    /\ \/ \E s \in Agents : call' = [call EXCEPT ![r] = NewCall("running", FALSE, {s})]
       \/ \E ids \in SUBSET Agents :
             call' = [call EXCEPT ![r] = NewCall("running", TRUE, ids)]
    /\ UNCHANGED <<tunnelVars, time, capable, cache>>

-----------------------------------------------------------------------------
\* A cached space is good for less than CACHE_TTL_MS.
Hit(s) == cache[s].space # "absent" /\ time - cache[s].cachedAt < Ttl

\* Seeded bug: the entry is dated when the answer is there.
DatedByAnswer(c) == time
\* Seeded bug: the entry holds the time at which it expires.
DatedByExpiry(c) == c.now + Ttl
\* cachedAt is the `now` from before the await.
CachedAt(c) == c.now

\* The call has the space of server s, which it looked up at `now`, and goes
\* on with the rest.
Contributed(c, s, space, measured, now) ==
    [c EXCEPT !.stage = "running", !.left = @ \ {s}, !.server = NoServer, !.now = 0,
              !.ages = @ \union (IF space = "measured" THEN {now - measured} ELSE {})]

Skip(r, s) ==
    /\ call[r].root /\ s \notin online
    /\ call' = [call EXCEPT ![r].left = @ \ {s}]
    /\ UNCHANGED <<tunnelVars, cache>>

FromCache(r, s) ==
    /\ call[r].root => s \in online
    /\ Hit(s)
    /\ call' = [call EXCEPT ![r] =
                  Contributed(@, s, cache[s].space, cache[s].measured, time)]
    /\ UNCHANGED <<tunnelVars, cache>>

Offline(r, s) ==
    /\ ~call[r].root /\ ~Hit(s) /\ s \notin online
    /\ call' = [call EXCEPT ![r] = Contributed(@, s, "default", 0, time)]
    /\ UNCHANGED <<tunnelVars, cache>>

\* An agent without the capability is not asked; its default is cached.
FromLegacy(r, s) ==
    /\ ~Hit(s) /\ s \in online /\ s \notin capable
    /\ cache' = [cache EXCEPT ![s] = [space |-> "default", measured |-> 0,
                                      cachedAt |-> time]]
    /\ call' = [call EXCEPT ![r] = Contributed(@, s, "default", 0, time)]
    /\ UNCHANGED tunnelVars

AskAgent(r, s) ==
    /\ ~Hit(s) /\ s \in online /\ s \in capable
    /\ Ask(s, r) \/ Refuse(s, r)
    /\ call' = [call EXCEPT ![r].stage = "awaiting", ![r].server = s, ![r].now = time]
    /\ UNCHANGED cache

\* getAgentDiskSpace of the next server.
Turn(r) ==
    /\ call[r].stage = "running"
    /\ \E s \in call[r].left :
          Skip(r, s) \/ FromCache(r, s) \/ Offline(r, s) \/ FromLegacy(r, s) \/ AskAgent(r, s)
    /\ UNCHANGED <<time, capable>>

\* What the awaited response may say: the agent measured between the request
\* and now, or it reports an error; without a response it is the default.
Reported(r) ==
    IF outcome[r] = "ANSWERED"
    THEN {<<"default", 0>>} \union ({"measured"} \X (call[r].now .. time))
    ELSE {<<"default", 0>>}

\* After the await: the result is cached, whether or not the agent is still
\* registered.
Resume(r) ==
    LET c == call[r] IN
    /\ c.stage = "awaiting" /\ IsSettled(r)
    /\ \E report \in Reported(r) :
          /\ cache' = [cache EXCEPT ![c.server] =
                         [space |-> report[1], measured |-> report[2], cachedAt |-> CachedAt(c)]]
          /\ call' = [call EXCEPT ![r] = Contributed(c, c.server, report[1], report[2], c.now)]
    /\ UNCHANGED <<tunnelVars, time, capable>>

\* The reply, of the sum for the virtual root.
Finish(r) ==
    /\ call[r].stage = "running" /\ call[r].left = {}
    /\ call' = [call EXCEPT ![r] = NewCall("idle", FALSE, {})]
    /\ UNCHANGED <<tunnelVars, time, capable, cache>>

-----------------------------------------------------------------------------
\* An agent authenticates, with or without the capability.
AgentUp(a) ==
    /\ Quiet
    /\ Up(a) \/ Replaced(a)
    /\ capable' \in {capable \union {a}, capable \ {a}}
    /\ UNCHANGED <<time, cache, call>>

\* Seeded bug: the entry of an agent that goes stays.
EntryKept(a) == cache
\* unregisterAgent deletes the entry.
EntryDeleted(a) == [cache EXCEPT ![a] = Absent]

AgentDown(a) ==
    /\ Quiet
    /\ Down(a)
    /\ cache' = EntryDeleted(a)
    /\ capable' = capable \ {a}
    /\ UNCHANGED <<time, call>>

AgentAnswers(a, r) ==
    /\ Answer(a, r) /\ UNCHANGED <<time, capable, cache, call>>

RequestExpires(a, r) ==
    /\ Quiet /\ Expire(a, r) /\ UNCHANGED <<time, capable, cache, call>>

Tick ==
    /\ Quiet /\ time < MaxTime
    /\ time' = time + 1
    /\ UNCHANGED <<tunnelVars, capable, cache, call>>

Microtask(r) == Turn(r) \/ Resume(r) \/ Finish(r)

Next ==
    \/ \E r \in Requests : Statvfs(r) \/ Microtask(r)
    \/ \E a \in Agents :
          \/ AgentUp(a) \/ AgentDown(a)
          \/ \E r \in Requests : AgentAnswers(a, r) \/ RequestExpires(a, r)
    \/ Tick

Spec == Init /\ [][Next]_vars

\* Microtasks run.  The timer of a request fires although other handlers run
\* before it again and again: hence strong fairness.
Fairness ==
    \A r \in Requests :
        /\ WF_vars(Microtask(r))
        /\ SF_vars(\E a \in Agents : RequestExpires(a, r))
FairSpec == Spec /\ Fairness

-----------------------------------------------------------------------------
\* A client never sees a measurement older than CACHE_TTL_MS at the time of
\* its lookup, however long the agent took to answer whoever filled the cache.
MeasuredInTime ==
    \A r \in Requests : \A age \in call[r].ages : age < Ttl

\* What is cached as measured is of an agent that is registered: no answer
\* brings back the entry that unregisterAgent deleted.
MeasuredIsOnline == \A a \in Agents : cache[a].space = "measured" => a \in online

\* Every STATVFS is answered, for all the servers of the user, though agents
\* do not answer, drop or come back meanwhile.
EveryStatvfsAnswered ==
    \A r \in Requests :
        call[r].stage # "idle" ~> call[r].stage = "idle"
=============================================================================
