------------------------ MODULE DiskSpaceCacheProofs ------------------------
(***************************************************************************)
(* Proofs about DiskSpaceCache for every set of agents and calls and every *)
(* time to live: its types, that no measurement is served beyond its time, *)
(* and that none is cached for an agent that has gone.                     *)
(***************************************************************************)
EXTENDS DiskSpaceCache, TLAPS

USE CacheAssumption

-----------------------------------------------------------------------------
(* The type invariant.                                                     *)

\* A call that has got one more space is a call.
LEMMA ContributedTypes ==
    ASSUME NEW c \in Calls, NEW s \in Agents, NEW space,
           NEW measured \in Times, NEW now \in Times
    PROVE  Contributed(c, s, space, measured, now) \in Calls
<1>1. now - measured \in Int
  BY DEF Times
<1>2. 0 \in Times
  BY DEF Times
<1> QED
  BY <1>1, <1>2 DEF Contributed, Calls

\* What Contributed changes.
LEMMA ContributedFields ==
    ASSUME NEW c \in Calls, NEW s, NEW space, NEW measured, NEW now
    PROVE  /\ Contributed(c, s, space, measured, now).stage = "running"
           /\ Contributed(c, s, space, measured, now).ages =
                c.ages \union (IF space = "measured" THEN {now - measured} ELSE {})
  BY DEF Contributed, Calls

\* A default is no measurement.
LEMMA DefaultHasNoAge ==
    ASSUME NEW c \in Calls, NEW s, NEW now
    PROVE  Contributed(c, s, "default", 0, now).ages = c.ages
  BY DEF Contributed, Calls

\* The steps of the tunnels keep their types.
LEMMA TunnelTypes ==
    ASSUME TunnelTypeOK, NEW a \in Agents, NEW r \in Requests,
           Up(a) \/ Replaced(a) \/ Down(a) \/ Ask(a, r) \/ Refuse(a, r) \/ Answer(a, r)
             \/ Expire(a, r)
    PROVE  TunnelTypeOK'
  BY DEF TunnelTypeOK, Settled, Up, Replaced, Down, Abandon, Ask, Refuse, Answer, Expire,
     Settle

\* The same for the steps that concern no request.
LEMMA AgentTypes ==
    ASSUME TunnelTypeOK, NEW a \in Agents, Up(a) \/ Replaced(a) \/ Down(a)
    PROVE  TunnelTypeOK'
  BY DEF TunnelTypeOK, Settled, Up, Replaced, Down, Abandon

\* getAgentDiskSpace of a server keeps the types.
LEMMA TurnTypeOK == ASSUME TypeOK, NEW r \in Requests, Turn(r) PROVE TypeOK'
<1>1. PICK s \in call[r].left :
         Skip(r, s) \/ FromCache(r, s) \/ Offline(r, s) \/ FromLegacy(r, s) \/ AskAgent(r, s)
  BY DEF Turn
<1>2. s \in Agents /\ call[r] \in Calls /\ time \in Times /\ 0 \in Times
  BY <1>1 DEF TypeOK, Calls, Times
<1>3. CASE Skip(r, s)
  <2>1. [call[r] EXCEPT !.left = @ \ {s}] \in Calls
    BY <1>2 DEF Calls
  <2> QED
    BY <1>3, <2>1 DEF TypeOK, Skip, Turn, tunnelVars, TunnelTypeOK
<1>4. CASE FromCache(r, s)
  <2>1. Contributed(call[r], s, cache[s].space, cache[s].measured, time) \in Calls
    BY <1>2, ContributedTypes DEF TypeOK, Entries
  <2> QED
    BY <1>4, <2>1 DEF TypeOK, FromCache, Turn, tunnelVars, TunnelTypeOK
<1>5. CASE Offline(r, s)
  <2>1. Contributed(call[r], s, "default", 0, time) \in Calls
    BY <1>2, ContributedTypes
  <2> QED
    BY <1>5, <2>1 DEF TypeOK, Offline, Turn, tunnelVars, TunnelTypeOK
<1>6. CASE FromLegacy(r, s)
  <2>1. Contributed(call[r], s, "default", 0, time) \in Calls
    BY <1>2, ContributedTypes
  <2>2. [space |-> "default", measured |-> 0, cachedAt |-> time] \in Entries
    BY <1>2 DEF Entries
  <2> QED
    BY <1>2, <1>6, <2>1, <2>2 DEF TypeOK, FromLegacy, Turn, tunnelVars, TunnelTypeOK
<1>7. CASE AskAgent(r, s)
  <2>1. [call[r] EXCEPT !.stage = "awaiting", !.server = s, !.now = time] \in Calls
    BY <1>2 DEF Calls
  <2>2. call' \in [Requests -> Calls]
    BY <1>7, <2>1 DEF AskAgent, TypeOK
  <2>3. TunnelTypeOK'
    BY <1>2, <1>7, TunnelTypes DEF TypeOK, AskAgent
  <2> QED
    BY <1>7, <2>2, <2>3 DEF TypeOK, AskAgent, Turn
<1> QED
  BY <1>1, <1>3, <1>4, <1>5, <1>6, <1>7

\* What a response or its absence reports.
LEMMA ReportTypes ==
    ASSUME TypeOK, NEW r \in Requests, NEW report \in Reported(r)
    PROVE  /\ report[1] \in {"default", "measured"} /\ report[2] \in Times
           /\ report[1] = "measured" =>
                outcome[r] = "ANSWERED" /\ call[r].now <= report[2] /\ report[2] <= time
<1>1. call[r].now \in Times /\ time \in Times
  BY DEF TypeOK, Calls
<1> QED
  BY <1>1 DEF Reported, Times

\* What follows the await keeps the types.
LEMMA ResumeTypeOK == ASSUME TypeOK, NEW r \in Requests, Resume(r),
                             call[r].server \in Agents
                      PROVE  TypeOK'
<1> DEFINE c == call[r]
<1>1. PICK report \in Reported(r) :
         /\ cache' = [cache EXCEPT ![c.server] =
                        [space |-> report[1], measured |-> report[2], cachedAt |-> CachedAt(c)]]
         /\ call' = [call EXCEPT ![r] = Contributed(c, c.server, report[1], report[2], c.now)]
  BY DEF Resume
<1>2. c \in Calls /\ c.now \in Times
  BY DEF TypeOK, Calls
<1>3. report[1] \in {"default", "measured"} /\ report[2] \in Times
  BY ReportTypes
<1>4. Contributed(c, c.server, report[1], report[2], c.now) \in Calls
  BY <1>2, <1>3, ContributedTypes
<1>5. [space |-> report[1], measured |-> report[2], cachedAt |-> CachedAt(c)] \in Entries
  BY <1>2, <1>3 DEF Entries, CachedAt
<1>6. cache' \in [Agents -> Entries] /\ call' \in [Requests -> Calls]
  BY <1>1, <1>4, <1>5 DEF TypeOK
<1> QED
  BY <1>6 DEF TypeOK, Resume, tunnelVars, TunnelTypeOK

-----------------------------------------------------------------------------
(* The inductive invariant.                                                *)

\* A call that awaits a server has its request outstanding there and nowhere
\* else, or its promise has just been settled; an answer that has just come is
\* of a registered agent, since what follows the await runs first.
AwaitingAsks ==
    /\ \A r \in Requests, a \in Agents :
          r \in waiting[a] => /\ a \in online
                              /\ outcome[r] = "waiting"
                              /\ call[r].stage = "awaiting"
                              /\ call[r].server = a
    /\ \A r \in Requests :
          call[r].stage = "awaiting"
            => /\ call[r].server \in Agents
               /\ outcome[r] = "ANSWERED" => call[r].server \in online

\* A measurement was not made before the date of its entry.
NotBackdated ==
    \A a \in Agents : cache[a].space = "measured" => cache[a].cachedAt <= cache[a].measured

CacheInv == TypeOK /\ AwaitingAsks /\ MeasuredIsOnline /\ NotBackdated /\ MeasuredInTime

\* Before any call the cache is empty.
LEMMA InitCacheInv == Init => CacheInv
<1> SUFFICES ASSUME Init PROVE CacheInv
  OBVIOUS
<1>1. 0 \in Times
  BY DEF Times
<1>2. Absent \in Entries /\ NewCall("idle", FALSE, {}) \in Calls
  BY <1>1 DEF Absent, Entries, NewCall, Calls
<1>3. TypeOK
  BY <1>1, <1>2 DEF Init, TunnelInit, TypeOK, TunnelTypeOK, Settled
<1>4. AwaitingAsks
  BY DEF Init, TunnelInit, AwaitingAsks, NewCall
<1>5. MeasuredIsOnline /\ NotBackdated /\ MeasuredInTime
  BY DEF Init, MeasuredIsOnline, NotBackdated, MeasuredInTime, NewCall, Absent
<1> QED
  BY <1>3, <1>4, <1>5 DEF CacheInv

\* A call that is still awaited goes on as it was when nothing settles it.
LEMMA TurnInv == ASSUME CacheInv, NEW r \in Requests, Turn(r) PROVE CacheInv'
<1> USE DEF CacheInv
<1>1. PICK s \in call[r].left :
         Skip(r, s) \/ FromCache(r, s) \/ Offline(r, s) \/ FromLegacy(r, s) \/ AskAgent(r, s)
  BY DEF Turn
<1>2. s \in Agents /\ call[r] \in Calls /\ call[r].stage = "running"
  BY <1>1 DEF TypeOK, Calls, Turn
<1>3. TypeOK'
  BY TurnTypeOK
<1>4. \A a \in Agents : r \notin waiting[a]
  BY <1>2 DEF AwaitingAsks
<1>5. \A q \in Requests \ {r} : call'[q] = call[q]
  BY <1>1 DEF Skip, FromCache, Offline, FromLegacy, AskAgent, TypeOK
<1>6. AwaitingAsks'
  <2>1. CASE UNCHANGED tunnelVars /\ call'[r].stage = "running"
    BY <1>4, <1>5, <2>1 DEF AwaitingAsks, tunnelVars
  <2>2. CASE AskAgent(r, s)
    <3>1. call'[r].stage = "awaiting" /\ call'[r].server = s
      BY <1>2, <2>2 DEF AskAgent, TypeOK, Calls
    <3>2. online' = online /\ s \in online
      BY <2>2 DEF AskAgent, Ask, Refuse
    <3>3. CASE Ask(s, r)
      <4>1. /\ outcome'[r] = "waiting" /\ waiting'[s] = waiting[s] \union {r}
            /\ \A q \in Requests \ {r} : outcome'[q] = outcome[q]
            /\ \A a \in Agents \ {s} : waiting'[a] = waiting[a]
        BY <1>2, <3>3 DEF Ask, TypeOK, TunnelTypeOK
      <4> QED
        BY <1>2, <1>4, <1>5, <3>1, <3>2, <4>1 DEF AwaitingAsks
    <3>4. CASE Refuse(s, r)
      <4>1. /\ outcome'[r] = "AGENT_OFFLINE" /\ waiting' = waiting
            /\ \A q \in Requests \ {r} : outcome'[q] = outcome[q]
        BY <3>4 DEF Refuse, TypeOK, TunnelTypeOK
      <4> QED
        BY <1>2, <1>4, <1>5, <3>1, <3>2, <4>1 DEF AwaitingAsks
    <3> QED
      BY <2>2, <3>3, <3>4 DEF AskAgent
  <2>3. CASE Skip(r, s)
    BY <1>2, <2>1, <2>3 DEF Skip, TypeOK, Calls
  <2>4. CASE FromCache(r, s) \/ Offline(r, s) \/ FromLegacy(r, s)
    <3>1. call'[r].stage = "running"
      BY <1>2, <2>4, ContributedFields DEF FromCache, Offline, FromLegacy, TypeOK
    <3> QED
      BY <2>1, <2>4, <3>1 DEF FromCache, Offline, FromLegacy, tunnelVars
  <2> QED
    BY <1>1, <2>2, <2>3, <2>4
<1>7. MeasuredIsOnline' /\ NotBackdated'
  <2>1. online' = online
    BY <1>1 DEF Skip, FromCache, Offline, FromLegacy, AskAgent, Ask, Refuse, tunnelVars
  <2>2. CASE cache' = cache
    BY <2>1, <2>2 DEF MeasuredIsOnline, NotBackdated
  <2>3. CASE FromLegacy(r, s)
    BY <1>2, <2>1, <2>3 DEF FromLegacy, MeasuredIsOnline, NotBackdated, TypeOK
  <2> QED
    BY <1>1, <2>2, <2>3 DEF Skip, FromCache, Offline, AskAgent
<1>8. MeasuredInTime'
  <2>1. \A age \in call'[r].ages : age < Ttl
    <3>1. CASE call'[r].ages = call[r].ages
      BY <3>1 DEF MeasuredInTime
    <3>2. CASE Skip(r, s) \/ AskAgent(r, s)
      BY <1>2, <3>1, <3>2 DEF Skip, AskAgent, TypeOK, Calls
    <3>3. CASE Offline(r, s) \/ FromLegacy(r, s)
      <4>1. call'[r] = Contributed(call[r], s, "default", 0, time)
        BY <3>3 DEF Offline, FromLegacy, TypeOK
      <4>2. call'[r].ages = call[r].ages
        BY <1>2, <4>1, DefaultHasNoAge
      <4> QED
        BY <3>1, <4>2
    <3>4. CASE FromCache(r, s)
      <4>1. call'[r].ages = call[r].ages \union
              (IF cache[s].space = "measured" THEN {time - cache[s].measured} ELSE {})
        BY <1>2, <3>4, ContributedFields DEF FromCache, TypeOK
      <4>2. cache[s].space = "measured" => time - cache[s].measured < Ttl
        <5>1. time \in Int /\ cache[s].cachedAt \in Int /\ cache[s].measured \in Int
          BY <1>2 DEF TypeOK, Entries, Times
        <5> QED
          BY <1>2, <3>4, <5>1 DEF FromCache, Hit, NotBackdated
      <4> QED
        BY <4>1, <4>2 DEF MeasuredInTime
    <3> QED
      BY <1>1, <3>2, <3>3, <3>4
  <2> QED
    BY <1>5, <2>1 DEF MeasuredInTime
<1> QED
  BY <1>3, <1>6, <1>7, <1>8

\* What is cached after an await is a measurement only of an agent that has
\* just answered, made after the date it gets.
LEMMA ResumeInv == ASSUME CacheInv, NEW r \in Requests, Resume(r) PROVE CacheInv'
<1> USE DEF CacheInv
<1> DEFINE c == call[r]
<1>1. PICK report \in Reported(r) :
         /\ cache' = [cache EXCEPT ![c.server] =
                        [space |-> report[1], measured |-> report[2], cachedAt |-> CachedAt(c)]]
         /\ call' = [call EXCEPT ![r] = Contributed(c, c.server, report[1], report[2], c.now)]
  BY DEF Resume
<1>2. c \in Calls /\ c.stage = "awaiting" /\ c.server \in Agents /\ outcome[r] # "waiting"
  BY DEF Resume, AwaitingAsks, TypeOK, IsSettled
<1>3. report[1] = "measured" =>
        outcome[r] = "ANSWERED" /\ c.now <= report[2] /\ report[2] \in Times
  BY ReportTypes
<1>4. TypeOK'
  BY <1>2, ResumeTypeOK
<1>5. UNCHANGED tunnelVars /\ \A q \in Requests \ {r} : call'[q] = call[q]
  BY <1>1 DEF Resume, TypeOK
<1>6. /\ call'[r].stage = "running"
      /\ call'[r].ages = c.ages \union
            (IF report[1] = "measured" THEN {c.now - report[2]} ELSE {})
  BY <1>1, <1>2, ContributedFields DEF TypeOK
<1>7. AwaitingAsks'
  <2>1. \A a \in Agents : r \notin waiting[a]
    BY <1>2 DEF AwaitingAsks
  <2> QED
    BY <1>5, <1>6, <2>1 DEF AwaitingAsks, tunnelVars
<1>8. \A a \in Agents : cache'[a] = IF a = c.server
         THEN [space |-> report[1], measured |-> report[2], cachedAt |-> c.now] ELSE cache[a]
  BY <1>1, <1>2 DEF TypeOK, CachedAt
<1>9. MeasuredIsOnline'
  BY <1>2, <1>3, <1>5, <1>8 DEF MeasuredIsOnline, AwaitingAsks, tunnelVars
<1>10. NotBackdated'
  BY <1>3, <1>8 DEF NotBackdated
<1>11. MeasuredInTime'
  <2>1. report[1] = "measured" => c.now - report[2] < Ttl
    BY <1>2, <1>3 DEF Calls, Times
  <2>2. \A age \in call'[r].ages : age < Ttl
    BY <1>6, <2>1 DEF MeasuredInTime
  <2> QED
    BY <1>5, <2>2 DEF MeasuredInTime
<1> QED
  BY <1>4, <1>7, <1>9, <1>10, <1>11

\* A new call, or one that ends, has no measurement yet.
LEMMA CallInv == ASSUME CacheInv, NEW r \in Requests, Statvfs(r) \/ Finish(r) PROVE CacheInv'
<1> USE DEF CacheInv
<1>1. PICK stage \in {"idle", "running"}, root \in BOOLEAN,
           ids \in SUBSET Agents :
         call' = [call EXCEPT ![r] = NewCall(stage, root, ids)]
  BY DEF Statvfs, Finish
<1>2. UNCHANGED <<tunnelVars, time, capable, cache>>
  BY DEF Statvfs, Finish
<1>3. NewCall(stage, root, ids) \in Calls
  <2>1. 0 \in Times
    BY DEF Times
  <2> QED
    BY <2>1 DEF NewCall, Calls
<1>4. \A q \in Requests : call'[q] = IF q = r THEN NewCall(stage, root, ids) ELSE call[q]
  BY <1>1 DEF TypeOK
<1>5. TypeOK'
  BY <1>1, <1>2, <1>3 DEF TypeOK, TunnelTypeOK, tunnelVars
<1>6. call[r].stage # "awaiting"
  BY DEF Statvfs, Finish
<1>7. AwaitingAsks'
  BY <1>2, <1>4, <1>6 DEF AwaitingAsks, tunnelVars, NewCall
<1>8. MeasuredIsOnline' /\ NotBackdated'
  BY <1>2 DEF MeasuredIsOnline, NotBackdated, tunnelVars
<1>9. MeasuredInTime'
  BY <1>4 DEF MeasuredInTime, NewCall
<1> QED
  BY <1>5, <1>7, <1>8, <1>9

\* A step that leaves the calls as they are keeps what they have measured.
LEMMA CallsKept == ASSUME CacheInv, call' = call PROVE MeasuredInTime'
  BY DEF CacheInv, MeasuredInTime

\* The requests that are abandoned are settled without an answer; whoever
\* answered has been looked at before.
LEMMA AbandonedAsks ==
    ASSUME CacheInv, Quiet, NEW a \in Agents, Abandon(a), call' = call,
           online \ {a} \subseteq online'
    PROVE  AwaitingAsks'
<1> USE DEF CacheInv
<1>1. \A q \in Requests : outcome'[q] = IF q \in waiting[a] THEN "AGENT_OFFLINE" ELSE outcome[q]
  BY DEF Abandon
<1>2. \A b \in Agents : waiting'[b] = IF b = a THEN {} ELSE waiting[b]
  BY DEF Abandon, TypeOK, TunnelTypeOK
<1>3. \A q \in Requests : call[q].stage = "awaiting" => outcome[q] = "waiting"
  BY DEF Quiet, IsSettled
<1>4. \A q \in Requests : call[q].stage = "awaiting" => outcome'[q] # "ANSWERED"
  BY <1>1, <1>3
<1>5. \A b \in Agents, q \in Requests : q \in waiting'[b] => outcome'[q] = outcome[q]
  <2>1. \A b \in Agents, q \in Requests : q \in waiting'[b] => b # a /\ q \in waiting[b]
    BY <1>2
  <2>2. \A b \in Agents, q \in Requests : b # a /\ q \in waiting[b] => q \notin waiting[a]
    BY DEF AwaitingAsks
  <2> QED
    BY <1>1, <2>1, <2>2
<1>6. \A b \in Agents, q \in Requests : q \in waiting'[b] => q \in waiting[b] /\ b # a
  BY <1>2
<1> QED
  BY <1>4, <1>5, <1>6 DEF AwaitingAsks

\* The connection of an agent comes: before it does no call has an answer that
\* it has not looked at, so the requests that are abandoned are no answers.
LEMMA AgentUpInv == ASSUME CacheInv, NEW a \in Agents, AgentUp(a) PROVE CacheInv'
<1> USE DEF CacheInv
<1>1. UNCHANGED <<time, cache, call>> /\ capable' \subseteq Agents /\ online \subseteq online'
  BY DEF AgentUp, TypeOK, Up, Replaced
<1>2. TunnelTypeOK'
  BY AgentTypes DEF AgentUp, TypeOK
<1>3. TypeOK'
  BY <1>1, <1>2 DEF TypeOK
<1>4. AwaitingAsks'
  <2>1. CASE Up(a)
    BY <1>1, <2>1 DEF Up, AwaitingAsks
  <2>2. CASE Replaced(a)
    <3>1. Quiet /\ Abandon(a) /\ call' = call /\ online \ {a} \subseteq online'
      BY <2>2 DEF AgentUp, Replaced
    <3> QED
      BY <3>1, AbandonedAsks
  <2> QED
    BY <2>1, <2>2 DEF AgentUp
<1>5. MeasuredIsOnline' /\ NotBackdated'
  BY <1>1 DEF MeasuredIsOnline, NotBackdated
<1> QED
  BY <1>1, <1>3, <1>4, <1>5, CallsKept

\* The connection of an agent goes, and its entry with it.
LEMMA AgentDownInv == ASSUME CacheInv, NEW a \in Agents, AgentDown(a) PROVE CacheInv'
<1> USE DEF CacheInv
<1>1. /\ UNCHANGED <<time, call>> /\ capable' \subseteq Agents /\ online' = online \ {a}
      /\ Quiet /\ Abandon(a)
  BY DEF AgentDown, TypeOK, Down
<1>2. TunnelTypeOK'
  BY AgentTypes DEF AgentDown, TypeOK
<1>3. \A b \in Agents : cache'[b] = IF b = a THEN Absent ELSE cache[b]
  BY DEF AgentDown, EntryDeleted, TypeOK
<1>4. cache' \in [Agents -> Entries]
  <2>1. Absent \in Entries
    BY DEF Absent, Entries, Times
  <2> QED
    BY <2>1 DEF AgentDown, EntryDeleted, TypeOK
<1>5. TypeOK'
  BY <1>1, <1>2, <1>4 DEF TypeOK
<1>6. AwaitingAsks'
  BY <1>1, AbandonedAsks
<1>7. MeasuredIsOnline' /\ NotBackdated'
  BY <1>1, <1>3 DEF MeasuredIsOnline, NotBackdated, Absent
<1> QED
  BY <1>1, <1>5, <1>6, <1>7, CallsKept

\* A request is settled, by an answer of an agent that is registered, or by
\* its timer.
LEMMA SettleInv ==
    ASSUME CacheInv, NEW a \in Agents, NEW r \in Requests,
           AgentAnswers(a, r) \/ RequestExpires(a, r)
    PROVE  CacheInv'
<1> USE DEF CacheInv
<1>0. r \in waiting[a]
  BY DEF AgentAnswers, RequestExpires, Answer, Expire, Settle
<1>1. UNCHANGED <<time, capable, cache, call, online>>
  BY DEF AgentAnswers, RequestExpires, Answer, Expire, Settle
<1>2. TunnelTypeOK'
  BY TunnelTypes DEF AgentAnswers, RequestExpires, TypeOK
<1>3. TypeOK'
  BY <1>1, <1>2 DEF TypeOK
<1>4. \A b \in Agents : waiting'[b] = IF b = a THEN waiting[b] \ {r} ELSE waiting[b]
  BY DEF AgentAnswers, RequestExpires, Answer, Expire, Settle, TypeOK, TunnelTypeOK
<1>5. \A q \in Requests \ {r} : outcome'[q] = outcome[q]
  BY DEF AgentAnswers, RequestExpires, Answer, Expire, Settle, TypeOK, TunnelTypeOK
<1>6. /\ a \in online /\ call[r].server = a
      /\ \A b \in Agents \ {a} : r \notin waiting[b]
  BY <1>0 DEF AwaitingAsks
<1>7. AwaitingAsks'
  <2>1. \A b \in Agents : r \notin waiting'[b]
    BY <1>4, <1>6
  <2>2. \A b \in Agents, q \in Requests : q \in waiting'[b] => q \in waiting[b] /\ q # r
    BY <1>4, <2>1
  <2>3. \A b \in Agents, q \in Requests :
          q \in waiting'[b] => /\ b \in online /\ outcome'[q] = "waiting"
                               /\ call[q].stage = "awaiting" /\ call[q].server = b
    BY <1>5, <2>2 DEF AwaitingAsks
  <2>4. \A q \in Requests :
          call[q].stage = "awaiting"
            => /\ call[q].server \in Agents
               /\ outcome'[q] = "ANSWERED" => call[q].server \in online
    BY <1>5, <1>6 DEF AwaitingAsks
  <2>5. online' = online /\ call' = call
    BY <1>1
  <2> QED
    BY <2>3, <2>4, <2>5 DEF AwaitingAsks
<1>8. MeasuredIsOnline' /\ NotBackdated'
  BY <1>1 DEF MeasuredIsOnline, NotBackdated
<1> QED
  BY <1>1, <1>3, <1>7, <1>8, CallsKept

\* Time passes.
LEMMA TickInv == ASSUME CacheInv, Tick PROVE CacheInv'
<1> USE DEF CacheInv
<1>1. UNCHANGED <<tunnelVars, capable, cache, call>> /\ time' \in Times
  BY DEF Tick, TypeOK, Times
<1>2. TypeOK'
  BY <1>1 DEF TypeOK, TunnelTypeOK, tunnelVars
<1>3. AwaitingAsks' /\ MeasuredIsOnline' /\ NotBackdated'
  BY <1>1 DEF AwaitingAsks, MeasuredIsOnline, NotBackdated, tunnelVars
<1> QED
  BY <1>1, <1>2, <1>3, CallsKept

\* Every step keeps the invariant.
LEMMA NextCacheInv == ASSUME CacheInv, [Next]_vars PROVE CacheInv'
<1>1. ASSUME NEW r \in Requests, Statvfs(r) \/ Microtask(r) PROVE CacheInv'
  BY <1>1, CallInv, TurnInv, ResumeInv DEF Microtask
<1>2. ASSUME NEW a \in Agents, AgentUp(a) \/ AgentDown(a) PROVE CacheInv'
  BY <1>2, AgentUpInv, AgentDownInv
<1>3. ASSUME NEW a \in Agents, NEW r \in Requests, AgentAnswers(a, r) \/ RequestExpires(a, r)
      PROVE  CacheInv'
  BY <1>3, SettleInv
<1>4. CASE Tick
  BY <1>4, TickInv
<1>5. CASE UNCHANGED vars
  BY <1>5 DEF vars, CacheInv, TypeOK, TunnelTypeOK, AwaitingAsks, MeasuredIsOnline,
     NotBackdated, MeasuredInTime
<1> QED
  BY <1>1, <1>2, <1>3, <1>4, <1>5 DEF Next

\* The invariant holds in every reachable state.
THEOREM CacheInvariant == Spec => []CacheInv
  BY InitCacheInv, NextCacheInv, PTL DEF Spec

\* Every variable of the cache keeps its type.
THEOREM CacheTypeCorrect == Spec => []TypeOK
<1>1. CacheInv => TypeOK
  BY DEF CacheInv
<1> QED
  BY <1>1, CacheInvariant, PTL

\* No measurement is served that is older than the time to live.
THEOREM MeasurementsInTime == Spec => []MeasuredInTime
<1>1. CacheInv => MeasuredInTime
  BY DEF CacheInv
<1> QED
  BY <1>1, CacheInvariant, PTL

\* No measurement is cached for an agent that is gone, whatever answers were
\* under way when it went.
THEOREM MeasurementsOnline == Spec => []MeasuredIsOnline
<1>1. CacheInv => MeasuredIsOnline
  BY DEF CacheInv
<1> QED
  BY <1>1, CacheInvariant, PTL

-----------------------------------------------------------------------------
(* The cache and the tunnels.                                              *)

\* The handlers of the cache do to the tunnels what the tunnels allow: with
\* TunnelImplementsService of AgentTunnelProofs, cache and tunnels meet in one
\* specification.
THEOREM CacheUsesTheTunnels == Spec => TunnelSpec
<1>1. Init => TunnelInit
  BY DEF Init
<1>2. ASSUME CacheInv, [Next]_vars PROVE [TunnelNext]_tunnelVars
  <2>1. ASSUME NEW r \in Requests, Statvfs(r) \/ Resume(r) \/ Finish(r)
        PROVE  UNCHANGED tunnelVars
    BY <2>1 DEF Statvfs, Resume, Finish
  <2>2. ASSUME NEW r \in Requests, Turn(r) PROVE [TunnelNext]_tunnelVars
    <3>1. PICK s \in call[r].left :
             Skip(r, s) \/ FromCache(r, s) \/ Offline(r, s) \/ FromLegacy(r, s) \/ AskAgent(r, s)
      BY <2>2 DEF Turn
    <3>2. s \in Agents
      BY <1>2, <3>1 DEF CacheInv, TypeOK, Calls
    <3> QED
      BY <3>1, <3>2 DEF Skip, FromCache, Offline, FromLegacy, AskAgent, TunnelNext
  <2>3. ASSUME NEW a \in Agents, AgentUp(a) \/ AgentDown(a) PROVE TunnelNext
    BY <2>3 DEF AgentUp, AgentDown, TunnelNext
  <2>4. ASSUME NEW a \in Agents, NEW r \in Requests, AgentAnswers(a, r) \/ RequestExpires(a, r)
        PROVE  TunnelNext
    BY <2>4 DEF AgentAnswers, RequestExpires, TunnelNext
  <2>5. CASE Tick \/ UNCHANGED vars
    BY <2>5 DEF Tick, vars, tunnelVars
  <2> QED
    BY <1>2, <2>1, <2>2, <2>3, <2>4, <2>5 DEF Next, Microtask
<1> QED
  BY <1>1, <1>2, CacheInvariant, PTL DEF Spec, TunnelSpec

-----------------------------------------------------------------------------
(* No call is stuck.                                                       *)

\* A promise is outstanding for a call exactly while it awaits that promise,
\* and then the connection of its server still has it.
AwaitedIsOutstanding ==
    \A r \in Requests :
        outcome[r] = "waiting"
            => call[r].stage = "awaiting" /\ r \in waiting[call[r].server]

\* Some branch of getAgentDiskSpace applies to server s.
HasBranch(r, s) ==
    \/ call[r].root /\ s \notin online
    \/ (call[r].root => s \in online) /\ Hit(s)
    \/ ~call[r].root /\ ~Hit(s) /\ s \notin online
    \/ ~Hit(s) /\ s \in online /\ s \notin capable
    \/ ~Hit(s) /\ s \in online /\ s \in capable /\ outcome[r] # "waiting"

\* A call that is not answered yet runs and has a server left, whichever is
\* next, or is done with all; or it awaits a promise that is settled, or whose
\* timer is running.
GoesOn(r) ==
    \/ call[r].stage = "running" /\ \A s \in call[r].left : HasBranch(r, s)
    \/ call[r].stage = "awaiting" /\ IsSettled(r)
    \/ call[r].stage = "awaiting" /\ \E a \in Agents : r \in waiting[a]

NoCallIsStuck == \A r \in Requests : call[r].stage # "idle" => GoesOn(r)

\* A step that leaves a request and its call alone leaves it awaited.
LEMMA NextAwaited ==
    ASSUME CacheInv, AwaitedIsOutstanding, [Next]_vars
    PROVE  AwaitedIsOutstanding'
<1> USE DEF CacheInv
<1>1. ASSUME NEW r \in Requests, UNCHANGED tunnelVars,
             \A q \in Requests \ {r} : call'[q] = call[q],
             outcome[r] # "waiting"
      PROVE  AwaitedIsOutstanding'
  BY <1>1 DEF AwaitedIsOutstanding, tunnelVars
<1>2. ASSUME NEW r \in Requests, Statvfs(r) \/ Resume(r) \/ Finish(r)
      PROVE  AwaitedIsOutstanding'
  <2>1. outcome[r] # "waiting"
    BY <1>2 DEF Statvfs, Resume, Finish, IsSettled, AwaitedIsOutstanding
  <2>2. UNCHANGED tunnelVars /\ \A q \in Requests \ {r} : call'[q] = call[q]
    BY <1>2 DEF Statvfs, Resume, Finish, TypeOK
  <2> QED
    BY <1>1, <2>1, <2>2
<1>3. ASSUME NEW r \in Requests, Turn(r) PROVE AwaitedIsOutstanding'
  <2>1. PICK s \in call[r].left :
           Skip(r, s) \/ FromCache(r, s) \/ Offline(r, s) \/ FromLegacy(r, s) \/ AskAgent(r, s)
    BY <1>3 DEF Turn
  <2>2. /\ s \in Agents /\ call[r] \in Calls /\ outcome[r] # "waiting"
        /\ \A q \in Requests \ {r} : call'[q] = call[q]
    BY <1>3, <2>1 DEF TypeOK, Calls, Turn, AwaitedIsOutstanding, Skip, FromCache, Offline,
       FromLegacy, AskAgent
  <2>3. CASE AskAgent(r, s)
    <3>1. call'[r].stage = "awaiting" /\ call'[r].server = s
      BY <2>2, <2>3 DEF AskAgent, TypeOK, Calls
    <3>2. /\ \A q \in Requests \ {r} : outcome'[q] = outcome[q]
          /\ \A a \in Agents : waiting[a] \subseteq waiting'[a]
          /\ outcome'[r] = "waiting" => r \in waiting'[s]
      BY <2>2, <2>3 DEF AskAgent, Ask, Refuse, TypeOK, TunnelTypeOK
    <3>3. \A q \in Requests : outcome[q] = "waiting" => call[q].server \in Agents
      BY DEF AwaitedIsOutstanding, AwaitingAsks
    <3> QED
      BY <2>2, <3>1, <3>2, <3>3 DEF AwaitedIsOutstanding
  <2> QED
    BY <1>1, <2>1, <2>2, <2>3 DEF Skip, FromCache, Offline, FromLegacy, tunnelVars
<1>4. ASSUME NEW a \in Agents, AgentUp(a) \/ AgentDown(a) PROVE AwaitedIsOutstanding'
  <2>1. CASE Up(a)
    BY <1>4, <2>1 DEF Up, AgentUp, AgentDown, AwaitedIsOutstanding
  <2>2. CASE Abandon(a)
    <3>1. \A q \in Requests :
            outcome'[q] = IF q \in waiting[a] THEN "AGENT_OFFLINE" ELSE outcome[q]
      BY <2>2 DEF Abandon
    <3>2. \A b \in Agents \ {a} : waiting'[b] = waiting[b]
      BY <2>2 DEF Abandon, TypeOK, TunnelTypeOK
    <3>3. \A q \in Requests : outcome[q] = "waiting" => call[q].server \in Agents
      BY DEF AwaitedIsOutstanding, AwaitingAsks
    <3> QED
      BY <1>4, <3>1, <3>2, <3>3 DEF AgentUp, AgentDown, AwaitedIsOutstanding
  <2> QED
    BY <1>4, <2>1, <2>2 DEF AgentUp, AgentDown, Replaced, Down
<1>5. ASSUME NEW a \in Agents, NEW r \in Requests, AgentAnswers(a, r) \/ RequestExpires(a, r)
      PROVE  AwaitedIsOutstanding'
  <2>1. PICK how \in {"ANSWERED", "TIMEOUT"} : Settle(a, r, how)
    BY <1>5 DEF AgentAnswers, RequestExpires, Answer, Expire
  <2>2. call' = call
    BY <1>5 DEF AgentAnswers, RequestExpires
  <2>3. /\ \A q \in Requests : outcome'[q] = IF q = r THEN how ELSE outcome[q]
        /\ \A b \in Agents : waiting[b] \ {r} \subseteq waiting'[b]
    BY <2>1 DEF Settle, TypeOK, TunnelTypeOK
  <2>4. \A q \in Requests : outcome[q] = "waiting" => call[q].server \in Agents
    BY DEF AwaitedIsOutstanding, AwaitingAsks
  <2> QED
    BY <2>2, <2>3, <2>4 DEF AwaitedIsOutstanding
<1>6. CASE Tick \/ UNCHANGED vars
  BY <1>6 DEF Tick, vars, tunnelVars, AwaitedIsOutstanding
<1> QED
  BY <1>2, <1>3, <1>4, <1>5, <1>6 DEF Next, Microtask

\* The safety half of EveryStatvfsAnswered: the branches of the code leave no
\* case out, and no call awaits a promise that nothing can settle any more.
THEOREM NoStatvfsIsStuck == Spec => []NoCallIsStuck
<1>1. Init => AwaitedIsOutstanding
  BY DEF Init, TunnelInit, AwaitedIsOutstanding
<1>2. CacheInv /\ AwaitedIsOutstanding => NoCallIsStuck
  <2> SUFFICES ASSUME CacheInv, AwaitedIsOutstanding, NEW r \in Requests,
                      call[r].stage # "idle"
               PROVE  GoesOn(r)
    BY DEF NoCallIsStuck
  <2>1. call[r].stage \in {"running", "awaiting"}
    BY DEF CacheInv, TypeOK, Calls
  <2>2. CASE call[r].stage = "running"
    <3>1. outcome[r] # "waiting"
      BY <2>2 DEF AwaitedIsOutstanding
    <3>2. \A s \in call[r].left : HasBranch(r, s)
      BY <3>1 DEF HasBranch
    <3> QED
      BY <2>2, <3>2 DEF GoesOn
  <2>3. CASE call[r].stage = "awaiting"
    BY <2>3 DEF GoesOn, IsSettled, AwaitedIsOutstanding, CacheInv, AwaitingAsks
  <2> QED
    BY <2>1, <2>2, <2>3
<1> QED
  BY <1>1, <1>2, NextAwaited, CacheInvariant, PTL DEF Spec
=============================================================================
