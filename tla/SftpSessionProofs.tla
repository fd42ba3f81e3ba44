------------------------- MODULE SftpSessionProofs -------------------------
(***************************************************************************)
(* Proofs about SftpSession for every set of agents, calls and paths and   *)
(* every limit: that handlers and promises correspond, that handles stay   *)
(* within the quota and on servers that are online, that no directory is   *)
(* listed twice through a handle, and what a step may answer or forward.   *)
(*                                                                         *)
(* The argument is by shape.  Whatever the client calls, its slot gets a   *)
(* reply or a request goes out for it (Moves), and the handles stay, gain  *)
(* one, lose one or have one marked (HandlesMove); only a READDIR that     *)
(* lists does both in a way that depends on the other (Lists).             *)
(***************************************************************************)
EXTENDS SftpSession, FiniteSetTheorems, TLAPS

USE NoServerAssumption, BoundsAssumption, ProfilesAssumption, PathsAssumption

-----------------------------------------------------------------------------
(* The invariant.                                                          *)

\* A promise is held for the handler that awaits it, and for no other.
WaitsForItsCall ==
    \A a \in Agents, r \in Requests :
        r \in waiting[a] => call[r].op # "none" /\ call[r].server = a

\* A call whose reply is pending is at an await; OPEN has replied before.
PendingIsAwaited ==
    \A r \in Requests : call[r].reply = "pending" => call[r].op \notin {"none", "create"}

CallsInv ==
    /\ TunnelTypeOK
    /\ call \in [Requests -> Calls]
    /\ AwaitingIsWaiting
    /\ WaitsForItsCall
    /\ PendingIsAwaited

HandlesInv ==
    /\ handleCounter \in 0 .. MaxCounter
    /\ DOMAIN handles \subseteq 1 .. handleCounter
    /\ \A h \in DOMAIN handles : handles[h] \in HandleInfos
    /\ HandleQuota
    /\ FileHandlesAreOnline

\* A handle whose directory is being listed is marked, or has been closed and
\* its number is not given out again.
ListingsAreMarked ==
    \A r \in Requests :
        call[r].op = "list"
            => /\ call[r].handle \in 1 .. handleCounter
               /\ call[r].handle \in DOMAIN handles => handles[call[r].handle].readDone

SessionInv ==
    /\ profile \in Profiles
    /\ CallsInv
    /\ HandlesInv
    /\ ListingsAreMarked
    /\ OneListingPerHandle

-----------------------------------------------------------------------------
(* Replies and requests.                                                   *)

\* A slot that has its reply is free.
LEMMA DoneFields ==
    ASSUME NEW reply \in Replies
    PROVE  /\ Done(reply) \in Calls
           /\ Done(reply).op = "none" /\ Done(reply).reply = reply
  BY DEF Done, Calls, Ops

\* What follows an await always replies.
LEMMA AfterAwaitReplies ==
    ASSUME NEW c \in Calls, NEW err, c.op = "create" => c.reply # "pending"
    PROVE  \E reply \in Replies \ {"pending"} : AfterAwait(c, err) = Done(reply)
<1>1. CASE c.op = "create"
  <2>1. AfterAwait(c, err) = Done(c.reply)
    BY <1>1 DEF AfterAwait
  <2> QED
    BY <1>1, <2>1 DEF Calls
<1>2. CASE c.op # "create"
  <2>1. \/ AfterAwait(c, err) = Done("OK")
        \/ AfterAwait(c, err) = Done("EOF")
        \/ AfterAwait(c, err) = Done(MapErrorCode(err))
    BY <1>2 DEF AfterAwait
  <2>2. MapErrorCode(err) \in Replies \ {"pending"}
    BY DEF MapErrorCode, Replies
  <2>3. "OK" \in Replies \ {"pending"} /\ "EOF" \in Replies \ {"pending"}
    BY DEF Replies
  <2> QED
    BY <2>1, <2>2, <2>3
<1> QED
  BY <1>1, <1>2

\* A request that a handler may send to an agent.
Sendable(c) ==
    /\ c \in Calls
    /\ c.op # "none" /\ c.server \in Agents
    /\ c.op = "create" => c.reply # "pending"

\* A reply keeps the calls in order.
LEMMA ReplyInv ==
    ASSUME CallsInv, NEW r \in Requests, Free(r), NEW reply \in Replies \ {"pending"},
           Reply(r, reply)
    PROVE  /\ CallsInv'
           /\ online' = online
           /\ \A q \in Requests \ {r} : call'[q] = call[q] /\ outcome'[q] = outcome[q]
           /\ call'[r].op = "none"
<1>1. UNCHANGED <<online, waiting, outcome>>
  BY DEF Reply, tunnelVars
<1>2. Done(reply) \in Calls /\ Done(reply).op = "none" /\ Done(reply).reply # "pending"
  BY DoneFields
<1>3. /\ call' \in [Requests -> Calls]
      /\ \A q \in Requests : call'[q] = IF q = r THEN Done(reply) ELSE call[q]
  BY <1>2 DEF CallsInv, Reply
<1>4. TunnelTypeOK'
  BY <1>1 DEF CallsInv, TunnelTypeOK
<1>5. AwaitingIsWaiting'
  BY <1>1, <1>2, <1>3 DEF CallsInv, AwaitingIsWaiting, Free
<1>6. WaitsForItsCall'
  BY <1>1, <1>2, <1>3 DEF CallsInv, WaitsForItsCall, Free
<1>7. PendingIsAwaited'
  BY <1>2, <1>3 DEF CallsInv, PendingIsAwaited
<1> QED
  BY <1>1, <1>2, <1>3, <1>4, <1>5, <1>6, <1>7 DEF CallsInv

\* So does a request that goes out, or is refused.
LEMMA ForwardInv ==
    ASSUME CallsInv, NEW r \in Requests, Free(r), NEW c, Sendable(c), Forward(r, c)
    PROVE  /\ CallsInv'
           /\ online' = online
           /\ \A q \in Requests \ {r} : call'[q] = call[q] /\ outcome'[q] = outcome[q]
           /\ call'[r].op = "none" \/ call'[r] = c
<1> DEFINE s == c.server
<1>1. CASE Ask(s, r) /\ call' = [call EXCEPT ![r] = c]
  <2>1. /\ online' = online /\ s \in online
        /\ \A a \in Agents : waiting'[a] = IF a = s THEN waiting[a] \union {r} ELSE waiting[a]
        /\ \A q \in Requests : outcome'[q] = IF q = r THEN "waiting" ELSE outcome[q]
    BY <1>1 DEF Ask, CallsInv, TunnelTypeOK, Sendable
  <2>2. TunnelTypeOK'
    BY <1>1 DEF Ask, CallsInv, TunnelTypeOK, Sendable, Settled
  <2>3. /\ call' \in [Requests -> Calls]
        /\ \A q \in Requests : call'[q] = IF q = r THEN c ELSE call[q]
    BY <1>1 DEF CallsInv, Sendable
  <2>4. AwaitingIsWaiting'
    BY <2>1, <2>3 DEF CallsInv, AwaitingIsWaiting, Sendable, TunnelTypeOK
  <2>5. WaitsForItsCall'
    <3>1. \A a \in Agents : r \notin waiting[a]
      BY DEF CallsInv, WaitsForItsCall, Free
    <3>2. \A a \in Agents, q \in Requests : q \in waiting'[a] /\ q = r => a = s
      BY <2>1, <3>1
    <3>3. \A a \in Agents, q \in Requests : q \in waiting'[a] /\ q # r => q \in waiting[a]
      BY <2>1
    <3>4. \A a \in Agents, q \in Requests :
            q \in waiting'[a] /\ q # r => call'[q].op # "none" /\ call'[q].server = a
      BY <2>3, <3>3 DEF CallsInv, WaitsForItsCall
    <3>5. call'[r].op # "none" /\ call'[r].server = s
      BY <2>3 DEF Sendable
    <3> QED
      BY <3>2, <3>4, <3>5 DEF WaitsForItsCall
  <2>6. PendingIsAwaited'
    BY <2>3 DEF CallsInv, PendingIsAwaited, Sendable
  <2> QED
    BY <2>1, <2>2, <2>3, <2>4, <2>5, <2>6 DEF CallsInv
<1>2. CASE Refuse(s, r) /\ call' = [call EXCEPT ![r] = AfterAwait(c, "AGENT_OFFLINE")]
  <2>1. PICK reply \in Replies \ {"pending"} : AfterAwait(c, "AGENT_OFFLINE") = Done(reply)
    BY AfterAwaitReplies DEF Sendable
  <2>2. Done(reply) \in Calls /\ Done(reply).op = "none" /\ Done(reply).reply # "pending"
    BY DoneFields
  <2>3. /\ online' = online /\ waiting' = waiting
        /\ \A q \in Requests : outcome'[q] = IF q = r THEN "AGENT_OFFLINE" ELSE outcome[q]
    BY <1>2 DEF Refuse, CallsInv, TunnelTypeOK
  <2>4. TunnelTypeOK'
    BY <1>2 DEF Refuse, CallsInv, TunnelTypeOK, Settled
  <2>5. /\ call' \in [Requests -> Calls]
        /\ \A q \in Requests : call'[q] = IF q = r THEN Done(reply) ELSE call[q]
    BY <1>2, <2>1, <2>2 DEF CallsInv
  <2>6. AwaitingIsWaiting'
    BY <2>2, <2>3, <2>5 DEF CallsInv, AwaitingIsWaiting
  <2>7. WaitsForItsCall'
    BY <2>2, <2>3, <2>5 DEF CallsInv, WaitsForItsCall, Free
  <2>8. PendingIsAwaited'
    BY <2>2, <2>5 DEF CallsInv, PendingIsAwaited
  <2> QED
    BY <2>2, <2>3, <2>4, <2>5, <2>6, <2>7, <2>8 DEF CallsInv
<1> QED
  BY <1>1, <1>2 DEF Forward

-----------------------------------------------------------------------------
(* The handles.                                                            *)

\* There are finitely many handles.
LEMMA FiniteHandles == ASSUME HandlesInv PROVE IsFiniteSet(DOMAIN handles)
<1>1. IsFiniteSet(1 .. handleCounter)
  BY FS_Interval DEF HandlesInv
<1> QED
  BY <1>1, FS_Subset DEF HandlesInv

\* The rights that open a handle: a directory's, a new file's, a file's that is
\* opened for reading or for writing.
RightsOf(flags) ==
    CASE flags = "undefined" -> {"READ"}
      [] flags = "create"    -> {"WRITE"}
      [] flags = "plain"     -> {"READ", "WRITE"}

\* The handles stay, gain one, lose some, or have one marked; or a number is
\* used up.
HandlesKept == UNCHANGED <<handles, handleCounter>>
HandlesGain ==
    /\ RoomForHandle /\ NumberTaken
    /\ \E s \in Agents \union {NoServer}, p \in Paths,
          flags \in {"undefined", "plain", "create"} :
          /\ flags = "undefined" \/ s \in online
          /\ s # NoServer => \E right \in RightsOf(flags) : Permitted(s, p, right)
          /\ Opened(s, p, flags)
HandlesLose == \E h : handles' = WithoutHandle(h) /\ UNCHANGED handleCounter
HandleMarked(h) ==
    h \in DOMAIN handles /\ handles' = MarkedRead(h) /\ UNCHANGED handleCounter
NumberLost == NumberTaken /\ UNCHANGED handles
HandlesMove ==
    HandlesKept \/ HandlesGain \/ HandlesLose \/ (\E h : HandleMarked(h)) \/ NumberLost

\* Such a step keeps the handles in order, and a number that was in use is not
\* given out again.
HandlesGoOn ==
    /\ handleCounter' \in handleCounter .. MaxCounter
    /\ \A h \in DOMAIN handles' :
          \/ h \in DOMAIN handles /\ (handles[h].readDone => handles'[h].readDone)
          \/ h > handleCounter

\* A new handle takes a new number, within the quota.
LEMMA GainInv == ASSUME HandlesInv, HandlesGain, online' = online
                 PROVE  HandlesInv' /\ HandlesGoOn
<1>1. PICK s \in Agents \union {NoServer}, p \in Paths,
           flags \in {"undefined", "plain", "create"} :
         (flags = "undefined" \/ s \in online) /\ Opened(s, p, flags)
  BY DEF HandlesGain
<1>2. handleCounter \in Nat /\ handleCounter' = handleCounter + 1 /\ handleCounter' <= MaxCounter
  BY DEF HandlesGain, NumberTaken, HandlesInv
<1> DEFINE new == [server |-> s, path |-> p, flags |-> flags, readDone |-> FALSE]
<1>3. /\ DOMAIN handles' = DOMAIN handles \union {handleCounter'}
      /\ handles'[handleCounter'] = new
      /\ \A h \in DOMAIN handles : handles'[h] = handles[h]
  BY <1>1, <1>2 DEF Opened, NewHandle, HandlesInv
<1>4. new \in HandleInfos
  BY DEF HandleInfos
<1>5. DOMAIN handles' \subseteq 1 .. handleCounter'
  BY <1>2, <1>3 DEF HandlesInv
<1>6. \A h \in DOMAIN handles' : handles'[h] \in HandleInfos
  BY <1>3, <1>4 DEF HandlesInv
<1>7. HandleQuota'
  <2>1. handleCounter' \notin DOMAIN handles
    BY <1>2 DEF HandlesInv
  <2>2. Cardinality(DOMAIN handles') = Cardinality(DOMAIN handles) + 1
    BY <1>3, <2>1, FiniteHandles, FS_AddElement
  <2>3. Cardinality(DOMAIN handles) \in Nat
    BY FiniteHandles, FS_CardinalityType
  <2> QED
    BY <2>2, <2>3 DEF HandlesGain, RoomForHandle, HandleQuota
<1>8. FileHandlesAreOnline'
  BY <1>1, <1>3 DEF HandlesInv, FileHandlesAreOnline
<1>9. HandlesGoOn
  BY <1>2, <1>3 DEF HandlesGoOn
<1> QED
  BY <1>2, <1>5, <1>6, <1>7, <1>8, <1>9 DEF HandlesInv

\* Fewer handles, each as it was, on servers that were online and still are.
LEMMA FewerInv ==
    ASSUME HandlesInv, UNCHANGED handleCounter,
           DOMAIN handles' \subseteq DOMAIN handles,
           \A h \in DOMAIN handles' : /\ handles'[h] \in HandleInfos
                                      /\ handles'[h].server = handles[h].server
                                      /\ handles'[h].flags = handles[h].flags
                                      /\ handles[h].readDone => handles'[h].readDone,
           \A h \in DOMAIN handles' : handles[h].server \in online => handles[h].server \in online'
    PROVE  HandlesInv' /\ HandlesGoOn
<1>1. Cardinality(DOMAIN handles') <= Cardinality(DOMAIN handles)
  BY FiniteHandles, FS_Subset
<1>2. Cardinality(DOMAIN handles') \in Nat /\ Cardinality(DOMAIN handles) \in Nat
  BY FiniteHandles, FS_Subset, FS_CardinalityType
<1>3. HandleQuota'
  BY <1>1, <1>2 DEF HandlesInv, HandleQuota
<1>4. FileHandlesAreOnline'
  BY DEF HandlesInv, FileHandlesAreOnline
<1>5. HandlesGoOn
  BY DEF HandlesGoOn, HandlesInv
<1> QED
  BY <1>3, <1>4, <1>5 DEF HandlesInv

\* Whatever a call does to the handles, they stay in order.
LEMMA HandlesMoveInv == ASSUME HandlesInv, HandlesMove, online' = online
                        PROVE  HandlesInv' /\ HandlesGoOn
<1>1. CASE HandlesKept
  BY <1>1, FewerInv DEF HandlesKept, HandlesInv
<1>2. CASE HandlesGain
  BY <1>2, GainInv
<1>3. CASE HandlesLose
  <2>1. PICK h : handles' = WithoutHandle(h) /\ UNCHANGED handleCounter
    BY <1>3 DEF HandlesLose
  <2>2. /\ DOMAIN handles' = DOMAIN handles \ {h}
        /\ \A k \in DOMAIN handles' : handles'[k] = handles[k]
    BY <2>1 DEF WithoutHandle, Restrict
  <2> QED
    BY <2>1, <2>2, FewerInv DEF HandlesInv
<1>4. ASSUME NEW h, HandleMarked(h) PROVE HandlesInv' /\ HandlesGoOn
  <2>1. /\ DOMAIN handles' = DOMAIN handles /\ UNCHANGED handleCounter
        /\ h \in DOMAIN handles
        /\ handles'[h] = [handles[h] EXCEPT !.readDone = TRUE]
        /\ \A k \in DOMAIN handles \ {h} : handles'[k] = handles[k]
    BY <1>4 DEF HandleMarked, MarkedRead
  <2>2. handles[h] \in HandleInfos
    BY <2>1 DEF HandlesInv
  <2>3. /\ handles'[h] \in HandleInfos /\ handles'[h].readDone = TRUE
        /\ handles'[h].server = handles[h].server /\ handles'[h].flags = handles[h].flags
    BY <2>1, <2>2 DEF HandleInfos
  <2>4. \A k \in DOMAIN handles' : /\ handles'[k] \in HandleInfos
                                   /\ handles'[k].server = handles[k].server
                                   /\ handles'[k].flags = handles[k].flags
                                   /\ handles[k].readDone => handles'[k].readDone
    BY <2>1, <2>3 DEF HandlesInv
  <2> QED
    BY <2>1, <2>4, FewerInv
<1>5. CASE NumberLost
  <2>1. handleCounter' = handleCounter + 1 /\ handleCounter' <= MaxCounter /\ handles' = handles
    BY <1>5 DEF NumberLost, NumberTaken, HandlesInv
  <2>2. DOMAIN handles' \subseteq 1 .. handleCounter'
    BY <2>1 DEF HandlesInv
  <2>3. HandleQuota' /\ FileHandlesAreOnline'
    BY <2>1 DEF HandlesInv, HandleQuota, FileHandlesAreOnline
  <2>4. HandlesGoOn
    BY <2>1 DEF HandlesGoOn, HandlesInv
  <2> QED
    BY <2>1, <2>2, <2>3, <2>4 DEF HandlesInv
<1> QED
  BY <1>1, <1>2, <1>3, <1>4, <1>5 DEF HandlesMove

-----------------------------------------------------------------------------
(* What the client may call.                                               *)

\* A request that needs a right has it on each of its paths.
MayBeSent(c) ==
    c.op \notin {"stat", "list"}
        => \A p \in c.paths : <<c.server, p, RightFor(c.op)>> \in profile.allowed

\* The slot of a call gets a reply, or a request goes out for it.
Moves(r) ==
    \/ \E reply \in Replies \ {"pending"} : Reply(r, reply)
    \/ \E c \in Calls : /\ Sendable(c) /\ c.op # "list" /\ MayBeSent(c)
                        /\ Forward(r, c)

ListRequest(h) ==
    [Request("list", handles[h].server, {handles[h].path}) EXCEPT !.handle = h]

\* A READDIR that lists.
Lists(r) == \E h : /\ HandleMarked(h) /\ ~handles[h].readDone
                   /\ handles[h].server # NoServer
                   /\ Forward(r, ListRequest(h))

CallShape(r) == /\ Free(r) /\ UNCHANGED profile
                /\ (Moves(r) /\ HandlesMove) \/ Lists(r)

\* What a request says.
LEMMA RequestFields ==
    ASSUME NEW op \in Ops, NEW s \in Agents, NEW paths \in SUBSET Paths
    PROVE  LET c == Request(op, s, paths) IN
           /\ c \in Calls /\ c.op = op /\ c.server = s /\ c.paths = paths
           /\ c.reply = "pending"
  BY DEF Request, Calls, Replies

\* A request for a server that may be offline.
LEMMA ForwardOrMoves ==
    ASSUME NEW r, NEW c \in Calls, Sendable(c), c.op # "list", MayBeSent(c),
           NEW reply \in Replies \ {"pending"}, ForwardOr(r, c, reply)
    PROVE  Moves(r)
  BY DEF ForwardOr, Moves

\* The replies that are no error of an agent.
LEMMA RepliesOwn ==
    {"OK", "EOF", "NO_SUCH_FILE", "FAILURE", "PERMISSION_DENIED", "CONNECTION_LOST"}
      \subseteq Replies \ {"pending"}
  BY DEF Replies

\* Calls that touch no agent.
LEMMA LocalShape ==
    ASSUME NEW r \in Requests,
           \/ AnswerLocally(r) \/ OpenRoot(r) \/ RefuseRootPath(r) \/ RefuseLargeWrite(r)
           \/ \E h \in Handles : CloseHandle(r, h)
    PROVE  CallShape(r)
<1>1. CASE AnswerLocally(r) \/ RefuseRootPath(r) \/ RefuseLargeWrite(r)
  BY <1>1, RepliesOwn DEF AnswerLocally, RefuseRootPath, RefuseLargeWrite, CallShape,
     Moves, HandlesMove, HandlesKept
<1>2. CASE OpenRoot(r)
  BY <1>2, RepliesOwn DEF OpenRoot, CallShape, Moves, HandlesMove, HandlesKept
<1>3. ASSUME NEW h \in Handles, CloseHandle(r, h) PROVE CallShape(r)
  BY <1>3, RepliesOwn DEF CloseHandle, CallShape, Moves, HandlesMove, HandlesLose
<1> QED
  BY <1>1, <1>2, <1>3

\* handleStat, for a path or a handle.
LEMMA StatMoves ==
    ASSUME NEW r \in Requests, NEW s \in Agents, NEW p \in Paths, NEW fallback \in BOOLEAN,
           HandleStat(r, s, p, fallback)
    PROVE  Moves(r)
<1> DEFINE c == [Request("stat", s, {p}) EXCEPT !.fallback = fallback]
<1>1. c \in Calls /\ c.op = "stat" /\ c.server = s
  BY DEF Request, Calls, Replies, Ops
<1>2. Sendable(c) /\ c.op # "list" /\ MayBeSent(c)
  BY <1>1 DEF Sendable, MayBeSent
<1>3. CASE ForwardOr(r, c, IF fallback THEN "OK" ELSE "NO_SUCH_FILE")
  <2> DEFINE reply == IF fallback THEN "OK" ELSE "NO_SUCH_FILE"
  <2>1. reply \in Replies \ {"pending"}
    BY RepliesOwn
  <2> HIDE DEF reply, c
  <2> QED
    BY <1>1, <1>2, <1>3, <2>1, ForwardOrMoves DEF c, reply
<1>4. CASE Reply(r, "PERMISSION_DENIED") \/ Reply(r, "OK")
  BY <1>4, RepliesOwn DEF Moves
<1> QED
  BY <1>3, <1>4 DEF HandleStat

\* STAT, LSTAT and FSTAT.
LEMMA StatShape ==
    ASSUME HandlesInv, NEW r \in Requests,
           \/ \E s \in Agents, p \in Paths : Stat(r, s, p)
           \/ \E h \in Handles : Fstat(r, h)
    PROVE  CallShape(r)
<1>1. ASSUME NEW s \in Agents, NEW p \in Paths, Stat(r, s, p) PROVE CallShape(r)
  BY <1>1, StatMoves DEF Stat, CallShape, HandlesMove, HandlesKept
<1>2. ASSUME NEW h \in Handles, Fstat(r, h) PROVE CallShape(r)
  <2>1. CASE OnServer(h) /\ HandleStat(r, handles[h].server, handles[h].path,
                                       handles[h].flags = "create")
    <3>1. handles[h].server \in Agents /\ handles[h].path \in Paths
      BY <2>1 DEF OnServer, HandlesInv, HandleInfos
    <3>2. Moves(r)
      BY <2>1, <3>1, StatMoves
    <3> QED
      BY <1>2, <3>2 DEF Fstat, CallShape, HandlesMove, HandlesKept
  <2>2. CASE Reply(r, "FAILURE") \/ Reply(r, "OK")
    BY <1>2, <2>2, RepliesOwn DEF Fstat, CallShape, Moves, HandlesMove, HandlesKept
  <2> QED
    BY <1>2, <2>1, <2>2 DEF Fstat
<1> QED
  BY <1>1, <1>2

\* OPENDIR.
LEMMA OpendirShape ==
    ASSUME NEW r \in Requests, NEW s \in Agents \union {NoServer}, NEW p \in Paths,
           Opendir(r, s, p)
    PROVE  CallShape(r)
<1>1. CASE Reply(r, "FAILURE") /\ UNCHANGED <<handles, handleCounter>>
  BY <1>1, RepliesOwn DEF Opendir, CallShape, Moves, HandlesMove, HandlesKept
<1>2. CASE /\ RoomForHandle /\ NumberTaken /\ MayOpendir(s, p)
           /\ Opened(s, p, "undefined") /\ Reply(r, "OK")
  <2>1. s # NoServer => \E right \in RightsOf("undefined") : Permitted(s, p, right)
    BY <1>2 DEF MayOpendir, RightsOf
  <2>2. HandlesGain
    BY <1>2, <2>1 DEF HandlesGain
  <2> QED
    BY <1>2, <2>2, RepliesOwn DEF Opendir, CallShape, Moves, HandlesMove
<1>3. CASE NumberTaken /\ Reply(r, "PERMISSION_DENIED") /\ UNCHANGED handles
  BY <1>3, RepliesOwn DEF Opendir, CallShape, Moves, HandlesMove, NumberLost
<1> QED
  BY <1>1, <1>2, <1>3 DEF Opendir

\* READDIR: the only call whose request depends on what it does to its handle.
LEMMA ReaddirShape ==
    ASSUME HandlesInv, NEW r \in Requests, NEW h \in Handles, Readdir(r, h)
    PROVE  CallShape(r)
<1>1. CASE UNCHANGED handles /\ (Reply(r, "FAILURE") \/ Reply(r, "EOF"))
  BY <1>1, RepliesOwn DEF Readdir, CallShape, Moves, HandlesMove, HandlesKept
<1>2. CASE HandleMarked(h) /\ (Reply(r, "OK") \/ Reply(r, "CONNECTION_LOST"))
  BY <1>2, RepliesOwn DEF Readdir, CallShape, Moves, HandlesMove
<1>3. CASE /\ HandleMarked(h) /\ ~handles[h].readDone /\ handles[h].server # NoServer
           /\ Forward(r, ListRequest(h))
  BY <1>3 DEF Readdir, CallShape, Lists
<1> QED
  BY <1>1, <1>2, <1>3 DEF Readdir, ForwardOr, ListRequest, HandleMarked

\* OPEN.
LEMMA OpenShape ==
    ASSUME NEW r \in Requests, NEW s \in Agents, NEW p \in Paths,
           NEW mode \in {"read", "write", "create"}, Open(r, s, p, mode)
    PROVE  CallShape(r)
<1>1. CASE UNCHANGED <<handles, handleCounter>> /\ \E reply \in Replies \ {"pending"} : Reply(r, reply)
  BY <1>1 DEF Open, CallShape, Moves, HandlesMove, HandlesKept
<1>2. CASE /\ RoomForHandle /\ NumberTaken /\ s \in online
           /\ \E right \in {"READ", "WRITE"} : Permitted(s, p, right)
           /\ Opened(s, p, "plain") /\ Reply(r, "OK")
  <2>1. RightsOf("plain") = {"READ", "WRITE"}
    BY DEF RightsOf
  <2>2. HandlesGain
    BY <1>2, <2>1 DEF HandlesGain
  <2> QED
    BY <1>2, <2>2, RepliesOwn DEF Open, CallShape, Moves, HandlesMove
<1>3. CASE /\ RoomForHandle /\ NumberTaken /\ s \in online /\ Opened(s, p, "create")
           /\ mode = "create" /\ Permitted(s, p, "WRITE")
           /\ Forward(r, [Request("create", s, {p}) EXCEPT !.reply = "OK"])
  <2> DEFINE c == [Request("create", s, {p}) EXCEPT !.reply = "OK"]
  <2>1. c \in Calls /\ c.op = "create" /\ c.server = s /\ c.paths = {p} /\ c.reply = "OK"
    BY DEF Request, Calls, Replies, Ops
  <2>2. RightFor("create") = "WRITE"
    BY DEF RightFor
  <2>3. Sendable(c) /\ c.op # "list" /\ MayBeSent(c)
    BY <1>3, <2>1, <2>2 DEF Sendable, MayBeSent, Permitted
  <2>4. Moves(r)
    BY <1>3, <2>1, <2>3 DEF Moves
  <2>5. HandlesMove
    BY <1>3 DEF HandlesMove, HandlesGain, RightsOf
  <2> QED
    BY <1>3, <2>4, <2>5 DEF Open, CallShape
<1> QED
  BY <1>1, <1>2, <1>3, RepliesOwn DEF Open

\* READ and WRITE.
LEMMA FileCallShape ==
    ASSUME HandlesInv, NEW r \in Requests, NEW h \in Handles, NEW op, NEW right,
           <<op, right>> \in {<<"read", "READ">>, <<"write", "WRITE">>},
           FileCall(r, h, op, right)
    PROVE  CallShape(r)
<1>1. CASE UNCHANGED handles /\ Reply(r, "FAILURE")
  BY <1>1, RepliesOwn DEF FileCall, CallShape, Moves, HandlesMove, HandlesKept
<1>2. CASE handles' = WithoutHandle(h) /\ Reply(r, "PERMISSION_DENIED")
  BY <1>2, RepliesOwn DEF FileCall, CallShape, Moves, HandlesMove, HandlesLose
<1>3. CASE /\ OnServer(h) /\ StillPermitted(h, right) /\ UNCHANGED handles
           /\ ForwardOr(r, Request(op, handles[h].server, {handles[h].path}), "CONNECTION_LOST")
  <2> DEFINE c == Request(op, handles[h].server, {handles[h].path})
  <2>1. handles[h].server \in Agents /\ handles[h].path \in Paths
    BY <1>3 DEF OnServer, HandlesInv, HandleInfos
  <2>2. op \in {"read", "write"} /\ RightFor(op) = right
    BY DEF RightFor
  <2>3. /\ c \in Calls /\ c.op = op /\ c.server = handles[h].server
        /\ c.paths = {handles[h].path}
    BY <2>1, <2>2, RequestFields DEF Ops
  <2>4. Sendable(c) /\ c.op # "list" /\ MayBeSent(c)
    BY <1>3, <2>1, <2>2, <2>3 DEF Sendable, MayBeSent, StillPermitted, Permitted
  <2>5. Moves(r)
    BY <1>3, <2>3, <2>4, RepliesOwn, ForwardOrMoves
  <2> QED
    BY <1>3, <2>5 DEF FileCall, CallShape, HandlesMove, HandlesKept
<1> QED
  BY <1>1, <1>2, <1>3 DEF FileCall

\* MKDIR, RMDIR, REMOVE and RENAME.
LEMMA PathCallShape ==
    ASSUME NEW r \in Requests, NEW op, NEW right, NEW s \in Agents, NEW paths \in SUBSET Paths,
           <<op, right>> \in {<<"mkdir", "WRITE">>, <<"rmdir", "DELETE">>,
                              <<"delete", "DELETE">>, <<"rename", "WRITE">>},
           PathCall(r, op, s, paths, right)
    PROVE  CallShape(r)
<1>1. CASE Reply(r, "PERMISSION_DENIED")
  BY <1>1, RepliesOwn DEF PathCall, CallShape, Moves, HandlesMove, HandlesKept
<1>2. CASE /\ \A p \in paths : Permitted(s, p, right)
           /\ ForwardOr(r, Request(op, s, paths), "CONNECTION_LOST")
  <2> DEFINE c == Request(op, s, paths)
  <2>1. op \in {"mkdir", "rmdir", "delete", "rename"} /\ RightFor(op) = right
    BY DEF RightFor
  <2>2. c \in Calls /\ c.op = op /\ c.server = s /\ c.paths = paths
    BY <2>1, RequestFields DEF Ops
  <2>3. Sendable(c) /\ c.op # "list" /\ MayBeSent(c)
    BY <1>2, <2>1, <2>2 DEF Sendable, MayBeSent, Permitted
  <2>4. Moves(r)
    BY <1>2, <2>2, <2>3, RepliesOwn, ForwardOrMoves
  <2> QED
    BY <2>4 DEF PathCall, CallShape, HandlesMove, HandlesKept
<1> QED
  BY <1>1, <1>2 DEF PathCall

\* Every call of a client has that shape.
LEMMA ClientCallShape == ASSUME HandlesInv, NEW r \in Requests, ClientCall(r)
                         PROVE  CallShape(r)
<1>1. CASE \/ AnswerLocally(r) \/ OpenRoot(r) \/ RefuseRootPath(r) \/ RefuseLargeWrite(r)
           \/ \E h \in Handles : CloseHandle(r, h)
  BY <1>1, LocalShape
<1>2. CASE Opendir(r, NoServer, RootPath)
  BY <1>2, OpendirShape
<1>3. ASSUME NEW h \in Handles, Fstat(r, h) \/ Readdir(r, h) PROVE CallShape(r)
  BY <1>3, StatShape, ReaddirShape
<1>4. ASSUME NEW h \in Handles, Read(r, h) \/ Write(r, h) PROVE CallShape(r)
  BY <1>4, FileCallShape DEF Read, Write
<1>5. ASSUME NEW s \in Agents, NEW p \in Paths, Stat(r, s, p) \/ Opendir(r, s, p)
      PROVE  CallShape(r)
  BY <1>5, StatShape, OpendirShape
<1>6. ASSUME NEW s \in Agents, NEW p \in Paths, NEW mode \in {"read", "write", "create"},
             Open(r, s, p, mode)
      PROVE  CallShape(r)
  BY <1>6, OpenShape
<1>7. ASSUME NEW s \in Agents, NEW p \in Paths, Mkdir(r, s, p) \/ Rmdir(r, s, p) \/ Remove(r, s, p)
      PROVE  CallShape(r)
  BY <1>7, PathCallShape DEF Mkdir, Rmdir, Remove
<1>8. ASSUME NEW s \in Agents, NEW p \in Paths, NEW q \in Paths, Rename(r, s, p, q)
      PROVE  CallShape(r)
  BY <1>8, PathCallShape DEF Rename
<1> QED
  BY <1>1, <1>2, <1>3, <1>4, <1>5, <1>6, <1>7, <1>8 DEF ClientCall

-----------------------------------------------------------------------------
(* The steps.                                                              *)

\* Listings stay in order when no new one starts and the handles go on.
LEMMA NoNewListing ==
    ASSUME SessionInv, HandlesGoOn,
           \A q \in Requests : call'[q].op = "list" => call'[q] = call[q]
    PROVE  ListingsAreMarked' /\ OneListingPerHandle'
<1>1. \A q \in Requests :
        call'[q].op = "list"
          => /\ call'[q].handle \in 1 .. handleCounter
             /\ call'[q].handle \in DOMAIN handles => handles[call'[q].handle].readDone
  BY DEF SessionInv, ListingsAreMarked
<1>2. handleCounter \in Nat /\ handleCounter' \in Nat /\ handleCounter <= handleCounter'
  BY DEF SessionInv, HandlesInv, HandlesGoOn
<1>3. \A h \in 1 .. handleCounter :
        h \in DOMAIN handles' => h \in DOMAIN handles /\ (handles[h].readDone => handles'[h].readDone)
  BY <1>2 DEF HandlesGoOn
<1>4. ListingsAreMarked'
  BY <1>1, <1>2, <1>3 DEF ListingsAreMarked
<1>5. OneListingPerHandle'
  BY DEF SessionInv, OneListingPerHandle
<1> QED
  BY <1>4, <1>5

\* A listing starts on a handle that was not marked, so no other is under way
\* there.
LEMMA NewListing ==
    ASSUME SessionInv, NEW r \in Requests, NEW h, HandleMarked(h), ~handles[h].readDone,
           \A q \in Requests \ {r} : call'[q] = call[q],
           call'[r].op = "none" \/ call'[r] = ListRequest(h)
    PROVE  ListingsAreMarked' /\ OneListingPerHandle'
<1>1. /\ DOMAIN handles' = DOMAIN handles /\ UNCHANGED handleCounter
      /\ h \in DOMAIN handles /\ handles[h] \in HandleInfos
      /\ handles'[h] = [handles[h] EXCEPT !.readDone = TRUE]
      /\ \A k \in DOMAIN handles \ {h} : handles'[k] = handles[k]
  BY DEF HandleMarked, MarkedRead, SessionInv, HandlesInv
<1>2. handles'[h].readDone /\ h \in 1 .. handleCounter
  BY <1>1 DEF HandleInfos, SessionInv, HandlesInv
<1>3. \A q \in Requests \ {r} :
        call[q].op = "list"
          => /\ call[q].handle # h /\ call[q].handle \in 1 .. handleCounter
             /\ call[q].handle \in DOMAIN handles => handles[call[q].handle].readDone
  BY <1>1 DEF SessionInv, ListingsAreMarked
<1>4. call'[r].op = "list" => call'[r].handle = h
  BY DEF ListRequest, Request
<1>5. ListingsAreMarked'
  <2>1. ASSUME NEW q \in Requests \ {r}, call'[q].op = "list"
        PROVE  /\ call'[q].handle \in 1 .. handleCounter'
               /\ call'[q].handle \in DOMAIN handles' => handles'[call'[q].handle].readDone
    <3>1. call'[q] = call[q]
      BY <2>1
    <3>2. call[q].handle # h /\ call[q].handle \in 1 .. handleCounter
      BY <1>3, <2>1, <3>1
    <3>3. call[q].handle \in DOMAIN handles' => handles'[call[q].handle].readDone
      BY <1>1, <1>3, <2>1, <3>1, <3>2
    <3> QED
      BY <1>1, <3>1, <3>2, <3>3
  <2>2. call'[r].op = "list" => /\ call'[r].handle \in 1 .. handleCounter'
                                /\ handles'[call'[r].handle].readDone
    BY <1>1, <1>2, <1>4
  <2> QED
    BY <2>1, <2>2 DEF ListingsAreMarked
<1>6. OneListingPerHandle'
  <2>1. \A q, t \in Requests \ {r} :
          call'[q].op = "list" /\ call'[t].op = "list" /\ q # t
            => call'[q].handle # call'[t].handle
    BY DEF SessionInv, OneListingPerHandle
  <2> QED
    BY <1>3, <1>4, <2>1 DEF OneListingPerHandle
<1> QED
  BY <1>5, <1>6

\* What a READDIR asks for may be sent.
LEMMA ListRequestFields ==
    ASSUME HandlesInv, NEW h, HandleMarked(h), handles[h].server # NoServer
    PROVE  /\ Sendable(ListRequest(h))
           /\ ListRequest(h).op = "list" /\ ListRequest(h).reply = "pending"
<1>1. /\ handles[h].server \in Agents /\ handles[h].path \in Paths
      /\ h \in Handles
  BY DEF HandleMarked, HandlesInv, HandleInfos, Handles
<1> DEFINE c == Request("list", handles[h].server, {handles[h].path})
<1>2. c \in Calls /\ c.op = "list" /\ c.server \in Agents /\ c.reply = "pending"
  BY <1>1, RequestFields DEF Ops
<1>3. ListRequest(h) = [c EXCEPT !.handle = h]
  BY DEF ListRequest
<1>4. /\ ListRequest(h) \in Calls /\ ListRequest(h).op = c.op
      /\ ListRequest(h).server = c.server /\ ListRequest(h).reply = c.reply
  <2> HIDE DEF c
  <2> QED
    BY <1>1, <1>2, <1>3 DEF Calls
<1> QED
  BY <1>2, <1>4 DEF Sendable

\* A call of a client: only its slot changes, to a reply or to a request that
\* may be sent.
LEMMA ClientCallStep ==
    ASSUME SessionInv, NEW r \in Requests, ClientCall(r)
    PROVE  /\ SessionInv'
           /\ call[r].op = "none" /\ UNCHANGED profile
           /\ \A q \in Requests \ {r} : call'[q] = call[q] /\ outcome'[q] = outcome[q]
           /\ call'[r].op # "none" => MayBeSent(call'[r])
<1>1. CallShape(r) /\ Free(r) /\ UNCHANGED profile
  BY ClientCallShape DEF SessionInv, CallShape
<1>2. CASE Moves(r) /\ HandlesMove
  <2> DEFINE Kept ==
        /\ CallsInv' /\ online' = online
        /\ \A q \in Requests \ {r} : call'[q] = call[q] /\ outcome'[q] = outcome[q]
        /\ call'[r].op = "none" \/ (call'[r].op # "list" /\ MayBeSent(call'[r]))
  <2>1. Kept
    <3>1. ASSUME NEW reply \in Replies \ {"pending"}, Reply(r, reply) PROVE Kept
      BY <1>1, <3>1, ReplyInv DEF SessionInv
    <3>2. ASSUME NEW c \in Calls, Sendable(c), c.op # "list", MayBeSent(c), Forward(r, c)
          PROVE  Kept
      BY <1>1, <3>2, ForwardInv DEF SessionInv
    <3> QED
      BY <1>2, <3>1, <3>2 DEF Moves
  <2>2. HandlesInv' /\ HandlesGoOn
    BY <1>2, <2>1, HandlesMoveInv DEF SessionInv
  <2>3. ListingsAreMarked' /\ OneListingPerHandle'
    BY <2>1, <2>2, NoNewListing
  <2> QED
    BY <1>1, <2>1, <2>2, <2>3 DEF SessionInv, Free
<1>3. CASE Lists(r)
  <2>1. PICK h : /\ HandleMarked(h) /\ ~handles[h].readDone /\ handles[h].server # NoServer
                 /\ Forward(r, ListRequest(h))
    BY <1>3 DEF Lists
  <2>2. Sendable(ListRequest(h)) /\ ListRequest(h).op = "list"
    BY <2>1, ListRequestFields DEF SessionInv
  <2>3. /\ CallsInv' /\ online' = online
        /\ \A q \in Requests \ {r} : call'[q] = call[q] /\ outcome'[q] = outcome[q]
        /\ call'[r].op = "none" \/ call'[r] = ListRequest(h)
    BY <1>1, <2>1, <2>2, ForwardInv DEF SessionInv
  <2>4. HandlesInv'
    BY <2>1, <2>3, HandlesMoveInv DEF SessionInv, HandlesMove
  <2>5. ListingsAreMarked' /\ OneListingPerHandle'
    BY <2>1, <2>3, NewListing
  <2>6. call'[r].op # "none" => MayBeSent(call'[r])
    BY <2>2, <2>3 DEF MayBeSent
  <2> QED
    BY <1>1, <2>3, <2>4, <2>5, <2>6 DEF SessionInv, Free
<1> QED
  BY <1>1, <1>2, <1>3 DEF CallShape

\* When the connection of an agent is closed, the calls that await it have
\* their reply and the others go on.
LEMMA AbandonInv ==
    ASSUME CallsInv, NEW a \in Agents, Abandon(a), call' = ResumedOffline(a),
           online' \subseteq online, online \ {a} \subseteq online'
    PROVE  /\ CallsInv'
           /\ \A q \in Requests :
                IF q \in waiting[a]
                THEN /\ outcome'[q] = "AGENT_OFFLINE" /\ call'[q].op = "none"
                     /\ call'[q] = AfterAwait(call[q], "AGENT_OFFLINE")
                ELSE outcome'[q] = outcome[q] /\ call'[q] = call[q]
<1>1. /\ \A q \in Requests :
           outcome'[q] = IF q \in waiting[a] THEN "AGENT_OFFLINE" ELSE outcome[q]
      /\ \A b \in Agents : waiting'[b] = IF b = a THEN {} ELSE waiting[b]
  BY DEF Abandon, CallsInv, TunnelTypeOK
<1>2. \A q \in Requests :
        call'[q] = IF q \in waiting[a] THEN AfterAwait(call[q], "AGENT_OFFLINE") ELSE call[q]
  BY DEF ResumedOffline
<1>3. ASSUME NEW q \in Requests
      PROVE  LET d == AfterAwait(call[q], "AGENT_OFFLINE") IN
             d \in Calls /\ d.op = "none" /\ d.reply # "pending"
  <2>1. PICK reply \in Replies \ {"pending"} :
          AfterAwait(call[q], "AGENT_OFFLINE") = Done(reply)
    BY AfterAwaitReplies DEF CallsInv, PendingIsAwaited
  <2> QED
    BY <2>1, DoneFields
<1>4. TunnelTypeOK'
  BY DEF CallsInv, TunnelTypeOK, Abandon, Settled
<1>5. call' \in [Requests -> Calls]
  BY <1>3 DEF CallsInv, ResumedOffline
<1>6. AwaitingIsWaiting'
  <2>1. ASSUME NEW q \in Requests, q \in waiting[a]
        PROVE  call'[q].op = "none" /\ outcome'[q] # "waiting"
    BY <1>1, <1>2, <1>3, <2>1
  <2>2. ASSUME NEW q \in Requests, q \notin waiting[a]
        PROVE  /\ call'[q] = call[q] /\ outcome'[q] = outcome[q]
               /\ call[q].op # "none" => /\ call[q].server \in online'
                                         /\ q \in waiting'[call[q].server]
    <3>1. call[q].op # "none" => /\ call[q].server \in online /\ call[q].server # a
                                 /\ q \in waiting[call[q].server]
      BY <2>2 DEF CallsInv, AwaitingIsWaiting
    <3>2. online \subseteq Agents
      BY DEF CallsInv, TunnelTypeOK
    <3> QED
      BY <1>1, <1>2, <2>2, <3>1, <3>2
  <2> QED
    BY <2>1, <2>2 DEF CallsInv, AwaitingIsWaiting
<1>7. WaitsForItsCall'
  <2>1. ASSUME NEW b \in Agents, NEW q \in Requests, q \in waiting'[b]
        PROVE  b # a /\ q \in waiting[b] /\ q \notin waiting[a]
    BY <1>1, <2>1 DEF CallsInv, WaitsForItsCall
  <2> QED
    BY <1>2, <2>1 DEF CallsInv, WaitsForItsCall
<1>8. PendingIsAwaited'
  BY <1>2, <1>3 DEF CallsInv, PendingIsAwaited
<1> QED
  BY <1>1, <1>2, <1>3, <1>4, <1>5, <1>6, <1>7, <1>8 DEF CallsInv

\* When a promise is settled, its call has its reply and the others go on.
LEMMA SettleInv ==
    ASSUME CallsInv, NEW a \in Agents, NEW r \in Requests, NEW how \in {"ANSWERED", "TIMEOUT"},
           NEW err, Settle(a, r, how), call' = [call EXCEPT ![r] = AfterAwait(@, err)]
    PROVE  /\ CallsInv' /\ online' = online
           /\ \A q \in Requests \ {r} : call'[q] = call[q] /\ outcome'[q] = outcome[q]
           /\ call'[r] = AfterAwait(call[r], err) /\ call'[r].op = "none" /\ outcome'[r] = how
<1>1. /\ online' = online /\ r \in waiting[a]
      /\ \A b \in Agents : waiting'[b] = IF b = a THEN waiting[b] \ {r} ELSE waiting[b]
      /\ \A q \in Requests : outcome'[q] = IF q = r THEN how ELSE outcome[q]
  BY DEF Settle, CallsInv, TunnelTypeOK
<1>2. PICK reply \in Replies \ {"pending"} : AfterAwait(call[r], err) = Done(reply)
  BY AfterAwaitReplies DEF CallsInv, PendingIsAwaited
<1>3. Done(reply) \in Calls /\ Done(reply).op = "none" /\ Done(reply).reply # "pending"
  BY DoneFields
<1>4. /\ call' \in [Requests -> Calls]
      /\ \A q \in Requests : call'[q] = IF q = r THEN Done(reply) ELSE call[q]
  BY <1>2, <1>3 DEF CallsInv
<1>5. TunnelTypeOK'
  BY DEF CallsInv, TunnelTypeOK, Settle, Settled
<1>6. AwaitingIsWaiting'
  <2>1. online \subseteq Agents
    BY DEF CallsInv, TunnelTypeOK
  <2>2. ASSUME NEW q \in Requests \ {r}
        PROVE  /\ call'[q].op # "none" <=> outcome'[q] = "waiting"
               /\ call'[q].op # "none" => /\ call'[q].server \in online'
                                          /\ q \in waiting'[call'[q].server]
    BY <1>1, <1>4, <2>1 DEF CallsInv, AwaitingIsWaiting
  <2>3. call'[r].op = "none" /\ outcome'[r] # "waiting"
    BY <1>1, <1>3, <1>4
  <2> QED
    BY <2>2, <2>3 DEF AwaitingIsWaiting
<1>7. WaitsForItsCall'
  <2>1. call[r].server = a
    BY <1>1 DEF CallsInv, WaitsForItsCall
  <2>2. ASSUME NEW b \in Agents, NEW q \in Requests, q \in waiting'[b]
        PROVE  q # r /\ q \in waiting[b]
    <3>1. b = a => q # r /\ q \in waiting[b]
      BY <1>1, <2>2
    <3>2. b # a => q \in waiting[b]
      BY <1>1, <2>2
    <3>3. b # a => q # r
      BY <2>1, <3>2 DEF CallsInv, WaitsForItsCall
    <3> QED
      BY <3>1, <3>2, <3>3
  <2> QED
    BY <1>4, <2>2 DEF CallsInv, WaitsForItsCall
<1>8. PendingIsAwaited'
  BY <1>3, <1>4 DEF CallsInv, PendingIsAwaited
<1> QED
  BY <1>1, <1>2, <1>3, <1>4, <1>5, <1>6, <1>7, <1>8 DEF CallsInv

\* The connection of an agent comes or goes.
LEMMA AgentStep ==
    ASSUME SessionInv, NEW a \in Agents, AgentUp(a) \/ AgentReplaced(a) \/ AgentDown(a)
    PROVE  SessionInv'
<1>1. CASE AgentUp(a)
  <2>1. /\ online' = online \union {a} /\ UNCHANGED <<waiting, outcome>>
        /\ UNCHANGED <<profile, handles, handleCounter, call>>
    BY <1>1 DEF AgentUp, Up, sessionVars
  <2>2. CallsInv'
    BY <2>1 DEF SessionInv, CallsInv, TunnelTypeOK, AwaitingIsWaiting, WaitsForItsCall,
       PendingIsAwaited
  <2>3. HandlesInv'
    BY <2>1 DEF SessionInv, HandlesInv, HandleQuota, FileHandlesAreOnline
  <2> QED
    BY <2>1, <2>2, <2>3 DEF SessionInv, ListingsAreMarked, OneListingPerHandle
<1>2. CASE AgentReplaced(a) \/ AgentDown(a)
  <2>1. /\ Abandon(a) /\ call' = ResumedOffline(a) /\ UNCHANGED <<profile, handleCounter>>
        /\ online' \subseteq online /\ online \ {a} \subseteq online'
    BY <1>2 DEF AgentReplaced, AgentDown, Replaced, Down
  <2>2. /\ CallsInv'
        /\ \A q \in Requests : call'[q].op = "list" => call'[q] = call[q]
    <3>1. CallsInv
      BY DEF SessionInv
    <3> QED
      BY <2>1, <3>1, AbandonInv
  <2>3. /\ DOMAIN handles' \subseteq DOMAIN handles
        /\ \A h \in DOMAIN handles' : handles'[h] = handles[h]
        /\ \A h \in DOMAIN handles' :
             handles[h].server \in online => handles[h].server \in online'
    <3>1. CASE AgentReplaced(a)
      BY <3>1 DEF AgentReplaced, Replaced
    <3>2. CASE AgentDown(a)
      BY <3>2 DEF AgentDown, Down, WithoutServer, Restrict
    <3> QED
      BY <1>2, <3>1, <3>2
  <2>4. HandlesInv' /\ HandlesGoOn
    <3>1. HandlesInv /\ \A h \in DOMAIN handles : handles[h] \in HandleInfos
      BY DEF SessionInv, HandlesInv
    <3> QED
      BY <2>1, <2>3, <3>1, FewerInv
  <2>5. ListingsAreMarked' /\ OneListingPerHandle'
    BY <2>2, <2>4, NoNewListing
  <2> QED
    BY <2>1, <2>2, <2>4, <2>5 DEF SessionInv
<1> QED
  BY <1>1, <1>2

\* An answer or a timer settles a call.
LEMMA AnswerStep ==
    ASSUME SessionInv, NEW a \in Agents, NEW r \in Requests,
           RequestExpires(a, r) \/ \E err \in AgentErrors : AgentAnswers(a, r, err)
    PROVE  SessionInv'
<1>1. PICK how \in {"ANSWERED", "TIMEOUT"}, err \in AgentErrors \union {"TIMEOUT"} :
         Settle(a, r, how) /\ call' = [call EXCEPT ![r] = AfterAwait(@, err)]
  BY DEF RequestExpires, AgentAnswers, Answer, Expire
<1>2. UNCHANGED <<profile, handles, handleCounter>>
  BY DEF RequestExpires, AgentAnswers
<1>3. CallsInv
  BY DEF SessionInv
<1>4. /\ CallsInv' /\ online' = online
      /\ \A q \in Requests : call'[q].op = "list" => call'[q] = call[q]
  BY <1>1, <1>3, SettleInv
<1>5. HandlesInv' /\ HandlesGoOn
  BY <1>2, <1>4, HandlesMoveInv DEF SessionInv, HandlesMove, HandlesKept
<1>6. ListingsAreMarked' /\ OneListingPerHandle'
  BY <1>4, <1>5, NoNewListing
<1> QED
  BY <1>2, <1>4, <1>5, <1>6 DEF SessionInv

\* Every step keeps the invariant.
LEMMA NextSessionInv == ASSUME SessionInv, [Next]_vars PROVE SessionInv'
<1>1. ASSUME NEW r \in Requests, ClientCall(r) PROVE SessionInv'
  BY <1>1, ClientCallStep
<1>2. ASSUME NEW a \in Agents, AgentEvent(a) PROVE SessionInv'
  BY <1>2, AgentStep, AnswerStep DEF AgentEvent
<1>3. CASE ChangeProfile \/ UNCHANGED vars
  <2>1. /\ profile' \in Profiles
        /\ UNCHANGED <<online, waiting, outcome, handles, handleCounter, call>>
    BY <1>3 DEF ChangeProfile, tunnelVars, vars, SessionInv
  <2>2. CallsInv'
    BY <2>1 DEF SessionInv, CallsInv, TunnelTypeOK, AwaitingIsWaiting, WaitsForItsCall,
       PendingIsAwaited
  <2>3. HandlesInv'
    BY <2>1 DEF SessionInv, HandlesInv, HandleQuota, FileHandlesAreOnline
  <2> QED
    BY <2>1, <2>2, <2>3 DEF SessionInv, ListingsAreMarked, OneListingPerHandle
<1> QED
  BY <1>1, <1>2, <1>3 DEF Next

\* A session begins without handles and calls.
LEMMA InitSessionInv == Init => SessionInv
<1> SUFFICES ASSUME Init PROVE SessionInv
  OBVIOUS
<1>1. Done("none") \in Calls /\ Done("none").op = "none" /\ Done("none").reply = "none"
  BY DEF Done, Calls, Ops, Replies
<1>2. CallsInv
  BY <1>1 DEF Init, TunnelInit, CallsInv, TunnelTypeOK, Settled, AwaitingIsWaiting,
     WaitsForItsCall, PendingIsAwaited
<1>3. DOMAIN handles = {}
  BY DEF Init
<1>4. HandleQuota
  BY <1>3, FS_EmptySet DEF HandleQuota
<1>5. HandlesInv
  BY <1>3, <1>4 DEF Init, HandlesInv, FileHandlesAreOnline
<1>6. ListingsAreMarked /\ OneListingPerHandle
  BY <1>1 DEF Init, ListingsAreMarked, OneListingPerHandle
<1> QED
  BY <1>2, <1>5, <1>6 DEF Init, SessionInv

-----------------------------------------------------------------------------
(* The theorems.                                                           *)

\* The invariant holds in every reachable state.
THEOREM SessionInvariant == Spec => []SessionInv
  BY InitSessionInv, NextSessionInv, PTL DEF Spec

\* Every variable of a session keeps its type.
THEOREM SessionTypeCorrect == Spec => []TypeOK
<1>1. SessionInv => TypeOK
  BY DEF SessionInv, CallsInv, HandlesInv, TypeOK
<1> QED
  BY <1>1, SessionInvariant, PTL

\* A handler awaits exactly the promises that are held for it.
THEOREM HandlersAwaitTheirPromises == Spec => []AwaitingIsWaiting
<1>1. SessionInv => AwaitingIsWaiting
  BY DEF SessionInv, CallsInv
<1> QED
  BY <1>1, SessionInvariant, PTL

\* No order of opens, closes, denials and drops exceeds the limit of handles.
THEOREM QuotaHolds == Spec => []HandleQuota
<1>1. SessionInv => HandleQuota
  BY DEF SessionInv, HandlesInv
<1> QED
  BY <1>1, SessionInvariant, PTL

\* No file handle outlives the connection of its agent.
THEOREM HandlesDoNotOutliveAgents == Spec => []FileHandlesAreOnline
<1>1. SessionInv => FileHandlesAreOnline
  BY DEF SessionInv, HandlesInv
<1> QED
  BY <1>1, SessionInvariant, PTL

\* Two READDIRs on one handle never both list.
THEOREM ListedOnce == Spec => []OneListingPerHandle
<1>1. SessionInv => OneListingPerHandle
  BY DEF SessionInv
<1> QED
  BY <1>1, SessionInvariant, PTL

\* Requests go out for calls of the client, and nothing else sends one.
LEMMA OnlyClientsSend ==
    ASSUME SessionInv, [Next]_vars, NEW r \in Requests, Sends(r)
    PROVE  ClientCall(r)
<1>1. CallsInv
  BY DEF SessionInv
<1>2. ASSUME NEW q \in Requests, ClientCall(q) PROVE ClientCall(r)
  <2>1. \A t \in Requests \ {q} : call'[t] = call[t]
    BY <1>2, ClientCallStep
  <2> QED
    BY <1>2, <2>1 DEF Sends
<1>3. ASSUME NEW a \in Agents, AgentEvent(a) PROVE FALSE
  <2>1. CASE AgentUp(a)
    BY <2>1 DEF AgentUp, sessionVars, Sends
  <2>2. CASE AgentReplaced(a) \/ AgentDown(a)
    <3>1. /\ Abandon(a) /\ call' = ResumedOffline(a)
          /\ online' \subseteq online /\ online \ {a} \subseteq online'
      BY <2>2 DEF AgentReplaced, AgentDown, Replaced, Down
    <3>2. call'[r].op = "none" \/ call'[r] = call[r]
      BY <1>1, <3>1, AbandonInv
    <3> QED
      BY <3>2 DEF Sends
  <2>3. ASSUME NEW q \in Requests, NEW how \in {"ANSWERED", "TIMEOUT"}, NEW err,
               Settle(a, q, how), call' = [call EXCEPT ![q] = AfterAwait(@, err)]
        PROVE  FALSE
    <3>1. call'[r].op = "none" \/ call'[r] = call[r]
      BY <1>1, <2>3, SettleInv
    <3> QED
      BY <3>1 DEF Sends
  <2> QED
    BY <1>3, <2>1, <2>2, <2>3 DEF AgentEvent, RequestExpires, AgentAnswers, Expire, Answer
<1>4. CASE ChangeProfile \/ UNCHANGED vars
  BY <1>4 DEF ChangeProfile, vars, Sends
<1> QED
  BY <1>2, <1>3, <1>4 DEF Next

\* What is forwarded is permitted at that moment.
THEOREM ForwardsArePermitted == Spec => FileAccessPermitted
<1>1. ASSUME SessionInv, [Next]_vars
      PROVE  [\A r \in Requests :
                Sends(r) /\ call'[r].op \notin {"stat", "list"} => ForwardPermitted(r)]_vars
  <2>1. ASSUME NEW r \in Requests, Sends(r), call'[r].op \notin {"stat", "list"}
        PROVE  ForwardPermitted(r)
    <3>1. call'[r].op # "none" => MayBeSent(call'[r])
      BY <1>1, <2>1, OnlyClientsSend, ClientCallStep
    <3> QED
      BY <2>1, <3>1 DEF Sends, MayBeSent, ForwardPermitted
  <2> QED
    BY <2>1
<1> QED
  BY <1>1, SessionInvariant, PTL DEF Spec, FileAccessPermitted

\* What may happen in one step to a call whose reply is pending.
PendingStep(r) ==
    \/ call'[r] = call[r] /\ outcome'[r] = outcome[r]
    \/ /\ outcome'[r] = "AGENT_OFFLINE"
       /\ call'[r] = AfterAwait(call[r], "AGENT_OFFLINE")
    \/ outcome'[r] = "TIMEOUT" /\ call'[r] = AfterAwait(call[r], "TIMEOUT")
    \/ outcome'[r] = "ANSWERED"

\* Every step is of that kind.
LEMMA NextPendingStep ==
    ASSUME SessionInv, [Next]_vars, NEW r \in Requests, call[r].reply = "pending"
    PROVE  PendingStep(r)
<1>1. CallsInv
  BY DEF SessionInv
<1>2. call[r].op # "none"
  BY <1>1 DEF CallsInv, PendingIsAwaited
<1>3. ASSUME NEW q \in Requests, ClientCall(q) PROVE PendingStep(r)
  <2>1. /\ call[q].op = "none"
        /\ \A t \in Requests \ {q} : call'[t] = call[t] /\ outcome'[t] = outcome[t]
    BY <1>3, ClientCallStep
  <2> QED
    BY <1>2, <2>1 DEF PendingStep
<1>4. ASSUME NEW a \in Agents, AgentEvent(a) PROVE PendingStep(r)
  <2>1. CASE AgentUp(a)
    BY <2>1 DEF AgentUp, Up, sessionVars, PendingStep
  <2>2. CASE AgentReplaced(a) \/ AgentDown(a)
    <3>1. /\ Abandon(a) /\ call' = ResumedOffline(a)
          /\ online' \subseteq online /\ online \ {a} \subseteq online'
      BY <2>2 DEF AgentReplaced, AgentDown, Replaced, Down
    <3> QED
      BY <1>1, <3>1, AbandonInv DEF PendingStep
  <2>3. ASSUME NEW q \in Requests, RequestExpires(a, q) PROVE PendingStep(r)
    <3>1. /\ Settle(a, q, "TIMEOUT")
          /\ call' = [call EXCEPT ![q] = AfterAwait(call[q], "TIMEOUT")]
      BY <2>3 DEF RequestExpires, Expire
    <3>2. \A t \in Requests \ {q} : call'[t] = call[t] /\ outcome'[t] = outcome[t]
      BY <1>1, <3>1 DEF Settle, CallsInv, TunnelTypeOK
    <3>3. call'[q] = AfterAwait(call[q], "TIMEOUT") /\ outcome'[q] = "TIMEOUT"
      BY <1>1, <3>1 DEF Settle, CallsInv, TunnelTypeOK
    <3> QED
      BY <3>2, <3>3 DEF PendingStep
  <2>4. ASSUME NEW q \in Requests, NEW err \in AgentErrors, AgentAnswers(a, q, err)
        PROVE  PendingStep(r)
    <3>1. Settle(a, q, "ANSWERED") /\ call' = [call EXCEPT ![q] = AfterAwait(@, err)]
      BY <2>4 DEF AgentAnswers, Answer
    <3> QED
      BY <1>1, <3>1, SettleInv DEF PendingStep
  <2> QED
    BY <1>4, <2>1, <2>2, <2>3, <2>4 DEF AgentEvent
<1>5. CASE ChangeProfile \/ UNCHANGED vars
  BY <1>5 DEF ChangeProfile, tunnelVars, vars, PendingStep
<1> QED
  BY <1>3, <1>4, <1>5 DEF Next

\* A pending call whose agent drops is told so.
THEOREM DropsAreReported == Spec => DropIsReported
<1>1. ASSUME SessionInv, [Next]_vars
      PROVE  [\A r \in Requests :
                call[r].reply = "pending" /\ outcome'[r] = "AGENT_OFFLINE"
                  => call'[r].reply = IF call[r].fallback THEN "OK" ELSE "CONNECTION_LOST"]_vars
  <2> SUFFICES ASSUME NEW r \in Requests, call[r].reply = "pending",
                      outcome'[r] = "AGENT_OFFLINE"
               PROVE  call'[r].reply = IF call[r].fallback THEN "OK" ELSE "CONNECTION_LOST"
    OBVIOUS
  <2>1. call[r].op \notin {"none", "create"} /\ outcome[r] = "waiting"
    BY <1>1 DEF SessionInv, CallsInv, PendingIsAwaited, AwaitingIsWaiting
  <2>2. call'[r] = AfterAwait(call[r], "AGENT_OFFLINE")
    BY <1>1, <2>1, NextPendingStep DEF PendingStep
  <2>3. AfterAwait(call[r], "AGENT_OFFLINE") =
          IF call[r].fallback THEN Done("OK") ELSE Done("CONNECTION_LOST")
    BY <2>1 DEF AfterAwait, MapErrorCode
  <2> QED
    BY <2>2, <2>3 DEF Done
<1> QED
  BY <1>1, SessionInvariant, PTL DEF Spec, DropIsReported

\* No change is acknowledged that the agent has not answered.
THEOREM AcknowledgementsAreAnswers == Spec => AcknowledgedByAgent
<1>1. ASSUME SessionInv, [Next]_vars
      PROVE  [\A r \in Requests :
                (call[r].reply = "pending" /\ call'[r].reply = "OK" /\ ~call[r].fallback)
                  => outcome'[r] = "ANSWERED"]_vars
  <2> SUFFICES ASSUME NEW r \in Requests, call[r].reply = "pending", call'[r].reply = "OK",
                      ~call[r].fallback, outcome'[r] # "ANSWERED"
               PROVE  FALSE
    OBVIOUS
  <2>1. call[r].op \notin {"none", "create"}
    BY <1>1 DEF SessionInv, CallsInv, PendingIsAwaited
  <2>2. \/ call'[r] = AfterAwait(call[r], "AGENT_OFFLINE")
        \/ call'[r] = AfterAwait(call[r], "TIMEOUT")
    BY <1>1, NextPendingStep DEF PendingStep
  <2>3. /\ AfterAwait(call[r], "AGENT_OFFLINE") = Done("CONNECTION_LOST")
        /\ AfterAwait(call[r], "TIMEOUT") = Done("FAILURE")
    BY <2>1 DEF AfterAwait, MapErrorCode
  <2> QED
    BY <2>2, <2>3 DEF Done
<1> QED
  BY <1>1, SessionInvariant, PTL DEF Spec, AcknowledgedByAgent

-----------------------------------------------------------------------------
(* Sessions and tunnels.                                                   *)

\* What a client calls moves the tunnels by a request, or leaves them alone.
LEMMA ClientCallUsesTunnels ==
    ASSUME SessionInv, NEW r \in Requests, ClientCall(r)
    PROVE  TunnelNext \/ UNCHANGED tunnelVars
<1>1. ASSUME NEW c, Sendable(c), Forward(r, c) PROVE TunnelNext
  BY <1>1 DEF Forward, Sendable, TunnelNext
<1>2. ASSUME NEW reply, Reply(r, reply) PROVE UNCHANGED tunnelVars
  BY <1>2 DEF Reply
<1>3. HandlesInv
  BY DEF SessionInv
<1>4. CallShape(r)
  BY <1>3, ClientCallShape
<1>5. CASE Moves(r)
  BY <1>1, <1>2, <1>5 DEF Moves
<1>6. CASE Lists(r)
  <2>1. PICK h : /\ HandleMarked(h) /\ handles[h].server # NoServer
                 /\ Forward(r, ListRequest(h))
    BY <1>6 DEF Lists
  <2> QED
    BY <1>1, <1>3, <2>1, ListRequestFields
<1> QED
  BY <1>4, <1>5, <1>6 DEF CallShape

\* A session never does to the registry, the connections and the promises what
\* the tunnels would not do: with TunnelImplementsService of AgentTunnelProofs,
\* sessions and tunnels meet in one specification.
THEOREM SessionUsesTheTunnels == Spec => TunnelSpec
<1>1. Init => TunnelInit
  BY DEF Init
<1>2. SessionInv /\ [Next]_vars => [TunnelNext]_tunnelVars
  <2> SUFFICES ASSUME SessionInv, [Next]_vars PROVE [TunnelNext]_tunnelVars
    OBVIOUS
  <2>1. ASSUME NEW r \in Requests, ClientCall(r) PROVE [TunnelNext]_tunnelVars
    BY <2>1, ClientCallUsesTunnels
  <2>2. ASSUME NEW a \in Agents, AgentEvent(a) PROVE TunnelNext
    BY <2>2 DEF AgentEvent, AgentUp, AgentReplaced, AgentDown, RequestExpires, AgentAnswers,
       TunnelNext
  <2>3. CASE ChangeProfile \/ UNCHANGED vars
    BY <2>3 DEF ChangeProfile, vars, tunnelVars
  <2> QED
    BY <2>1, <2>2, <2>3 DEF Next
<1> QED
  BY <1>1, <1>2, SessionInvariant, PTL DEF Spec, TunnelSpec

-----------------------------------------------------------------------------
(* What rights a handle, and a listing through it, can still count on.      *)

\* Handle h is on the virtual root or has one of the rights that opened it.
HasItsRight(h) ==
    handles[h].server # NoServer
        => \E right \in RightsOf(handles[h].flags) :
              Permitted(handles[h].server, handles[h].path, right)

HandlesHaveTheirRights == \A h \in DOMAIN handles : HasItsRight(h)

\* No step takes a right away; rights may be added.
NothingIsRevoked == [][profile.allowed \subseteq profile'.allowed]_vars

\* Handles keep their rights in a step that revokes none, whatever else it does
\* to the handles.
LEMMA NextHasItsRight ==
    ASSUME SessionInv, [Next]_vars, HandlesHaveTheirRights,
           profile.allowed \subseteq profile'.allowed
    PROVE  HandlesHaveTheirRights'
<1>1. ASSUME \A h \in DOMAIN handles' :
               /\ h \in DOMAIN handles /\ handles'[h].server = handles[h].server
               /\ handles'[h].path = handles[h].path /\ handles'[h].flags = handles[h].flags
      PROVE  HandlesHaveTheirRights'
  BY <1>1 DEF HandlesHaveTheirRights, HasItsRight, Permitted
<1>2. ASSUME NEW h, HandleMarked(h) PROVE HandlesHaveTheirRights'
  <2>1. /\ DOMAIN handles' = DOMAIN handles
        /\ h \in DOMAIN handles /\ handles[h] \in HandleInfos
        /\ handles'[h] = [handles[h] EXCEPT !.readDone = TRUE]
        /\ \A k \in DOMAIN handles \ {h} : handles'[k] = handles[k]
    BY <1>2 DEF HandleMarked, MarkedRead, SessionInv, HandlesInv
  <2>2. /\ handles'[h].server = handles[h].server /\ handles'[h].path = handles[h].path
        /\ handles'[h].flags = handles[h].flags
    BY <2>1 DEF HandleInfos
  <2> QED
    BY <1>1, <2>1, <2>2
<1>3. CASE HandlesGain
  <2>1. PICK s \in Agents \union {NoServer}, p \in Paths,
             flags \in {"undefined", "plain", "create"} :
           /\ s # NoServer => \E right \in RightsOf(flags) : Permitted(s, p, right)
           /\ Opened(s, p, flags)
    BY <1>3 DEF HandlesGain
  <2>2. s # NoServer => \E right \in RightsOf(flags) : Permitted(s, p, right)'
    BY <2>1 DEF Permitted
  <2>3. \A h \in DOMAIN handles' :
          \/ /\ handles'[h].server = s /\ handles'[h].path = p
             /\ handles'[h].flags = flags
          \/ h \in DOMAIN handles /\ handles'[h] = handles[h]
    BY <2>1 DEF Opened
  <2>4. ASSUME NEW h \in DOMAIN handles' PROVE HasItsRight(h)'
    <3>1. CASE /\ handles'[h].server = s /\ handles'[h].path = p
               /\ handles'[h].flags = flags
      BY <2>2, <3>1 DEF HasItsRight, Permitted
    <3>2. CASE h \in DOMAIN handles /\ handles'[h] = handles[h]
      BY <3>2 DEF HandlesHaveTheirRights, HasItsRight, Permitted
    <3> QED
      BY <2>3, <3>1, <3>2
  <2> QED
    BY <2>4 DEF HandlesHaveTheirRights
<1>4. ASSUME NEW r \in Requests, ClientCall(r) PROVE HandlesHaveTheirRights'
  <2>1. CallShape(r)
    BY <1>4, ClientCallShape DEF SessionInv
  <2>2. CASE HandlesKept \/ NumberLost
    BY <1>1, <2>2 DEF HandlesKept, NumberLost
  <2>3. CASE HandlesLose
    BY <1>1, <2>3 DEF HandlesLose, WithoutHandle, Restrict
  <2> QED
    BY <1>2, <1>3, <2>1, <2>2, <2>3 DEF CallShape, HandlesMove, Lists
<1>5. ASSUME NEW a \in Agents, AgentEvent(a) PROVE HandlesHaveTheirRights'
  <2>1. CASE UNCHANGED handles
    BY <1>1, <2>1
  <2>2. CASE AgentDown(a)
    BY <1>1, <2>2 DEF AgentDown, WithoutServer, Restrict
  <2> QED
    BY <1>5, <2>1, <2>2 DEF AgentEvent, AgentUp, AgentReplaced, RequestExpires, AgentAnswers,
       sessionVars
<1>6. CASE ChangeProfile \/ UNCHANGED vars
  BY <1>1, <1>6 DEF ChangeProfile, vars
<1> QED
  BY <1>4, <1>5, <1>6 DEF Next

\* Only a revocation can leave a session with a handle it could not open any
\* more; READ and WRITE drop such a handle, READDIR does not look.
THEOREM HandlesLoseRightsByRevocation ==
    Spec => [][profile.allowed \subseteq profile'.allowed /\ HandlesHaveTheirRights
                  => HandlesHaveTheirRights']_vars
<1>1. ASSUME SessionInv, [Next]_vars
      PROVE  [profile.allowed \subseteq profile'.allowed /\ HandlesHaveTheirRights
                 => HandlesHaveTheirRights']_vars
  BY <1>1, NextHasItsRight
<1> QED
  BY <1>1, SessionInvariant, PTL DEF Spec

\* ListingPermitted fails by a revocation between OPENDIR and READDIR, and only
\* by one: as long as rights are only added, whoever lists a directory through
\* the handle OPENDIR gave out may read that directory at that moment.
THEOREM ListingsArePermittedUnlessRevoked ==
    Spec /\ NothingIsRevoked => ListingPermitted
<1>1. Init => HandlesHaveTheirRights
  BY DEF Init, HandlesHaveTheirRights
<1>2. ASSUME SessionInv, [Next]_vars, HandlesHaveTheirRights,
             [profile.allowed \subseteq profile'.allowed]_vars
      PROVE  HandlesHaveTheirRights'
  <2>1. profile.allowed \subseteq profile'.allowed
    BY <1>2 DEF vars
  <2> QED
    BY <1>2, <2>1, NextHasItsRight
<1>3. ASSUME SessionInv, HandlesHaveTheirRights, [Next]_vars
      PROVE  [\A r \in Requests : ListsDirectory(r) => ForwardPermitted(r)]_vars
  <2>1. ASSUME NEW r \in Requests, ListsDirectory(r)
        PROVE  ForwardPermitted(r)
    <3>0. Sends(r) /\ call'[r].op = "list"
      BY <2>1 DEF ListsDirectory
    <3>1. CallShape(r) /\ HandlesInv /\ CallsInv
      BY <1>3, <3>0, OnlyClientsSend, ClientCallShape DEF SessionInv
    <3>2. ~Moves(r)
      <4>1. ASSUME NEW reply \in Replies \ {"pending"}, Reply(r, reply) PROVE FALSE
        BY <3>0, <3>1, <4>1, ReplyInv DEF CallShape
      <4>2. ASSUME NEW c \in Calls, Sendable(c), c.op # "list", Forward(r, c) PROVE FALSE
        BY <3>0, <3>1, <4>2, ForwardInv DEF CallShape
      <4> QED
        BY <4>1, <4>2 DEF Moves
    <3>3. PICK h : /\ HandleMarked(h) /\ handles[h].server # NoServer
                   /\ Forward(r, ListRequest(h))
      BY <3>1, <3>2 DEF CallShape, Lists
    <3>4. call'[r] = ListRequest(h)
      BY <3>0, <3>1, <3>3, ListRequestFields, ForwardInv DEF CallShape
    <3>5. /\ ListRequest(h).handle = h /\ ListRequest(h).server = handles[h].server
          /\ ListRequest(h).paths = {handles[h].path}
          /\ ListRequest(h).op = "list"
      BY DEF ListRequest, Request
    <3>6. handles[h].flags = "undefined"
      BY <2>1, <3>4, <3>5 DEF ListsDirectory
    <3>7. Permitted(handles[h].server, handles[h].path, "READ")
      BY <1>3, <3>3, <3>6 DEF HandlesHaveTheirRights, HasItsRight, HandleMarked, RightsOf
    <3> QED
      BY <3>4, <3>5, <3>7 DEF ForwardPermitted, Permitted, RightFor
  <2> QED
    BY <2>1
<1> QED
  BY <1>1, <1>2, <1>3, SessionInvariant, PTL DEF Spec, NothingIsRevoked, ListingPermitted
=============================================================================
