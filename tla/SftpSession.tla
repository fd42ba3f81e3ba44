----------------------------- MODULE SftpSession -----------------------------
(***************************************************************************)
(* One SFTP session of the gateway, SftpSessionHandler, over the agent     *)
(* tunnels as TunnelService specifies them.                                *)
(*                                                                         *)
(* A handler runs without interruption up to its `await`.  There it has    *)
(* sent a request to an agent, and what follows the await runs in the turn *)
(* that resolves the promise: with the agent's response, at the timeout,   *)
(* or when the connection is closed.  In between other calls of the client *)
(* are handled, the CLI changes permissions, and agents come and go.       *)
(***************************************************************************)
EXTENDS TunnelService, Integers, FiniteSets, Functions

CONSTANTS
    Paths, RootPath,  \* paths inside a server, and "/"
    Profiles,         \* what the permission manager can say of the user
    MaxHandles,       \* MAX_HANDLES_PER_SESSION
    MaxCounter,       \* bound on handleCounter
    NoServer          \* info.serverId of a handle on the virtual root

ASSUME NoServerAssumption == NoServer \notin Agents

ASSUME PathsAssumption == RootPath \in Paths

ASSUME BoundsAssumption == MaxHandles \in Nat /\ MaxCounter \in Nat

\* A right on a path comes from a rule, and a rule makes the server authorized.
ASSUME ProfilesAssumption ==
    \A pr \in Profiles :
        /\ pr.authorized \subseteq Agents
        /\ pr.allowed \subseteq pr.authorized \X Paths \X {"READ", "WRITE", "DELETE"}

VARIABLES
    profile,        \* isServerAuthorized and checkPermission, for this user
    handles,        \* the open handles, by number
    handleCounter,  \* the last handle number given out
    call            \* per slot, the client's call that occupies it

sessionVars == <<profile, handles, handleCounter, call>>
vars == <<online, waiting, outcome, profile, handles, handleCounter, call>>

-----------------------------------------------------------------------------
(* A slot is a request id of the client together with the tunnel request   *)
(* that its handler sends.  `reply` is "pending" while the handler awaits. *)

Handles == 1 .. MaxCounter

Ops == {"none", "list", "stat", "read", "write", "mkdir", "rmdir", "delete",
        "rename", "create"}

Replies == {"none", "pending", "OK", "EOF", "NO_SUCH_FILE", "FAILURE",
            "PERMISSION_DENIED", "CONNECTION_LOST"}

Calls == [op : Ops, server : Agents \union {NoServer}, paths : SUBSET Paths,
          handle : Handles \union {0}, fallback : BOOLEAN, reply : Replies]

HandleInfos == [server : Agents \union {NoServer}, path : Paths,
                flags : {"undefined", "plain", "create"}, readDone : BOOLEAN]

Done(reply) == [op |-> "none", server |-> NoServer, paths |-> {}, handle |-> 0,
                fallback |-> FALSE, reply |-> reply]

Request(op, s, paths) ==
    [op |-> op, server |-> s, paths |-> paths, handle |-> 0,
     fallback |-> FALSE, reply |-> "pending"]

Free(r) == call[r].op = "none"

Permitted(s, p, right) == <<s, p, right>> \in profile.allowed

Init ==
    /\ TunnelInit
    /\ profile \in Profiles
    /\ handles = << >>
    /\ handleCounter = 0
    /\ call = [r \in Requests |-> Done("none")]

-----------------------------------------------------------------------------
(* Replies.                                                                *)

\* Seeded bug: AGENT_OFFLINE is not among the cases.
MapErrorCodeNoOffline(err) ==
    CASE err = "NOT_FOUND"     -> "NO_SUCH_FILE"
      [] err = "FORBIDDEN"     -> "PERMISSION_DENIED"
      [] OTHER                 -> "FAILURE"

\* The SFTP status for an error of the agent or of the tunnel.
MapErrorCode(err) ==
    CASE err = "NOT_FOUND"     -> "NO_SUCH_FILE"
      [] err = "FORBIDDEN"     -> "PERMISSION_DENIED"
      [] err = "AGENT_OFFLINE" -> "CONNECTION_LOST"
      [] OTHER                 -> "FAILURE"

\* Seeded bug: any call that fails is answered as if it had succeeded when
\* the session may guess what the agent would have done.
AfterAwaitGuessing(c, err) ==
    IF c.op = "create" THEN Done(c.reply)
    ELSE IF c.op = "read" /\ err = "EMPTY" THEN Done("EOF")
    ELSE IF err = "NOT_FOUND" THEN Done("NO_SUCH_FILE")
    ELSE Done("OK")

\* What the code after the await does with the result of call c, where "NONE"
\* is a success and "EMPTY" a successful read of nothing.
AfterAwait(c, err) ==
    IF c.op = "create" THEN Done(c.reply)
    ELSE IF c.op = "read" /\ err = "EMPTY" THEN Done("EOF")
    ELSE IF err \in {"NONE", "EMPTY"} \/ c.fallback THEN Done("OK")
    ELSE Done(MapErrorCode(err))

\* The handler replies without a request to an agent.
Reply(r, reply) ==
    /\ call' = [call EXCEPT ![r] = Done(reply)]
    /\ UNCHANGED tunnelVars

\* The handler sends request c to its server, which is registered: it waits,
\* or the promise is settled at once because the socket is closing.
Forward(r, c) ==
    \/ /\ Ask(c.server, r)
       /\ call' = [call EXCEPT ![r] = c]
    \/ /\ Refuse(c.server, r)
       /\ call' = [call EXCEPT ![r] = AfterAwait(c, "AGENT_OFFLINE")]

\* getAgent, and a reply of its own when the agent is not registered.
ForwardOr(r, c, offlineReply) ==
    \/ c.server \notin online /\ Reply(r, offlineReply)
    \/ c.server \in online /\ Forward(r, c)

-----------------------------------------------------------------------------
(* Handles.                                                                *)

\* Seeded bug: the limit is off by one.
RoomForOneMore == Cardinality(DOMAIN handles) <= MaxHandles

RoomForHandle == Cardinality(DOMAIN handles) < MaxHandles

\* Seeded bug: the counter is read before it is incremented.
OldHandle == handleCounter

NewHandle == handleCounter + 1

\* Seeded bug: a listing is marked as read after the await.
NotYetMarked(h) == handles

MarkedRead(h) == [handles EXCEPT ![h].readDone = TRUE]

\* Seeded bug: the session does not hear of agents that are unregistered.
AllKept(a) == handles

\* The handles left after 'agent_unregistered'.
WithoutServer(a) ==
    Restrict(handles, {h \in DOMAIN handles : handles[h].server # a})

WithoutHandle(h) == Restrict(handles, DOMAIN handles \ {h})

OnServer(h) == h \in DOMAIN handles /\ handles[h].server # NoServer

NumberTaken == handleCounter < MaxCounter /\ handleCounter' = handleCounter + 1

Opened(s, p, flags) ==
    handles' = [h \in DOMAIN handles \union {NewHandle} |->
                   IF h = NewHandle
                   THEN [server |-> s, path |-> p, flags |-> flags,
                         readDone |-> FALSE]
                   ELSE handles[h]]

-----------------------------------------------------------------------------
(* Calls that touch no agent.                                              *)

\* REALPATH, SETSTAT, FSETSTAT, and STAT of the virtual root.
AnswerLocally(r) ==
    /\ Free(r)
    /\ Reply(r, "OK")
    /\ UNCHANGED <<profile, handles, handleCounter>>

\* OPEN of the virtual root.
OpenRoot(r) ==
    /\ Free(r)
    /\ Reply(r, IF RoomForHandle THEN "PERMISSION_DENIED" ELSE "FAILURE")
    /\ UNCHANGED <<profile, handles, handleCounter>>

\* The path operations on the virtual root, RENAME across servers.
RefuseRootPath(r) ==
    /\ Free(r)
    /\ Reply(r, "PERMISSION_DENIED")
    /\ UNCHANGED <<profile, handles, handleCounter>>

\* WRITE of more than MAX_WRITE_CHUNK_SIZE.
RefuseLargeWrite(r) ==
    /\ Free(r)
    /\ Reply(r, "FAILURE")
    /\ UNCHANGED <<profile, handles, handleCounter>>

\* CLOSE, of an open handle or not.
CloseHandle(r, h) ==
    /\ Free(r)
    /\ handles' = WithoutHandle(h)
    /\ Reply(r, "OK")
    /\ UNCHANGED <<profile, handleCounter>>

-----------------------------------------------------------------------------
(* Attributes.                                                             *)

\* handleStat of a path on a server: any authorized user may stat any path.
HandleStat(r, s, p, fallback) ==
    \/ /\ s \notin profile.authorized
       /\ Reply(r, "PERMISSION_DENIED")
    \/ /\ s \in profile.authorized /\ p = RootPath
       /\ Reply(r, "OK")
    \/ /\ s \in profile.authorized /\ p # RootPath
       /\ ForwardOr(r, [Request("stat", s, {p}) EXCEPT !.fallback = fallback],
                    IF fallback THEN "OK" ELSE "NO_SUCH_FILE")

\* STAT and LSTAT
Stat(r, s, p) ==
    /\ Free(r)
    /\ HandleStat(r, s, p, FALSE)
    /\ UNCHANGED <<profile, handles, handleCounter>>

\* FSTAT
Fstat(r, h) ==
    /\ Free(r)
    /\ \/ /\ h \notin DOMAIN handles
          /\ Reply(r, "FAILURE")
       \/ /\ h \in DOMAIN handles /\ handles[h].server = NoServer
          /\ Reply(r, "OK")
       \/ /\ OnServer(h)
          /\ HandleStat(r, handles[h].server, handles[h].path,
                        handles[h].flags = "create")
    /\ UNCHANGED <<profile, handles, handleCounter>>

-----------------------------------------------------------------------------
(* Directories.                                                            *)

MayOpendir(s, p) ==
    s = NoServer \/ (s \in profile.authorized /\ Permitted(s, p, "READ"))

\* OPENDIR of the virtual root or of a directory of a server, which need not
\* be online.  A call that is denied has used up a handle number.
Opendir(r, s, p) ==
    /\ Free(r)
    /\ \/ /\ ~RoomForHandle
          /\ Reply(r, "FAILURE")
          /\ UNCHANGED <<handles, handleCounter>>
       \/ /\ RoomForHandle
          /\ MayOpendir(s, p)
          /\ NumberTaken
          /\ Opened(s, p, "undefined")
          /\ Reply(r, "OK")
       \/ /\ RoomForHandle
          /\ ~MayOpendir(s, p)
          /\ NumberTaken
          /\ Reply(r, "PERMISSION_DENIED")
          /\ UNCHANGED handles
    /\ UNCHANGED profile

\* READDIR: one listing per handle, which is used up before it is known.
Readdir(r, h) ==
    /\ Free(r)
    /\ \/ /\ h \notin DOMAIN handles
          /\ Reply(r, "FAILURE")
          /\ UNCHANGED handles
       \/ /\ h \in DOMAIN handles /\ handles[h].readDone
          /\ Reply(r, "EOF")
          /\ UNCHANGED handles
       \/ /\ h \in DOMAIN handles /\ ~handles[h].readDone
          /\ handles' = MarkedRead(h)
          /\ \/ /\ handles[h].server = NoServer
                /\ Reply(r, "OK")
             \/ /\ handles[h].server # NoServer
                /\ ForwardOr(r,
                     [Request("list", handles[h].server, {handles[h].path})
                        EXCEPT !.handle = h], "CONNECTION_LOST")
    /\ UNCHANGED <<profile, handleCounter>>

-----------------------------------------------------------------------------
(* Files.                                                                  *)

\* OPEN for reading, for writing, or with CREAT or TRUNC.  The last sends an
\* empty write to the agent and does not wait for it.
Open(r, s, p, mode) ==
    LET right == IF mode = "read" THEN "READ" ELSE "WRITE" IN
    /\ Free(r)
    /\ \/ /\ ~RoomForHandle
          /\ Reply(r, "FAILURE")
          /\ UNCHANGED <<handles, handleCounter>>
       \/ /\ RoomForHandle /\ ~Permitted(s, p, right)
          /\ Reply(r, "PERMISSION_DENIED")
          /\ UNCHANGED <<handles, handleCounter>>
       \/ /\ RoomForHandle /\ Permitted(s, p, right) /\ s \notin online
          /\ Reply(r, "CONNECTION_LOST")
          /\ UNCHANGED <<handles, handleCounter>>
       \/ /\ RoomForHandle /\ Permitted(s, p, right) /\ s \in online
          /\ NumberTaken
          /\ \/ /\ mode = "create"
                /\ Opened(s, p, "create")
                /\ Forward(r, [Request("create", s, {p}) EXCEPT !.reply = "OK"])
             \/ /\ mode # "create"
                /\ Opened(s, p, "plain")
                /\ Reply(r, "OK")
    /\ UNCHANGED profile

\* Seeded bug: the right is verified when a file is opened and not again.
NotReverified(h, right) == TRUE

\* READ and WRITE verify the right on the handle's path every time.
StillPermitted(h, right) == Permitted(handles[h].server, handles[h].path, right)

\* READ and WRITE.  A handle whose right is gone is dropped.
FileCall(r, h, op, right) ==
    /\ Free(r)
    /\ \/ /\ ~OnServer(h)
          /\ Reply(r, "FAILURE")
          /\ UNCHANGED handles
       \/ /\ OnServer(h)
          /\ ~StillPermitted(h, right)
          /\ handles' = WithoutHandle(h)
          /\ Reply(r, "PERMISSION_DENIED")
       \/ /\ OnServer(h)
          /\ StillPermitted(h, right)
          /\ ForwardOr(r, Request(op, handles[h].server, {handles[h].path}),
                       "CONNECTION_LOST")
          /\ UNCHANGED handles
    /\ UNCHANGED <<profile, handleCounter>>

Read(r, h)  == FileCall(r, h, "read", "READ")
Write(r, h) == FileCall(r, h, "write", "WRITE")

-----------------------------------------------------------------------------
(* Operations on paths: the right is needed on every path concerned.       *)

PathCall(r, op, s, paths, right) ==
    /\ Free(r)
    /\ \/ /\ \E p \in paths : ~Permitted(s, p, right)
          /\ Reply(r, "PERMISSION_DENIED")
       \/ /\ \A p \in paths : Permitted(s, p, right)
          /\ ForwardOr(r, Request(op, s, paths), "CONNECTION_LOST")
    /\ UNCHANGED <<profile, handles, handleCounter>>

Mkdir(r, s, p)     == PathCall(r, "mkdir", s, {p}, "WRITE")
Rmdir(r, s, p)     == PathCall(r, "rmdir", s, {p}, "DELETE")
Remove(r, s, p)    == PathCall(r, "delete", s, {p}, "DELETE")
Rename(r, s, p, q) == PathCall(r, "rename", s, {p, q}, "WRITE")

-----------------------------------------------------------------------------
(* What happens around the session.                                        *)

\* Seeded bug: handlers whose connection is closed are not resumed.
NotResumed(a) == call

\* The handlers that await agent a go on with AGENT_OFFLINE.
ResumedOffline(a) ==
    [r \in Requests |-> IF r \in waiting[a]
                        THEN AfterAwait(call[r], "AGENT_OFFLINE") ELSE call[r]]

AgentUp(a) ==
    /\ Up(a)
    /\ UNCHANGED sessionVars

AgentReplaced(a) ==
    /\ Replaced(a)
    /\ call' = ResumedOffline(a)
    /\ UNCHANGED <<profile, handles, handleCounter>>

AgentDown(a) ==
    /\ Down(a)
    /\ handles' = WithoutServer(a)
    /\ call' = ResumedOffline(a)
    /\ UNCHANGED <<profile, handleCounter>>

\* The agent's response, a success or an error, resumes the handler.
AgentAnswers(a, r, err) ==
    /\ Answer(a, r)
    /\ call' = [call EXCEPT ![r] = AfterAwait(@, err)]
    /\ UNCHANGED <<profile, handles, handleCounter>>

RequestExpires(a, r) ==
    /\ Expire(a, r)
    /\ call' = [call EXCEPT ![r] = AfterAwait(@, "TIMEOUT")]
    /\ UNCHANGED <<profile, handles, handleCounter>>

\* A CLI command changes what the user may do.
ChangeProfile ==
    /\ profile' \in Profiles \ {profile}
    /\ UNCHANGED <<tunnelVars, handles, handleCounter, call>>

-----------------------------------------------------------------------------

ClientCall(r) ==
    \/ AnswerLocally(r)
    \/ OpenRoot(r)
    \/ RefuseRootPath(r)
    \/ RefuseLargeWrite(r)
    \/ Opendir(r, NoServer, RootPath)
    \/ \E h \in Handles :
          \/ CloseHandle(r, h)
          \/ Fstat(r, h)
          \/ Readdir(r, h)
          \/ Read(r, h)
          \/ Write(r, h)
    \/ \E s \in Agents, p \in Paths :
          \/ Stat(r, s, p)
          \/ Opendir(r, s, p)
          \/ \E mode \in {"read", "write", "create"} : Open(r, s, p, mode)
          \/ Mkdir(r, s, p)
          \/ Rmdir(r, s, p)
          \/ Remove(r, s, p)
          \/ \E q \in Paths : Rename(r, s, p, q)

AgentErrors == {"NONE", "EMPTY", "NOT_FOUND", "FORBIDDEN", "IO_ERROR"}

AgentEvent(a) ==
    \/ AgentUp(a)
    \/ AgentReplaced(a)
    \/ AgentDown(a)
    \/ \E r \in Requests :
          \/ RequestExpires(a, r)
          \/ \E err \in AgentErrors : AgentAnswers(a, r, err)

Next ==
    \/ \E r \in Requests : ClientCall(r)
    \/ \E a \in Agents : AgentEvent(a)
    \/ ChangeProfile

Spec == Init /\ [][Next]_vars

\* AgentTunnel settles every promise: at the latest its timer fires.
Fairness == \A a \in Agents, r \in Requests : WF_vars(RequestExpires(a, r))

FairSpec == Spec /\ Fairness

-----------------------------------------------------------------------------
(* Safety.                                                                 *)

\* Handles are numbered by the counter, every slot holds a call or a reply.
TypeOK ==
    /\ TunnelTypeOK
    /\ profile \in Profiles
    /\ handleCounter \in 0 .. MaxCounter
    /\ DOMAIN handles \subseteq 1 .. handleCounter
    /\ \A h \in DOMAIN handles : handles[h] \in HandleInfos
    /\ call \in [Requests -> Calls]

\* A session never has more handles than it may, however opens, closes,
\* denials and agents going offline follow each other.
HandleQuota == Cardinality(DOMAIN handles) <= MaxHandles

\* A handle that OPEN gave out is on a server that is online: it does not
\* survive the agent's going offline, so it is never used on the agent that
\* comes back.
FileHandlesAreOnline ==
    \A h \in DOMAIN handles :
        handles[h].flags # "undefined" => handles[h].server \in online

\* A handler awaits exactly the promises that the tunnels hold for it: none
\* is left behind by an agent that went offline, was replaced or answered, and
\* none is resumed while its promise is outstanding.
AwaitingIsWaiting ==
    \A r \in Requests :
        /\ call[r].op # "none" <=> outcome[r] = "waiting"
        /\ call[r].op # "none" => /\ call[r].server \in online
                                  /\ r \in waiting[call[r].server]

\* Two READDIRs on one handle never both list the directory, even when the
\* second arrives while the first awaits the agent.
OneListingPerHandle ==
    \A r, t \in Requests :
        call[r].op = "list" /\ call[t].op = "list" /\ r # t
            => call[r].handle # call[t].handle

\* The right a forwarded operation needs on each of its paths.
RightFor(op) ==
    CASE op \in {"list", "read"}                         -> "READ"
      [] op \in {"write", "create", "mkdir", "rename"}   -> "WRITE"
      [] op \in {"rmdir", "delete"}                      -> "DELETE"

\* A step sends r's request to an agent.
Sends(r) == call[r].op = "none" /\ call'[r].op # "none"

ForwardPermitted(r) ==
    \A p \in call'[r].paths :
        <<call'[r].server, p, RightFor(call'[r].op)>> \in profile.allowed

\* No file is read and nothing is changed on a server unless the user has the
\* right at that moment, through a handle opened before a revocation or not.
FileAccessPermitted ==
    [][\A r \in Requests :
          Sends(r) /\ call'[r].op \notin {"stat", "list"}
              => ForwardPermitted(r)]_vars

\* The request that r sends lists through a handle that OPENDIR gave out.
ListsDirectory(r) ==
    Sends(r) /\ call'[r].op = "list" /\ handles[call'[r].handle].flags = "undefined"

\* README.md: the gateway checks the user's rights when it forwards a request.
\* Of a listing through a directory handle, the right that OPENDIR asks for.
ListingPermitted ==
    [][\A r \in Requests : ListsDirectory(r) => ForwardPermitted(r)]_vars

\* An agent that goes offline or is replaced is reported to every call that
\* awaits it in the same step: CONNECTION_LOST, or attributes for FSTAT of a
\* file the session has just created.
DropIsReported ==
    [][\A r \in Requests :
          call[r].reply = "pending" /\ outcome'[r] = "AGENT_OFFLINE"
              => call'[r].reply = IF call[r].fallback THEN "OK"
                                  ELSE "CONNECTION_LOST"]_vars

\* A change is acknowledged only when the agent has answered: a timeout or a
\* lost connection is never taken for success.
AcknowledgedByAgent ==
    [][\A r \in Requests :
          (call[r].reply = "pending" /\ call'[r].reply = "OK" /\ ~call[r].fallback)
              => outcome'[r] = "ANSWERED"]_vars

-----------------------------------------------------------------------------
(* Liveness.                                                               *)

\* Every call of the client gets its reply.
EveryCallAnswered ==
    \A r \in Requests : call[r].reply = "pending" ~> call[r].reply # "pending"
=============================================================================
