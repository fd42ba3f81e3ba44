------------------------------ MODULE FrontDoor ------------------------------
(***************************************************************************)
(* The single port of the gateway, in front of the SSH server, and what    *)
(* the SSH server writes to the audit log.                                 *)
(*                                                                         *)
(* The demultiplexer waits for the first bytes of a client or 40 ms and    *)
(* hands the socket to the agent tunnel or to the SSH server.  The client  *)
(* sends numbered chunks.  The composition with AuditLog is by its         *)
(* actions: a login, an operation and a disconnect are each a Log, and     *)
(* whatever ends the process is an Exit.                                   *)
(***************************************************************************)
EXTENDS AuditLog

CONSTANTS
  Sockets,     \* slots for client connections
  MaxChunks    \* bound on what one client sends

ASSUME DoorAssumption == MaxChunks \in Nat

VARIABLES
  conn,      \* per slot, the client connection in it, or Free
  author     \* history: per audit entry, the LOGIN entry it belongs to

vars == <<auditVars, conn, author>>

Stages == {"free", "sniffing", "ended", "dialing", "piped"}

\* timer: the 40 ms timer is armed.  target: the server behind, once chosen.
\* dials: how often forwardTo ran.  sent: the chunks that arrived.  got: those
\* handed on.  login: the LOGIN entry of the SSH connection, 0 before it.
Connection(kind, stage, timer) ==
  [kind |-> kind, stage |-> stage, timer |-> timer, target |-> "none", dials |-> 0,
   sent |-> 0, got |-> <<>>, login |-> 0]
Free == Connection("none", "free", FALSE)

TypeOK ==
  /\ AuditTypeOK
  /\ conn \in [Sockets -> [kind : {"none", "ssh", "http"}, stage : Stages, timer : BOOLEAN,
                           target : {"none", "sftp", "agent"}, dials : 0..2,
                           sent : 0..MaxChunks, got : BoundedSeq(1..MaxChunks, MaxChunks),
                           login : 0..Len(fate)]]
  /\ author \in Seq(DOMAIN fate) /\ Len(author) = Len(fate)

DoorInit == conn = [s \in Sockets |-> Free] /\ author = <<>>
Init == AuditInit /\ DoorInit

-----------------------------------------------------------------------------
Accept(s) ==
  /\ up /\ conn[s] = Free
  /\ \E kind \in {"ssh", "http"} :
       conn' = [conn EXCEPT ![s] = Connection(kind, "sniffing", TRUE)]
  /\ UNCHANGED <<auditVars, author>>

\* forwardTo dials the server behind.
ForwardTo(c, server) ==
  [c EXCEPT !.target = server, !.dials = @ + 1, !.stage = "dialing"]

\* Seeded bug: the timer goes on after the first bytes.
TimerKept(c) == c
TimerCleared(c) == [c EXCEPT !.timer = FALSE]

\* Seeded bug: the bytes that were looked at are not handed on.
InitialDropped(c, chunk) == c
WithInitialChunk(c, chunk) == [c EXCEPT !.got = <<chunk>>]

\* The 'data' event.  The first bytes choose the server behind; what arrives
\* before the connection to it is there has no listener and is lost.
Received(c, chunk) ==
  CASE c.stage = "sniffing" ->
         ForwardTo(WithInitialChunk(TimerCleared(c), chunk),
                   IF c.kind = "http" THEN "agent" ELSE "sftp")
    [] c.stage = "dialing" -> c
    [] c.stage = "piped"   -> [c EXCEPT !.got = Append(@, chunk)]

Receive(s) ==
  LET c == conn[s] IN
  /\ up /\ c.stage \in {"sniffing", "dialing", "piped"} /\ c.sent < MaxChunks
  /\ conn' = [conn EXCEPT ![s] = [Received(c, c.sent + 1) EXCEPT !.sent = @ + 1]]
  /\ UNCHANGED <<auditVars, author>>

\* 40 ms without data.  For a client that has gone meanwhile the connection
\* to the SSH server is opened and ended at once.
TimerFires(s) ==
  /\ up /\ conn[s].timer
  /\ conn' = [conn EXCEPT ![s] = IF @.stage = "ended" THEN Free
                                ELSE ForwardTo(TimerCleared(@), "sftp")]
  /\ UNCHANGED <<auditVars, author>>

\* The connection to the server behind is there.
Connected(s) ==
  /\ up /\ conn[s].stage = "dialing"
  /\ conn' = [conn EXCEPT ![s].stage = "piped"]
  /\ UNCHANGED <<auditVars, author>>

\* The client goes before it has sent anything; the timer stays armed.
LeaveEarly(s) ==
  /\ up /\ conn[s].stage = "sniffing"
  /\ conn' = [conn EXCEPT ![s].stage = "ended"]
  /\ UNCHANGED <<auditVars, author>>

-----------------------------------------------------------------------------
\* The SSH server behind understands a client none of whose bytes are missing.
Speaks(c) ==
  /\ c.stage = "piped" /\ c.target = "sftp" /\ c.kind = "ssh"
  /\ c.sent > 0 /\ c.got = [i \in 1..c.sent |-> i]

\* 'authentication' with the right password.
Authenticate(s) ==
  /\ Speaks(conn[s]) /\ conn[s].login = 0
  /\ Log
  /\ conn' = [conn EXCEPT ![s].login = Len(fate) + 1]
  /\ author' = Append(author, Len(fate) + 1)

\* Seeded bug: a channel is served before anybody has authenticated.
ServesAnyone(c) == Speaks(c)
\* A channel is served for the authenticated user only.
Serves(c) == Speaks(c) /\ c.login # 0

\* A session handler of the connection logs what it does.
Operate(s) ==
  /\ Serves(conn[s])
  /\ Log
  /\ author' = Append(author, conn[s].login)
  /\ UNCHANGED conn

\* 'end' of an authenticated SSH connection.
Disconnect(s) ==
  /\ conn[s].stage = "piped" /\ conn[s].login # 0
  /\ Log
  /\ author' = Append(author, conn[s].login)
  /\ conn' = [conn EXCEPT ![s] = Free]

\* The connection ends without an entry: the dial failed, nobody had
\* authenticated, or ssh2 reports an error, which has no 'end'.
Break(s) ==
  /\ up /\ conn[s].stage \in {"dialing", "piped"}
  /\ conn' = [conn EXCEPT ![s] = Free]
  /\ UNCHANGED <<auditVars, author>>

\* The process ends: by a signal, by a crash, or by a reset of a socket that
\* is not forwarded yet, whose 'error' event has no listener.
ProcessEnds ==
  /\ Exit
  /\ conn' = [s \in Sockets |-> Free]
  /\ UNCHANGED author

Next ==
  \/ \E s \in Sockets :
       \/ Accept(s) \/ Receive(s) \/ TimerFires(s) \/ Connected(s) \/ LeaveEarly(s)
       \/ Authenticate(s) \/ Operate(s) \/ Disconnect(s) \/ Break(s)
  \/ ProcessEnds
  \/ (AuditBackground \/ Start) /\ UNCHANGED <<conn, author>>

Spec == Init /\ [][Next]_vars
FairSpec == Spec /\ AuditFairness

-----------------------------------------------------------------------------
\* A client is forwarded once, whether its first bytes or the timer came
\* first, and never after it was served: forwardTo runs once per socket.
ForwardedOnce == \A s \in Sockets : conn[s].dials <= 1

\* The agent tunnel sees a client from its first byte; what any server behind
\* sees is in the order it was sent, although bytes that arrive while the
\* demultiplexer dials are lost.
ForwardedInOrder ==
  \A s \in Sockets :
    /\ Ascends(conn[s].got)
    /\ conn[s].target = "agent" =>
         conn[s].kind = "http" /\ conn[s].got # <<>> /\ conn[s].got[1] = 1

\* Whatever the audit log on disk says an SSH connection did, its LOGIN was
\* logged before, and after any exit it is on disk as well unless its own
\* append failed or its archive has been cleaned or overwritten.
OperationsAreAttributed ==
  \A e \in OnDisk :
    LET d == author[e] IN
    /\ d \in 1..e
    /\ d \in OnDisk \/ fate[d] \in {"failed", "cleaned", "overwritten"}
=============================================================================
