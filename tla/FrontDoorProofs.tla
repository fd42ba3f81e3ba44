-------------------------- MODULE FrontDoorProofs --------------------------
(***************************************************************************)
(* Proofs about FrontDoor for any number of clients and chunks: a client   *)
(* is forwarded once and what it sends stays in order, the composition     *)
(* keeps what AuditLog promises, and what is on disk can be attributed to  *)
(* the login it belongs to.                                                *)
(***************************************************************************)
EXTENDS FrontDoor, AuditLogProofs

USE DoorAssumption

-----------------------------------------------------------------------------
(* The demultiplexer.                                                      *)

Connections == [kind : {"none", "ssh", "http"}, stage : Stages, timer : BOOLEAN,
                target : {"none", "sftp", "agent"}, dials : Nat, sent : 0..MaxChunks,
                got : Seq(Nat), login : Nat]

\* What is handed on are chunks that arrived, in their order.
Handed(got, sent) ==
  /\ Len(got) <= sent
  /\ \A i \in DOMAIN got : got[i] \in 1..sent
  /\ Ascends(got)

\* A client is dialled for when it leaves the first stages, which it never
\* enters again, and the timer is armed in those only.
Sound(c) ==
  /\ c \in Connections
  /\ c.stage \in {"free", "sniffing", "ended"} => c.dials = 0 /\ c.login = 0
  /\ c.stage \in {"sniffing", "ended"} => c.sent = 0 /\ c.got = <<>> /\ c.target = "none"
  /\ c.stage \in {"dialing", "piped"} => c.dials = 1
  /\ c.timer => c.stage \in {"sniffing", "ended"}
  /\ Handed(c.got, c.sent)
  /\ c.target = "agent" => c.kind = "http" /\ c.got # <<>> /\ c.got[1] = 1

DoorInv == conn \in [Sockets -> Connections] /\ \A s \in Sockets : Sound(conn[s])

\* Nothing has been handed on to begin with.
LEMMA FreshIsSound ==
    ASSUME NEW kind \in {"none", "ssh", "http"}
    PROVE  /\ Sound(Connection(kind, "sniffing", TRUE))
           /\ Sound(Connection("none", "free", FALSE))
<1>1. <<>> \in Seq(Nat) /\ Len(<<>>) = 0 /\ DOMAIN <<>> = {}
  BY EmptySeq
<1>2. Handed(<<>>, 0)
  BY <1>1 DEF Handed, Ascends
<1> QED
  BY <1>1, <1>2 DEF Sound, Connection, Connections, Stages

\* One more chunk may be handed on.
LEMMA OneMoreChunk ==
    ASSUME NEW got \in Seq(Nat), NEW sent \in Nat, Handed(got, sent)
    PROVE  /\ Append(got, sent + 1) \in Seq(Nat)
           /\ Handed(Append(got, sent + 1), sent + 1)
           /\ got # <<>> => Append(got, sent + 1)[1] = got[1]
           /\ Append(got, sent + 1) # <<>>
           /\ Handed(got, sent + 1)
<1> DEFINE more == Append(got, sent + 1)
<1>1. Len(got) \in Nat /\ DOMAIN got = 1..Len(got)
  BY LenProperties
<1>2. /\ more \in Seq(Nat) /\ Len(more) = Len(got) + 1 /\ more # <<>>
      /\ \A i \in 1..Len(got) : more[i] = got[i]
      /\ more[Len(got) + 1] = sent + 1
  BY AppendProperties
<1>3. DOMAIN more = 1..(Len(got) + 1)
  BY <1>2, LenProperties
<1> HIDE DEF more
<1>4. \A i \in DOMAIN got : got[i] \in 1..sent
  BY DEF Handed
<1>5. Len(got) <= sent
  BY DEF Handed
<1>6. \A i \in DOMAIN more : more[i] \in 1..(sent + 1)
  BY <1>1, <1>2, <1>3, <1>4
<1>7. Ascends(more)
  <2> SUFFICES ASSUME NEW i \in DOMAIN more, NEW l \in DOMAIN more, i < l
               PROVE  more[i] < more[l]
    BY DEF Ascends
  <2>1. i \in 1..Len(got) /\ more[i] = got[i] /\ got[i] \in 1..sent
    BY <1>1, <1>2, <1>3, <1>4
  <2>2. CASE l = Len(got) + 1
    BY <1>2, <2>1, <2>2
  <2>3. CASE l # Len(got) + 1
    <3>1. l \in 1..Len(got) /\ more[l] = got[l]
      BY <1>1, <1>2, <1>3, <2>3
    <3> QED
      BY <1>1, <2>1, <3>1 DEF Handed, Ascends
  <2> QED
    BY <2>2, <2>3
<1>8. Handed(more, sent + 1)
  <2>1. Len(more) <= sent + 1
    BY <1>1, <1>2, <1>5
  <2> QED
    BY <1>6, <1>7, <2>1 DEF Handed
<1>9. Handed(got, sent + 1)
  <2>1. Len(got) <= sent + 1 /\ \A i \in DOMAIN got : got[i] \in 1..(sent + 1)
    BY <1>1, <1>4, <1>5
  <2> QED
    BY <2>1 DEF Handed
<1>10. got # <<>> => more[1] = got[1]
  <2>1. got # <<>> => 1 \in 1..Len(got)
    BY <1>1, EmptySeq
  <2> QED
    BY <1>2, <2>1
<1> QED
  BY <1>2, <1>8, <1>9, <1>10 DEF more

\* What forwardTo changes.
LEMMA ForwardFields ==
    ASSUME NEW c \in Connections, NEW server \in {"sftp", "agent"}
    PROVE  LET d == ForwardTo(c, server)
           IN /\ d \in Connections
              /\ d.target = server /\ d.dials = c.dials + 1 /\ d.stage = "dialing"
              /\ d.timer = c.timer /\ d.got = c.got /\ d.sent = c.sent
              /\ d.kind = c.kind /\ d.login = c.login
<1>1. c.dials + 1 \in Nat
  BY DEF Connections
<1> QED
  BY <1>1 DEF ForwardTo, Connections, Stages

\* What the clearing of the timer and the first chunk change.
LEMMA ClearedFields ==
    ASSUME NEW c \in Connections
    PROVE  /\ TimerCleared(c) \in Connections
           /\ TimerCleared(c).timer = FALSE
           /\ TimerCleared(c).got = c.got /\ TimerCleared(c).sent = c.sent
           /\ TimerCleared(c).kind = c.kind /\ TimerCleared(c).login = c.login
           /\ TimerCleared(c).dials = c.dials
  BY DEF TimerCleared, Connections

\* The first chunk is handed on as it is.
LEMMA InitialFields ==
    ASSUME NEW c \in Connections, NEW chunk \in Nat
    PROVE  LET d == WithInitialChunk(c, chunk)
           IN /\ d \in Connections
              /\ d.got = <<chunk>> /\ d.timer = c.timer /\ d.sent = c.sent
              /\ d.kind = c.kind /\ d.login = c.login /\ d.dials = c.dials
<1>1. <<chunk>> \in Seq(Nat)
  OBVIOUS
<1> QED
  BY <1>1 DEF WithInitialChunk, Connections

\* A chunk that arrives is looked at, lost or handed on.
LEMMA ReceivedIsSound ==
    ASSUME NEW c, Sound(c), c.stage \in {"sniffing", "dialing", "piped"}, c.sent < MaxChunks
    PROVE  Sound([Received(c, c.sent + 1) EXCEPT !.sent = @ + 1])
<1> DEFINE d == [Received(c, c.sent + 1) EXCEPT !.sent = @ + 1]
<1>1. c \in Connections /\ c.got \in Seq(Nat) /\ c.sent \in Nat /\ Handed(c.got, c.sent)
      /\ c.sent + 1 \in 0..MaxChunks
  BY DEF Sound, Connections
<1>2. /\ Append(c.got, c.sent + 1) \in Seq(Nat)
      /\ Handed(Append(c.got, c.sent + 1), c.sent + 1)
      /\ c.got # <<>> => Append(c.got, c.sent + 1)[1] = c.got[1]
      /\ Append(c.got, c.sent + 1) # <<>>
      /\ Handed(c.got, c.sent + 1)
  BY <1>1, OneMoreChunk
<1>3. CASE c.stage = "sniffing"
  <2>1. c.sent = 0 /\ c.got = <<>> /\ c.dials = 0 /\ c.login = 0
    BY <1>3 DEF Sound
  <2>2. Append(c.got, c.sent + 1) = <<1>>
    BY <2>1
  <2>3. <<1>> \in Seq(Nat) /\ Handed(<<1>>, 1) /\ <<1>> # <<>> /\ <<1>>[1] = 1
    BY <1>2, <2>1, <2>2
  <2> DEFINE t == TimerCleared(c)
             w == WithInitialChunk(t, 1)
             server == IF c.kind = "http" THEN "agent" ELSE "sftp"
             f == ForwardTo(w, server)
  <2>4. /\ t \in Connections /\ t.timer = FALSE /\ t.sent = 0 /\ t.kind = c.kind
        /\ t.login = 0 /\ t.dials = 0
    BY <1>1, <2>1, ClearedFields
  <2> HIDE DEF t
  <2>5. /\ w \in Connections /\ w.got = <<1>> /\ w.timer = FALSE /\ w.sent = 0
        /\ w.kind = c.kind /\ w.dials = 0
    BY <2>4, InitialFields
  <2> HIDE DEF w
  <2>6. server \in {"sftp", "agent"}
    OBVIOUS
  <2> HIDE DEF server
  <2>7. /\ f \in Connections /\ f.got = <<1>> /\ f.timer = FALSE /\ f.sent = 0
        /\ f.kind = c.kind /\ f.dials = 1 /\ f.target = server /\ f.stage = "dialing"
    BY <2>5, <2>6, ForwardFields
  <2>8. d = [f EXCEPT !.sent = @ + 1]
    BY <1>3, <2>1 DEF Received, t, w, server
  <2> HIDE DEF d, f
  <2>9. /\ d \in Connections /\ d.timer = FALSE /\ d.got = <<1>> /\ d.dials = 1
        /\ d.stage = "dialing" /\ d.sent = 1 /\ d.kind = c.kind /\ d.target = server
    BY <1>1, <2>1, <2>7, <2>8 DEF Connections
  <2>10. Sound(d)
    BY <2>3, <2>9 DEF Sound, server
  <2> QED
    BY <2>10 DEF d
<1>4. CASE c.stage = "dialing"
  <2>1. d = [c EXCEPT !.sent = c.sent + 1]
    BY <1>1, <1>4 DEF Received, Connections
  <2> HIDE DEF d
  <2>2. /\ d \in Connections /\ d.sent = c.sent + 1
        /\ d.timer = c.timer /\ d.got = c.got /\ d.dials = c.dials /\ d.stage = c.stage
        /\ d.kind = c.kind /\ d.target = c.target /\ d.login = c.login
    BY <1>1, <2>1 DEF Connections
  <2>3. Sound(d)
    BY <1>2, <1>4, <2>2 DEF Sound
  <2> QED
    BY <2>3 DEF d
<1>5. CASE c.stage = "piped"
  <2>1. d = [c EXCEPT !.got = Append(c.got, c.sent + 1), !.sent = c.sent + 1]
    BY <1>1, <1>5 DEF Received, Connections
  <2> HIDE DEF d
  <2>2. /\ d \in Connections /\ d.sent = c.sent + 1
        /\ d.got = Append(c.got, c.sent + 1)
        /\ d.timer = c.timer /\ d.dials = c.dials /\ d.stage = c.stage
        /\ d.kind = c.kind /\ d.target = c.target /\ d.login = c.login
    BY <1>1, <1>2, <2>1 DEF Connections
  <2>3. Sound(d)
    BY <1>2, <1>5, <2>2 DEF Sound
  <2> QED
    BY <2>3 DEF d
<1> QED
  BY <1>3, <1>4, <1>5

\* The timer hands a silent client to the SSH server.
LEMMA TimedOutIsSound ==
    ASSUME NEW c, Sound(c), c.timer, c.stage # "ended"
    PROVE  Sound(ForwardTo(TimerCleared(c), "sftp"))
<1> DEFINE d == ForwardTo(TimerCleared(c), "sftp")
<1>1. c \in Connections /\ c.stage = "sniffing" /\ c.dials = 0 /\ c.login = 0
      /\ Handed(c.got, c.sent)
  BY DEF Sound
<1>2. TimerCleared(c) \in Connections /\ TimerCleared(c).timer = FALSE
      /\ TimerCleared(c).got = c.got /\ TimerCleared(c).sent = c.sent
      /\ TimerCleared(c).dials = 0
  BY <1>1, ClearedFields
<1>3. /\ d \in Connections /\ d.timer = FALSE /\ d.target = "sftp" /\ d.dials = 1
      /\ d.stage = "dialing" /\ d.got = c.got /\ d.sent = c.sent
  BY <1>2, ForwardFields
<1> HIDE DEF d
<1>4. Sound(d)
  BY <1>1, <1>3 DEF Sound
<1> QED
  BY <1>4 DEF d

\* Every step keeps every client sound.
LEMMA DoorStep ==
    ASSUME DoorInv, fate \in Seq(Fates), [Next]_vars
    PROVE  DoorInv'
<1> USE DEF DoorInv
<1>0. Sound(Free) /\ Free \in Connections /\ Len(fate) + 1 \in Nat
  <2>1. "none" \in {"none", "ssh", "http"}
    OBVIOUS
  <2>2. Sound(Free)
    BY <2>1, FreshIsSound DEF Free
  <2>3. Len(fate) \in Nat
    BY LenProperties
  <2> QED
    BY <2>2, <2>3 DEF Sound
\* A step of one client at most.
<1>1. ASSUME NEW s \in Sockets, NEW c, Sound(c), conn' = [conn EXCEPT ![s] = c]
      PROVE  DoorInv'
  BY <1>1 DEF Sound
<1>2. ASSUME NEW s \in Sockets, Accept(s) PROVE DoorInv'
  <2>1. PICK kind \in {"ssh", "http"} :
               conn' = [conn EXCEPT ![s] = Connection(kind, "sniffing", TRUE)]
    BY <1>2 DEF Accept
  <2> QED
    BY <1>1, <2>1, FreshIsSound
<1>3. ASSUME NEW s \in Sockets, Receive(s) PROVE DoorInv'
  <2>1. /\ conn[s].stage \in {"sniffing", "dialing", "piped"} /\ conn[s].sent < MaxChunks
        /\ conn' = [conn EXCEPT ![s] =
                      [Received(conn[s], conn[s].sent + 1) EXCEPT !.sent = @ + 1]]
    BY <1>3 DEF Receive
  <2> QED
    BY <1>1, <2>1, ReceivedIsSound
<1>4. ASSUME NEW s \in Sockets, TimerFires(s) PROVE DoorInv'
  <2>1. /\ conn[s].timer
        /\ conn' = [conn EXCEPT ![s] = IF conn[s].stage = "ended" THEN Free
                                      ELSE ForwardTo(TimerCleared(conn[s]), "sftp")]
    BY <1>4 DEF TimerFires
  <2>2. CASE conn[s].stage = "ended"
    BY <1>0, <1>1, <2>1, <2>2
  <2>3. CASE conn[s].stage # "ended"
    BY <1>1, <2>1, <2>3, TimedOutIsSound
  <2> QED
    BY <2>2, <2>3
<1>5. ASSUME NEW s \in Sockets, Connected(s) PROVE DoorInv'
  <2>1. /\ conn[s].stage = "dialing" /\ Sound(conn[s]) /\ conn[s] \in Connections
        /\ conn' = [conn EXCEPT ![s] = [conn[s] EXCEPT !.stage = "piped"]]
    BY <1>5 DEF Connected
  <2>2. Sound([conn[s] EXCEPT !.stage = "piped"])
    BY <2>1 DEF Sound, Connections, Stages
  <2> QED
    BY <1>1, <2>1, <2>2
<1>6. ASSUME NEW s \in Sockets, LeaveEarly(s) PROVE DoorInv'
  <2>1. /\ conn[s].stage = "sniffing" /\ Sound(conn[s]) /\ conn[s] \in Connections
        /\ conn' = [conn EXCEPT ![s] = [conn[s] EXCEPT !.stage = "ended"]]
    BY <1>6 DEF LeaveEarly
  <2>2. Sound([conn[s] EXCEPT !.stage = "ended"])
    BY <2>1 DEF Sound, Connections, Stages
  <2> QED
    BY <1>1, <2>1, <2>2
<1>7. ASSUME NEW s \in Sockets, Authenticate(s) PROVE DoorInv'
  <2>1. /\ conn[s].stage = "piped" /\ Sound(conn[s]) /\ conn[s] \in Connections
        /\ conn' = [conn EXCEPT ![s] = [conn[s] EXCEPT !.login = Len(fate) + 1]]
    BY <1>7 DEF Authenticate, Speaks
  <2>2. Sound([conn[s] EXCEPT !.login = Len(fate) + 1])
    BY <1>0, <2>1 DEF Sound, Connections
  <2> QED
    BY <1>1, <2>1, <2>2
<1>8. ASSUME NEW s \in Sockets, Disconnect(s) \/ Break(s) PROVE DoorInv'
  BY <1>0, <1>1, <1>8 DEF Disconnect, Break
<1>9. CASE ProcessEnds
  BY <1>0, <1>9 DEF ProcessEnds
<1>10. CASE UNCHANGED conn
  BY <1>10
<1> QED
  BY <1>2, <1>3, <1>4, <1>5, <1>6, <1>7, <1>8, <1>9, <1>10 DEF Next, Operate, vars

-----------------------------------------------------------------------------
(* Attribution.                                                            *)

\* The entries that an exit has dropped and of which nothing is on disk.
LostEntries == {e \in DOMAIN fate : fate[e] = "dropped" /\ e \notin OnDisk}

\* An entry belongs to a login before it, and is lost if that is lost.
Attributed ==
  /\ author \in Seq(Nat) /\ Len(author) = Len(fate)
  /\ \A e \in DOMAIN fate : author[e] \in 1..e /\ (author[e] \in LostEntries => e \in LostEntries)
  /\ \A s \in Sockets : /\ conn[s].login \in 0..Len(fate)
                        /\ conn[s].login \notin LostEntries

\* Every step of the front door is one of the audit log.
LEMMA StepsOfTheLog == [Next]_vars => [AuditNext]_auditVars
  BY DEF Next, vars, Accept, Receive, TimerFires, Connected, LeaveEarly, Authenticate,
     Operate, Disconnect, Break, ProcessEnds, AuditNext, AuditBackground

\* But for an exit, no step loses or finds an entry.
LEMMA LostIsStable ==
    ASSUME AuditInv, [AuditNext]_auditVars, ~Exit
    PROVE  LostEntries' = LostEntries
<1>1. DiskStep
  BY AuditStep
<1>2. \A e \in DOMAIN fate : fate'[e] = "dropped" => fate[e] = "dropped"
  BY OnlyExitDrops DEF AuditInv
<1>3. ASSUME NEW e \in DOMAIN fate
      PROVE  fate'[e] = "dropped" /\ e \notin OnDisk' <=> fate[e] = "dropped" /\ e \notin OnDisk
  BY <1>1, <1>2 DEF DiskStep, Gone
<1>4. DOMAIN fate \subseteq DOMAIN fate'
      /\ \A e \in DOMAIN fate' \ DOMAIN fate : fate'[e] # "dropped"
  BY <1>1 DEF DiskStep
<1> QED
  BY <1>3, <1>4 DEF LostEntries

\* What is logged belongs to the login of its connection, or is one.
LEMMA LogAttributes ==
    ASSUME AuditInv, Attributed, [AuditNext]_auditVars, Log, ~Exit,
           NEW a \in 1..(Len(fate) + 1), a \notin LostEntries,
           author' = Append(author, a),
           \A s \in Sockets : conn'[s].login \in {0, conn[s].login, Len(fate) + 1}
    PROVE  Attributed'
<1>1. PICK n \in Nat : n = Len(fate)
  BY LenProperties DEF AuditInv, Types
<1>2. fate \in Seq(Fates) /\ DOMAIN fate = 1..n
  BY <1>1, LenProperties DEF AuditInv, Types
<1>3. /\ Len(fate') = n + 1 /\ DOMAIN fate' = 1..(n + 1) /\ fate'[n + 1] = "pending"
  <2>1. fate' = Append(fate, "pending") /\ "pending" \in Fates
    BY DEF Log, Fates
  <2>2. fate' \in Seq(Fates) /\ Len(fate') = n + 1 /\ fate'[n + 1] = "pending"
    BY <1>1, <1>2, <2>1, AppendProperties
  <2> QED
    BY <2>2, LenProperties
<1>4. /\ author \in Seq(Nat) /\ Len(author) = n
  BY <1>1 DEF Attributed
<1>5. /\ author' \in Seq(Nat) /\ Len(author') = n + 1
      /\ \A e \in 1..n : author'[e] = author[e]
      /\ author'[n + 1] = a
  <2>1. a \in Nat
    BY <1>1
  <2> QED
    BY <1>4, <2>1, AppendProperties
<1>6. LostEntries' = LostEntries /\ LostEntries \subseteq 1..n
  BY <1>2, LostIsStable DEF LostEntries
<1>7. n + 1 \notin LostEntries
  BY <1>6
<1>8. ASSUME NEW e \in 1..(n + 1)
      PROVE  author'[e] \in 1..e /\ (author'[e] \in LostEntries => e \in LostEntries)
  <2>1. CASE e = n + 1
    <3>1. author'[e] = a /\ a \in 1..e
      BY <1>1, <1>5, <2>1
    <3> QED
      BY <3>1
  <2>2. CASE e \in 1..n
    <3>1. author[e] \in 1..e /\ (author[e] \in LostEntries => e \in LostEntries)
      BY <1>2, <2>2 DEF Attributed
    <3>2. author'[e] = author[e]
      BY <1>5, <2>2
    <3> QED
      BY <3>1, <3>2
  <2>3. e = n + 1 \/ e \in 1..n
    OBVIOUS
  <2> QED
    BY <2>1, <2>2, <2>3
<1>9. ASSUME NEW s \in Sockets
      PROVE  conn'[s].login \in 0..(n + 1) /\ conn'[s].login \notin LostEntries
  <2>1. conn'[s].login \in {0, conn[s].login, n + 1}
    BY <1>1
  <2>2. conn[s].login \in 0..n /\ conn[s].login \notin LostEntries
    BY <1>1 DEF Attributed
  <2>3. 0 \notin LostEntries
    BY <1>6
  <2>4. \A l \in 0..n : l \in 0..(n + 1)
    OBVIOUS
  <2> QED
    BY <1>7, <2>1, <2>2, <2>3, <2>4
<1> QED
  BY <1>3, <1>5, <1>6, <1>8, <1>9 DEF Attributed

\* Steps that log nothing disturb no attribution.
LEMMA SilentAttributes ==
    ASSUME AuditInv, Attributed, AuditBackground \/ Start \/ UNCHANGED auditVars,
           author' = author,
           \A s \in Sockets : conn'[s].login \in {0, conn[s].login}
    PROVE  Attributed'
<1>1. PICK n \in Nat : n = Len(fate)
  BY LenProperties DEF AuditInv, Types
<1>2. DOMAIN fate = 1..n
  BY <1>1, LenProperties DEF AuditInv, Types
<1>3. Len(fate') = n /\ DOMAIN fate' = 1..n
  <2>1. Len(fate') = Len(fate) /\ DOMAIN fate' = DOMAIN fate
    BY OnlyLogAdds DEF AuditInv
  <2> QED
    BY <1>1, <1>2, <2>1
<1>4. LostEntries' = LostEntries /\ LostEntries \subseteq 1..n
  <2>1. up' = TRUE \/ up' = up
    BY DEF AuditBackground, AppendReturns, AppendDone, AppendFails, JobSteps, JobBegins,
           JobFinishes, JobFails, Tick, Start, auditVars
  <2>2. ~Exit
    BY <2>1 DEF Exit
  <2>3. [AuditNext]_auditVars
    BY DEF AuditNext
  <2> QED
    BY <1>2, <2>2, <2>3, LostIsStable DEF LostEntries
<1>5. ASSUME NEW s \in Sockets
      PROVE  conn'[s].login \in 0..n /\ conn'[s].login \notin LostEntries
  <2>1. conn[s].login \in 0..n /\ conn[s].login \notin LostEntries
    BY <1>1 DEF Attributed
  <2>2. 0 \notin LostEntries /\ 0 \in 0..n
    BY <1>4
  <2> QED
    BY <2>1, <2>2
<1> QED
  BY <1>1, <1>2, <1>3, <1>4, <1>5 DEF Attributed

\* An exit loses what an entry stands for only with its login.
LEMMA ExitAttributes ==
    ASSUME AuditInv, Attributed, ProcessEnds
    PROVE  Attributed'
<1>1. Exit /\ conn' = [s \in Sockets |-> Free] /\ author' = author
  BY DEF ProcessEnds
<1>2. PICK n \in Nat : n = Len(fate)
  BY LenProperties DEF AuditInv, Types
<1>3. DOMAIN fate = 1..n
  BY <1>2, LenProperties DEF AuditInv, Types
<1>4. Len(fate') = n /\ DOMAIN fate' = 1..n
  <2>1. Len(fate') = Len(fate) /\ DOMAIN fate' = DOMAIN fate
    BY <1>1, OnlyLogAdds DEF AuditInv
  <2> QED
    BY <1>2, <1>3, <2>1
<1>5. PICK k \in Nat, c \in Nat :
             /\ k <= c
             /\ \A e \in DOMAIN fate :
                  /\ e > k => fate[e] = "pending" /\ fate'[e] = "dropped" /\ e \notin OnDisk
                  /\ ~(e > k) => fate'[e] = fate[e]
             /\ OnDisk' = OnDisk \cup (k + 1)..c
  BY <1>1, ExitCuts
<1>6. ASSUME NEW e \in 1..n
      PROVE  e \in LostEntries' <=> (IF e > k THEN e > c ELSE e \in LostEntries)
  <2>1. e \in LostEntries' <=> fate'[e] = "dropped" /\ e \notin OnDisk'
    BY <1>4 DEF LostEntries
  <2>2. CASE e > k
    <3>1. fate'[e] = "dropped" /\ e \notin OnDisk
      BY <1>3, <1>5, <2>2
    <3>2. e \in (k + 1)..c <=> ~(e > c)
      BY <2>2
    <3> QED
      BY <1>5, <2>1, <2>2, <3>1, <3>2
  <2>3. CASE ~(e > k)
    <3>1. fate'[e] = fate[e]
      BY <1>3, <1>5, <2>3
    <3>2. e \notin (k + 1)..c
      BY <2>3
    <3>3. e \in LostEntries <=> fate[e] = "dropped" /\ e \notin OnDisk
      BY <1>3 DEF LostEntries
    <3> QED
      BY <1>5, <2>1, <2>3, <3>1, <3>2, <3>3
  <2> QED
    BY <2>2, <2>3
<1>7. ASSUME NEW e \in 1..n
      PROVE  author[e] \in 1..e /\ (author[e] \in LostEntries' => e \in LostEntries')
  <2>1. author[e] \in 1..e /\ (author[e] \in LostEntries => e \in LostEntries)
    BY <1>3 DEF Attributed
  <2>2. PICK d \in 1..e : d = author[e]
    BY <2>1
  <2>3. d \in 1..n /\ d \in Nat /\ e \in Nat
    OBVIOUS
  <2>4. CASE d > k
    <3>1. d \in LostEntries' <=> d > c
      BY <1>6, <2>3, <2>4
    <3>2. e > k
      BY <2>3, <2>4
    <3>3. e \in LostEntries' <=> e > c
      BY <1>6, <3>2
    <3>4. d > c => e > c
      BY <2>3
    <3> QED
      BY <2>1, <2>2, <3>1, <3>3, <3>4
  <2>5. CASE ~(d > k)
    <3>1. d \in LostEntries' <=> d \in LostEntries
      BY <1>6, <2>3, <2>5
    <3>2. d \in LostEntries => e \in LostEntries
      BY <2>1, <2>2
    <3>3. e \in LostEntries => e \notin OnDisk /\ fate[e] = "dropped"
      BY DEF LostEntries
    <3>4. e \in LostEntries => e \in LostEntries'
      <4>1. CASE e > k
        BY <1>3, <1>5, <3>3, <4>1
      <4>2. CASE ~(e > k)
        BY <1>6, <4>2
      <4> QED
        BY <4>1, <4>2
    <3> QED
      BY <2>1, <2>2, <3>1, <3>2, <3>4
  <2> QED
    BY <2>4, <2>5
<1>8. 0 \notin LostEntries' /\ 0 \in 0..n
  BY <1>2, <1>4 DEF LostEntries
<1>9. \A s \in Sockets : conn'[s].login = 0
  BY <1>1 DEF Free, Connection
<1> QED
  BY <1>1, <1>2, <1>3, <1>4, <1>7, <1>8, <1>9 DEF Attributed

\* Every step keeps the attribution.
LEMMA AttributionStep ==
    ASSUME AuditInv, DoorInv, Attributed, [Next]_vars
    PROVE  Attributed'
<1>1. [AuditNext]_auditVars /\ conn \in [Sockets -> Connections]
  BY StepsOfTheLog DEF DoorInv
<1>2. PICK n \in Nat : n = Len(fate)
  BY LenProperties DEF AuditInv, Types
<1>3. Log => ~Exit
  BY DEF Log, Exit
<1>4. n + 1 \notin LostEntries /\ 0 \notin LostEntries
  <2>1. DOMAIN fate = 1..n
    BY <1>2, LenProperties DEF AuditInv, Types
  <2> QED
    BY <2>1 DEF LostEntries
<1>5. \A s \in Sockets : conn[s].login \in 0..n /\ conn[s].login \notin LostEntries
  BY <1>2 DEF Attributed
\* The connection of one client is replaced.
<1>6. ASSUME NEW s \in Sockets, NEW c, conn' = [conn EXCEPT ![s] = c],
             c.login \in {0, conn[s].login, Len(fate) + 1}
      PROVE  \A r \in Sockets : conn'[r].login \in {0, conn[r].login, Len(fate) + 1}
  BY <1>1, <1>6
<1>7. ASSUME NEW s \in Sockets, NEW c, conn' = [conn EXCEPT ![s] = c],
             c.login \in {0, conn[s].login}
      PROVE  \A r \in Sockets : conn'[r].login \in {0, conn[r].login}
  BY <1>1, <1>7
<1>8. Free.login = 0
      /\ \A kind : Connection(kind, "sniffing", TRUE).login = 0
  BY DEF Free, Connection
\* What logs nothing and ends nothing.
<1>9. ASSUME UNCHANGED <<auditVars, author>>,
             \A r \in Sockets : conn'[r].login \in {0, conn[r].login}
      PROVE  Attributed'
  BY <1>9, SilentAttributes
<1>10. ASSUME NEW s \in Sockets, Accept(s) PROVE Attributed'
  <2>1. PICK kind : conn' = [conn EXCEPT ![s] = Connection(kind, "sniffing", TRUE)]
    BY <1>10 DEF Accept
  <2>2. UNCHANGED <<auditVars, author>>
    BY <1>10 DEF Accept
  <2> QED
    BY <1>7, <1>8, <1>9, <2>1, <2>2
<1>11. ASSUME NEW s \in Sockets, Receive(s) PROVE Attributed'
  <2> DEFINE c == conn[s]
             d == [Received(c, c.sent + 1) EXCEPT !.sent = @ + 1]
  <2>1. c \in Connections /\ c.stage \in {"sniffing", "dialing", "piped"}
    BY <1>1, <1>11 DEF Receive
  <2>2. conn' = [conn EXCEPT ![s] = d] /\ UNCHANGED <<auditVars, author>>
    BY <1>11 DEF Receive
  <2>3. d.login = c.login
    BY <2>1 DEF Received, ForwardTo, WithInitialChunk, TimerCleared, Connections
  <2> QED
    BY <1>7, <1>9, <2>2, <2>3
<1>12. ASSUME NEW s \in Sockets, TimerFires(s) PROVE Attributed'
  <2>1. /\ conn' = [conn EXCEPT ![s] = IF conn[s].stage = "ended" THEN Free
                                      ELSE ForwardTo(TimerCleared(conn[s]), "sftp")]
        /\ UNCHANGED <<auditVars, author>>
    BY <1>12 DEF TimerFires
  <2>2. ForwardTo(TimerCleared(conn[s]), "sftp").login = conn[s].login
    <3>1. conn[s] \in Connections
      BY <1>1
    <3> QED
      BY <3>1 DEF ForwardTo, TimerCleared, Connections
  <2> QED
    BY <1>7, <1>8, <1>9, <2>1, <2>2
<1>13. ASSUME NEW s \in Sockets, Connected(s) \/ LeaveEarly(s) PROVE Attributed'
  <2>1. /\ \E stage : conn' = [conn EXCEPT ![s] = [conn[s] EXCEPT !.stage = stage]]
        /\ UNCHANGED <<auditVars, author>>
    BY <1>13 DEF Connected, LeaveEarly
  <2>2. \A stage : [conn[s] EXCEPT !.stage = stage].login = conn[s].login
    <3>1. conn[s] \in Connections
      BY <1>1
    <3> QED
      BY <3>1 DEF Connections
  <2> QED
    BY <1>7, <1>9, <2>1, <2>2
<1>14. ASSUME NEW s \in Sockets, Authenticate(s) PROVE Attributed'
  <2>1. /\ Log /\ author' = Append(author, n + 1)
        /\ conn' = [conn EXCEPT ![s] = [conn[s] EXCEPT !.login = Len(fate) + 1]]
    BY <1>2, <1>14 DEF Authenticate
  <2>2. [conn[s] EXCEPT !.login = Len(fate) + 1].login = Len(fate) + 1
    <3>1. conn[s] \in Connections
      BY <1>1
    <3> QED
      BY <3>1 DEF Connections
  <2>3. \A r \in Sockets : conn'[r].login \in {0, conn[r].login, Len(fate) + 1}
    BY <1>6, <2>1, <2>2
  <2>4. n + 1 \in 1..(Len(fate) + 1)
    BY <1>2
  <2> QED
    BY <1>1, <1>3, <1>4, <2>1, <2>3, <2>4, LogAttributes
<1>15. ASSUME NEW s \in Sockets, Operate(s) \/ Disconnect(s) PROVE Attributed'
  <2>1. Log /\ author' = Append(author, conn[s].login) /\ conn[s].login # 0
    BY <1>15 DEF Operate, Disconnect, Serves
  <2>2. conn[s].login \in 1..(Len(fate) + 1) /\ conn[s].login \notin LostEntries
    BY <1>2, <1>5, <2>1
  <2>3. conn' = conn \/ conn' = [conn EXCEPT ![s] = Free]
    BY <1>15 DEF Operate, Disconnect
  <2>4. \A r \in Sockets : conn'[r].login \in {0, conn[r].login, Len(fate) + 1}
    BY <1>6, <1>8, <2>3
  <2> QED
    BY <1>1, <1>3, <2>1, <2>2, <2>4, LogAttributes
<1>16. ASSUME NEW s \in Sockets, Break(s) PROVE Attributed'
  BY <1>7, <1>8, <1>9, <1>16 DEF Break
<1>17. CASE ProcessEnds
  BY <1>17, ExitAttributes
<1>18. CASE (AuditBackground \/ Start) /\ UNCHANGED <<conn, author>>
  BY <1>18, SilentAttributes
<1>19. CASE UNCHANGED vars
  BY <1>9, <1>19 DEF vars
<1> QED
  BY <1>10, <1>11, <1>12, <1>13, <1>14, <1>15, <1>16, <1>17, <1>18, <1>19 DEF Next

-----------------------------------------------------------------------------
(* The composition.                                                        *)

DoorAndAuditInv == AuditInv /\ DoorInv /\ Attributed

\* It holds when the gateway starts for the first time.
LEMMA InitStands == Init => DoorAndAuditInv
<1> SUFFICES ASSUME Init PROVE DoorAndAuditInv
  OBVIOUS
<1>1. AuditInv
  BY AuditInitStands DEF Init
<1>2. DoorInv
  <2>1. Sound(Free)
    BY FreshIsSound DEF Free
  <2> QED
    BY <2>1 DEF Init, DoorInit, DoorInv, Sound
<1>3. Attributed
  <2>1. fate = <<>> /\ author = <<>> /\ DOMAIN fate = {} /\ Len(fate) = 0
    BY EmptySeq DEF Init, AuditInit, DoorInit
  <2>2. \A s \in Sockets : conn[s].login = 0
    BY DEF Init, DoorInit, Free, Connection
  <2>3. author \in Seq(Nat) /\ Len(author) = Len(fate)
    BY <2>1
  <2>4. LostEntries = {} /\ 0 \in 0..Len(fate)
    BY <2>1 DEF LostEntries
  <2> QED
    BY <2>1, <2>2, <2>3, <2>4 DEF Attributed
<1> QED
  BY <1>1, <1>2, <1>3 DEF DoorAndAuditInv

\* Every step of the gateway keeps it.
LEMMA StepStands == DoorAndAuditInv /\ [Next]_vars => DoorAndAuditInv'
<1> SUFFICES ASSUME DoorAndAuditInv, [Next]_vars PROVE DoorAndAuditInv'
  OBVIOUS
<1>1. [AuditNext]_auditVars
  BY StepsOfTheLog
<1>2. AuditInv /\ DoorInv /\ Attributed
  BY DEF DoorAndAuditInv
<1>3. AuditInv'
  BY <1>1, <1>2, AuditStep
<1>4. DoorInv'
  BY <1>2, DoorStep DEF AuditInv, Types
<1>5. Attributed'
  BY <1>2, AttributionStep
<1> QED
  BY <1>3, <1>4, <1>5 DEF DoorAndAuditInv

\* The inductive invariant of the composition holds.
THEOREM DoorInvariant == Spec => []DoorAndAuditInv
  BY InitStands, StepStands, PTL DEF Spec

\* The front door uses the audit log by its operations only: every behaviour
\* of the gateway is one of AuditLog, so all that is proved of the audit log
\* holds of the gateway with its clients and its exits.
THEOREM GatewayUsesTheLog == Spec => AuditSpec
<1>1. Init => AuditInit
  BY DEF Init
<1>2. [Next]_vars => [AuditNext]_auditVars
  BY StepsOfTheLog
<1> QED
  BY <1>1, <1>2, PTL DEF Spec, AuditSpec

\* A client is forwarded once, however many there are and whichever of its
\* bytes and the timer came first.
THEOREM ClientsAreForwardedOnce == Spec => []ForwardedOnce
<1>1. DoorAndAuditInv => ForwardedOnce
  <2> SUFFICES ASSUME DoorInv, NEW s \in Sockets PROVE conn[s].dials <= 1
    BY DEF DoorAndAuditInv, ForwardedOnce
  <2>1. Sound(conn[s])
    BY DEF DoorInv
  <2>2. conn[s].dials \in {0, 1}
    BY <2>1 DEF Sound, Connections, Stages
  <2> QED
    BY <2>2
<1> QED
  BY <1>1, DoorInvariant, PTL

\* What a server behind sees of a client is in the order it was sent, and
\* the agent tunnel sees it from the first byte.
THEOREM BytesStayInOrder == Spec => []ForwardedInOrder
<1>1. DoorAndAuditInv => ForwardedInOrder
  BY DEF DoorAndAuditInv, DoorInv, ForwardedInOrder, Sound, Handed
<1> QED
  BY <1>1, DoorInvariant, PTL

\* What the log on disk says an SSH connection did can be attributed to a
\* login, which is on disk too unless its append failed or its file is gone.
THEOREM DeedsAreAttributed == Spec => []OperationsAreAttributed
<1>1. DoorAndAuditInv => OperationsAreAttributed
  <2> SUFFICES ASSUME AuditInv, Attributed, NEW e \in OnDisk
               PROVE  /\ author[e] \in 1..e
                      /\ author[e] \in OnDisk
                           \/ fate[author[e]] \in {"failed", "cleaned", "overwritten"}
    BY DEF DoorAndAuditInv, OperationsAreAttributed
  <2>1. PICK k \in Nat, j \in Nat : Standing(k, j)
    BY DEF AuditInv
  <2>2. PendingAfter(k) /\ InOrder(ArchiveFiles, latest, k) /\ Queued(k, j)
    BY <2>1 DEF Standing
  <2>3. e \in 1..k
    BY <2>2, OnDiskIsDealtWith
  <2>4. PICK n \in Nat : n = Len(fate) /\ fate \in Seq(Fates) /\ DOMAIN fate = 1..n
    BY LenProperties DEF AuditInv, Types
  <2>5. k <= n
    BY <2>2, <2>4 DEF Queued
  <2>6. e \in DOMAIN fate /\ e \in Nat
    BY <2>3, <2>4, <2>5
  <2>7. author[e] \in 1..e /\ (author[e] \in LostEntries => e \in LostEntries)
    BY <2>6 DEF Attributed
  <2>8. PICK d \in 1..e : d = author[e]
    BY <2>7
  <2>9. d \in DOMAIN fate /\ ~(d > k)
    BY <2>3, <2>4, <2>5
  <2>10. fate[d] \in Fates /\ fate[d] # "pending"
    BY <2>2, <2>4, <2>9 DEF PendingAfter
  <2>11. fate[d] = "appended" => d \in OnDisk
    BY <2>9 DEF AuditInv, AppendedStays
  <2>12. fate[d] = "dropped" => d \in OnDisk
    BY <2>7, <2>8, <2>9 DEF LostEntries
  <2> QED
    BY <2>7, <2>8, <2>10, <2>11, <2>12 DEF Fates
<1> QED
  BY <1>1, DoorInvariant, PTL

\* Every variable of the gateway has its type.
THEOREM GatewayTypeCorrect == Spec => []TypeOK
<1>1. ASSUME DoorAndAuditInv PROVE TypeOK
  <2>1. AuditInv /\ DoorInv /\ Attributed
    BY <1>1 DEF DoorAndAuditInv
  <2>2. AuditTypeOK
    BY <2>1, InvariantImplies
  <2>3. PICK n \in Nat : n = Len(fate) /\ DOMAIN fate = 1..n
    BY <2>1, LenProperties DEF AuditInv, Types
  <2>4. author \in Seq(DOMAIN fate) /\ Len(author) = Len(fate)
    <3>1. author \in Seq(Nat) /\ Len(author) = n /\ DOMAIN author = 1..n
      BY <2>1, <2>3, LenProperties DEF Attributed
    <3>2. ASSUME NEW e \in 1..n PROVE author[e] \in 1..n
      <4>1. author[e] \in 1..e
        BY <2>1, <2>3 DEF Attributed
      <4> QED
        BY <4>1
    <3>3. author = [e \in 1..n |-> author[e]]
      BY <3>1
    <3>4. author \in Seq(1..n)
      BY <3>2, <3>3
    <3> QED
      BY <2>3, <3>1, <3>4
  <2>5. ASSUME NEW s \in Sockets
        PROVE  conn[s].got \in BoundedSeq(1..MaxChunks, MaxChunks)
    <3>1. conn[s].got \in Seq(Nat) /\ conn[s].sent \in 0..MaxChunks
          /\ Handed(conn[s].got, conn[s].sent)
      BY <2>1 DEF DoorInv, Sound, Connections
    <3>2. PICK m \in Nat : m = Len(conn[s].got) /\ DOMAIN conn[s].got = 1..m
                            /\ conn[s].got = [i \in 1..m |-> conn[s].got[i]]
      BY <3>1, LenProperties
    <3>3. m \in 0..MaxChunks /\ \A i \in 1..m : conn[s].got[i] \in 1..MaxChunks
      <4>1. PICK sent \in 0..MaxChunks : sent = conn[s].sent
        BY <3>1
      <4>2. m <= sent /\ \A i \in 1..m : conn[s].got[i] \in 1..sent
        BY <3>1, <3>2, <4>1 DEF Handed
      <4>3. \A x \in 1..sent : x \in 1..MaxChunks
        BY <4>1
      <4> QED
        BY <4>1, <4>2, <4>3
    <3>4. conn[s].got \in [1..m -> 1..MaxChunks]
      BY <3>2, <3>3
    <3> QED
      BY <3>3, <3>4 DEF BoundedSeq, SeqOf
  <2>6. ASSUME NEW s \in Sockets
        PROVE  conn[s] \in [kind : {"none", "ssh", "http"}, stage : Stages, timer : BOOLEAN,
                            target : {"none", "sftp", "agent"}, dials : 0..2,
                            sent : 0..MaxChunks, got : BoundedSeq(1..MaxChunks, MaxChunks),
                            login : 0..Len(fate)]
    <3>1. conn[s] \in Connections /\ conn[s].dials \in 0..2
      <4>1. Sound(conn[s])
        BY <2>1 DEF DoorInv
      <4>2. conn[s].dials \in {0, 1}
        BY <4>1 DEF Sound, Connections, Stages
      <4> QED
        BY <4>1, <4>2 DEF Sound
    <3>2. conn[s].login \in 0..Len(fate)
      BY <2>1 DEF Attributed
    <3> QED
      BY <2>5, <3>1, <3>2 DEF Connections
  <2> QED
    BY <2>1, <2>2, <2>4, <2>6 DEF TypeOK, DoorInv
<1> QED
  BY <1>1, DoorInvariant, PTL
=============================================================================
