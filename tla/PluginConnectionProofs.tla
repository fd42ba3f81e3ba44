----------------------- MODULE PluginConnectionProofs -----------------------
(***************************************************************************)
(* Proofs about PluginConnection for every set of clients and tasks and    *)
(* every number of commands: its type invariant, and that the plugin is    *)
(* never stranded.                                                         *)
(***************************************************************************)
EXTENDS PluginConnection, TLAPS

USE PluginAssumption

-----------------------------------------------------------------------------
(* The type invariant.                                                     *)

\* connect() keeps what it sets well typed.
LEMMA ConnectTypes ==
  ASSUME TypeOK, Connect
  PROVE  /\ client' \in Clients \cup {NoClient}
         /\ phase' \in [Clients -> Phases]
         /\ state' \in States
  BY DEF TypeOK, Connect, Phases, States

\* Every step of a callback, a thread, a task or a command keeps the types.
LEMMA NextTypeOK == TypeOK /\ [Next]_vars => TypeOK'
<1> SUFFICES ASSUME TypeOK, [Next]_vars PROVE TypeOK'
  OBVIOUS
<1>1. ASSUME NEW c \in Clients, Opens(c) \/ Authenticated(c) \/ Rejected(c) \/ Closed(c)
      PROVE  TypeOK'
  BY <1>1 DEF TypeOK, Opens, Authenticated, Rejected, Closed, config, taskVars, Go,
     Phases, States, Steps, Threads
<1>2. ASSUME NEW x \in Threads, CancelStep(x) PROVE TypeOK'
  <2>1. CASE Check(x)
    BY <2>1 DEF TypeOK, Check, config, taskVars, Go, Steps
  <2>2. CASE Cancel(x)
    BY <2>2 DEF TypeOK, Cancel, config, Go, Steps
  <2>3. CASE CancelThrows(x)
    BY <2>3 DEF TypeOK, CancelThrows, TasksAfter, config, Go, Steps
  <2>4. CASE Forget(x)
    BY <2>4 DEF TypeOK, Forget, config, Go, Steps
  <2>5. CASE Reset(x)
    BY <2>5 DEF TypeOK, Reset, FlagAfterCancel, config, taskVars, Go, Steps
  <2> QED
    BY <1>2, <2>1, <2>2, <2>3, <2>4, <2>5 DEF CancelStep
<1>3. ASSUME NEW c \in Clients, Mark(c) PROVE TypeOK'
  BY <1>3 DEF TypeOK, Mark, config, taskVars, Go, Steps, States, Threads
<1>4. ASSUME NEW c \in Clients, Assign(c) PROVE TypeOK'
  <2>1. pc' \in [Threads -> Steps]
    BY <1>4 DEF TypeOK, Assign, Go, Steps, Threads
  <2>2. reconnectTask' \in Tasks \cup {NoTask} /\ tasks' \in [Tasks -> {"free", "pending", "running"}]
          /\ cancelled' \in BOOLEAN
    BY <1>4 DEF TypeOK, Assign, taskVars, FreeTasks
  <2> QED
    BY <1>4, <2>1, <2>2 DEF TypeOK, Assign, config
<1>5. CASE Close
  <2>1. phase' \in [Clients -> Phases]
    <3>1. ASSUME NEW c \in Clients PROVE PhaseAfterClose(c) \subseteq Phases
      BY DEF PhaseAfterClose, TypeOK, Phases
    <3> QED
      BY <1>5, <3>1 DEF TypeOK, Close
  <2> QED
    BY <1>5, <2>1 DEF TypeOK, Close, TasksAfter, config, Go, Steps, States, Threads
<1>6. CASE MainConnects
  BY <1>6, ConnectTypes DEF TypeOK, MainConnects, config, taskVars, Go, Steps, Threads
<1>7. ASSUME NEW t \in Tasks, TaskStep(t) PROVE TypeOK'
  <2>1. CASE Fire(t)
    BY <2>1 DEF TypeOK, Fire, config, States
  <2>2. CASE TaskConnects(t)
    BY <2>2, ConnectTypes DEF TypeOK, TaskConnects, config
  <2> QED
    BY <1>7, <2>1, <2>2 DEF TaskStep
<1>8. CASE Commands
  <2>1. commands' \in 0..MaxCommands
    BY <1>8 DEF TypeOK, Commands, ReconnectCommand, Disable
  <2>2. pc' \in [Threads -> Steps]
    BY <1>8 DEF TypeOK, Commands, ReconnectCommand, Disable, Go, Steps, Threads
  <2>3. enabled' \in BOOLEAN
    BY <1>8 DEF TypeOK, Commands, ReconnectCommand, Disable
  <2> QED
    BY <1>8, <2>1, <2>2, <2>3 DEF TypeOK, Commands, ReconnectCommand, Disable, taskVars
<1>9. CASE UNCHANGED vars
  BY <1>9 DEF TypeOK, vars
<1> QED
  BY <1>1, <1>2, <1>3, <1>4, <1>5, <1>6, <1>7, <1>8, <1>9 DEF Next, Callback, ThreadStep

\* The initial state is well typed.
LEMMA InitTypeOK == Init => TypeOK
<1> SUFFICES ASSUME Init PROVE TypeOK
  OBVIOUS
<1>1. enabled \in BOOLEAN /\ reconnect \in BOOLEAN /\ isReconnecting \in BOOLEAN
        /\ cancelled \in BOOLEAN
  BY DEF Init
<1>2. commands \in 0..MaxCommands
  BY DEF Init
<1>3. pc \in [Threads -> Steps] /\ phase \in [Clients -> Phases] /\ state \in States
  BY DEF Init, Phases, States, Steps
<1>4. client \in Clients \cup {NoClient} /\ reconnectTask \in Tasks \cup {NoTask}
        /\ tasks \in [Tasks -> {"free", "pending", "running"}]
  BY DEF Init
<1> QED
  BY <1>1, <1>2, <1>3, <1>4 DEF TypeOK

\* Every variable of the plugin's connection keeps its type.
THEOREM PluginTypeCorrect == Spec => []TypeOK
  BY InitTypeOK, NextTypeOK, PTL DEF Spec

-----------------------------------------------------------------------------
(* Never stranded.                                                         *)

\* Thread x is on its way to clear the flag: what it has still to do cannot
\* throw.
WillReset(x) ==
  \/ pc[x] \in {"mark", "check", "forget", "reset"}
  \/ pc[x] = "cancel" /\ reconnectTask # NoTask

FlagIsHeld == isReconnecting => \E x \in Threads : WillReset(x)

\* Something will connect the plugin, or notice that it has to be connected.
Coming ==
  \/ \E c \in Clients : Alive(c) \/ phase[c] = "closing"
  \/ \E t \in Tasks : tasks[t] \in {"pending", "running"}
  \/ \E x \in Threads : WillReset(x) \/ pc[x] \in {"assign", "close", "connect"}

ReconnectInv ==
  /\ TypeOK
  /\ FlagIsHeld
  /\ enabled /\ reconnect => Coming

\* connect() leaves a client alive.
LEMMA ConnectComes ==
  ASSUME TypeOK, Connect
  PROVE  \E c \in Clients : Alive(c)'
<1>1. CASE client # NoClient /\ IsOpen(client)
  BY <1>1 DEF TypeOK, Connect, IsOpen, Alive
<1>2. CASE ~(client # NoClient /\ IsOpen(client))
  BY <1>2 DEF TypeOK, Connect, Alive
<1> QED
  BY <1>1, <1>2

\* The flag is up only while a thread is bound to clear it: whoever sets the
\* task to null under the feet of another thread clears the flag itself.
LEMMA NextFlag == ReconnectInv /\ [Next]_vars => FlagIsHeld'
<1> SUFFICES ASSUME ReconnectInv, [Next]_vars, isReconnecting'
             PROVE  \E x \in Threads : WillReset(x)'
  BY DEF FlagIsHeld
<1> USE DEF ReconnectInv, FlagIsHeld, WillReset
<1>1. ASSUME NEW c \in Clients, Opens(c) \/ Authenticated(c) \/ Rejected(c)
      PROVE  \E x \in Threads : WillReset(x)'
  BY <1>1 DEF Opens, Authenticated, Rejected, taskVars
<1>2. ASSUME NEW c \in Clients, Closed(c) PROVE \E x \in Threads : WillReset(x)'
  <2>1. CASE pc' = pc /\ isReconnecting
    BY <1>2, <2>1 DEF Closed, taskVars
  <2>2. CASE pc' = [pc EXCEPT ![c] = "mark"]
    BY <2>2 DEF TypeOK, Threads
  <2> QED
    BY <1>2, <2>1, <2>2 DEF Closed, Go
<1>3. ASSUME NEW y \in Threads, CancelStep(y) PROVE \E x \in Threads : WillReset(x)'
  <2>1. CASE Check(y)
    BY <1>3, <2>1 DEF TypeOK, Check, Go, taskVars
  <2>2. CASE Cancel(y)
    BY <1>3, <2>2 DEF TypeOK, Cancel, Go
  <2>3. CASE CancelThrows(y)
    BY <1>3, <2>3 DEF TypeOK, CancelThrows, Go
  <2>4. CASE Forget(y)
    BY <1>3, <2>4 DEF TypeOK, Forget, Go
  <2>5. CASE Reset(y)
    BY <2>5 DEF Reset, FlagAfterCancel
  <2> QED
    BY <1>3, <2>1, <2>2, <2>3, <2>4, <2>5 DEF CancelStep
<1>4. ASSUME NEW c \in Clients, Mark(c) PROVE \E x \in Threads : WillReset(x)'
  BY <1>4 DEF TypeOK, Mark, Go, Threads
<1>5. ASSUME NEW c \in Clients, Assign(c) PROVE \E x \in Threads : WillReset(x)'
  <2>1. PICK x \in Threads : WillReset(x)
    BY <1>5 DEF Assign
  <2>2. pc'[x] = pc[x]
    BY <1>5, <2>1 DEF TypeOK, Assign, Go
  <2>3. reconnectTask' = reconnectTask \/ reconnectTask' # NoTask
    BY <1>5 DEF Assign, FreeTasks, taskVars
  <2> QED
    BY <2>1, <2>2, <2>3
<1>6. CASE Close \/ MainConnects
  BY <1>6 DEF TypeOK, Close, MainConnects, Go, taskVars
<1>7. ASSUME NEW t \in Tasks, TaskStep(t) PROVE \E x \in Threads : WillReset(x)'
  BY <1>7 DEF TaskStep, Fire, TaskConnects
<1>8. CASE Commands
  BY <1>8 DEF TypeOK, Commands, ReconnectCommand, Disable, Go, taskVars
<1>9. CASE UNCHANGED vars
  BY <1>9 DEF vars
<1> QED
  BY <1>1, <1>2, <1>3, <1>4, <1>5, <1>6, <1>7, <1>8, <1>9 DEF Next, Callback, ThreadStep

\* Whatever takes the last connection, the last task or the last thread at
\* work away puts another in its place.
LEMMA NextComing ==
  ReconnectInv /\ [Next]_vars => (enabled /\ reconnect => Coming)'
<1> SUFFICES ASSUME ReconnectInv, [Next]_vars, enabled', reconnect' PROVE Coming'
  OBVIOUS
<1>0. enabled /\ reconnect /\ Coming
  BY DEF Next, Callback, ThreadStep, CancelStep, TaskStep, Commands, Opens, Authenticated,
     Rejected, Closed, Check, Cancel, CancelThrows, Forget, Reset, Mark, Assign, Close,
     MainConnects, Fire, TaskConnects, ReconnectCommand, Disable, config, vars, ReconnectInv
<1> USE <1>0 DEF ReconnectInv, Coming, WillReset
<1>1. ASSUME NEW c \in Clients, Opens(c) \/ Authenticated(c) \/ Rejected(c) PROVE Coming'
  BY <1>1 DEF TypeOK, Opens, Authenticated, Rejected, Alive
<1>2. ASSUME NEW c \in Clients, Closed(c) PROVE Coming'
  <2>1. CASE isReconnecting /\ pc' = pc
    BY <1>2, <2>1 DEF Closed, taskVars, FlagIsHeld
  <2>2. CASE pc' = [pc EXCEPT ![c] = "mark"]
    BY <2>2 DEF TypeOK, Threads
  <2> QED
    BY <1>2, <2>1, <2>2 DEF Closed, Go
<1>3. ASSUME NEW y \in Threads, CancelStep(y) PROVE Coming'
  <2>1. CASE Check(y)
    BY <1>3, <2>1 DEF TypeOK, Check, Go, taskVars
  <2>2. CASE Cancel(y)
    BY <1>3, <2>2 DEF TypeOK, Cancel, Go
  <2>3. CASE CancelThrows(y)
    BY <1>3, <2>3 DEF TypeOK, CancelThrows, TasksAfter, Go, Alive
  <2>4. CASE Forget(y)
    BY <1>3, <2>4 DEF TypeOK, Forget, Go
  <2>5. CASE Reset(y)
    BY <1>3, <2>5 DEF TypeOK, Reset, Go
  <2> QED
    BY <1>3, <2>1, <2>2, <2>3, <2>4, <2>5 DEF CancelStep
<1>4. ASSUME NEW c \in Clients, Mark(c) PROVE Coming'
  BY <1>4 DEF TypeOK, Mark, Go, Threads
<1>5. ASSUME NEW c \in Clients, Assign(c) PROVE Coming'
  <2>1. reconnectTask' \in Tasks /\ tasks'[reconnectTask'] = "pending"
    BY <1>5 DEF TypeOK, Assign, FreeTasks
  <2> QED
    BY <2>1
<1>6. CASE Close
  BY <1>6 DEF TypeOK, Close, Go, Threads
<1>7. CASE MainConnects
  BY <1>7, ConnectComes DEF MainConnects
<1>8. ASSUME NEW t \in Tasks, TaskStep(t) PROVE Coming'
  <2>1. CASE Fire(t)
    BY <1>8, <2>1 DEF TypeOK, Fire
  <2>2. CASE TaskConnects(t)
    BY <2>2, ConnectComes DEF TaskConnects
  <2> QED
    BY <1>8, <2>1, <2>2 DEF TaskStep
<1>9. CASE Commands
  BY <1>9 DEF TypeOK, Commands, ReconnectCommand, Disable, Go, Threads
<1>10. CASE UNCHANGED vars
  BY <1>10 DEF vars, Alive
<1> QED
  BY <1>1, <1>2, <1>3, <1>4, <1>5, <1>6, <1>7, <1>8, <1>9, <1>10
     DEF Next, Callback, ThreadStep

\* However callbacks, tasks and commands interleave, a plugin that should
\* reconnect has a connection, a task or a thread that leads to one.
THEOREM PluginIsNeverStranded == Spec => []NeverStranded
<1>1. Init => ReconnectInv
  <2> SUFFICES ASSUME Init PROVE ReconnectInv
    OBVIOUS
  <2>1. ~isReconnecting
    BY DEF Init
  <2>2. pc[Main] = "connect" /\ Main \in Threads
    BY DEF Init, Threads
  <2> QED
    BY InitTypeOK, <2>1, <2>2 DEF ReconnectInv, FlagIsHeld, Coming
<1>2. ReconnectInv /\ [Next]_vars => ReconnectInv'
  BY NextTypeOK, NextFlag, NextComing DEF ReconnectInv
<1>3. ReconnectInv => NeverStranded
  BY DEF ReconnectInv, NeverStranded, AtRest, Coming, WillReset, Threads, TypeOK
<1> QED
  BY <1>1, <1>2, <1>3, PTL DEF Spec

-----------------------------------------------------------------------------
(* The status, as long as nobody gives the reconnect command.              *)

\* Client c has a WebSocket, or its thread is at work.
Busy(c) == phase[c] # "closed" \/ pc[c] # "idle"

\* One at a time carries the connection on: the main thread that connects, a
\* client, or a task.
OneAtWork ==
  /\ \A c, d \in Clients : Busy(c) /\ Busy(d) => c = d
  /\ \A t, u \in Tasks : tasks[t] # "free" /\ tasks[u] # "free" => t = u
  /\ \A c \in Clients, t \in Tasks : ~(Busy(c) /\ tasks[t] # "free")
  /\ pc[Main] = "connect"
       => (\A c \in Clients : ~Busy(c)) /\ (\A t \in Tasks : tasks[t] = "free")

\* A thread is at work only once its client is closed; onDisable is the only
\* caller of disconnect.
InTurn ==
  /\ \A c \in Clients : phase[c] # "closed" => pc[c] = "idle"
  /\ Locked => ~enabled

\* The status of the client in use is how far its WebSocket is.
StatusFollows ==
  client # NoClient =>
    /\ phase[client] = "connecting" => state = "CONNECTING"
    /\ phase[client] = "open" => state = "AUTHENTICATING"
    /\ phase[client] = "authed" => state = "READY"

StatusInv == TypeOK /\ OneAtWork /\ InTurn /\ StatusFollows

\* A step after which no more is at work than before.
LEMMA NoMoreAtWork ==
  ASSUME OneAtWork,
         \A c \in Clients : Busy(c)' => Busy(c),
         \A t \in Tasks : tasks'[t] # "free" => tasks[t] # "free",
         pc'[Main] = "connect" => pc[Main] = "connect"
  PROVE  OneAtWork'
  BY DEF OneAtWork

\* connect() when nothing else is at work: one client is, and it is shown.
LEMMA ConnectAlone ==
  ASSUME StatusInv, Connect, \A c \in Clients : ~Busy(c),
         \A t \in Tasks : tasks'[t] = "free",
         pc'[Main] # "connect",
         \A c \in Clients : pc'[c] = pc[c]
  PROVE  /\ OneAtWork' /\ StatusFollows'
         /\ \A c \in Clients : phase'[c] # "closed" => pc'[c] = "idle"
<1> USE DEF StatusInv, TypeOK
<1>1. PICK c \in Clients : /\ phase[c] = "closed" /\ pc[c] = "idle"
                           /\ client' = c /\ state' = "CONNECTING"
                           /\ phase' = [phase EXCEPT ![c] = "connecting"]
  BY DEF Connect, IsOpen, Busy
<1>2. phase'[c] = "connecting" /\ \A d \in Clients \ {c} : phase'[d] = phase[d]
  BY <1>1
<1>3. \A d \in Clients : Busy(d)' => d = c
  BY <1>2 DEF Busy
<1>4. OneAtWork'
  BY <1>3 DEF OneAtWork
<1>5. StatusFollows'
  BY <1>1, <1>2 DEF StatusFollows
<1>6. \A d \in Clients : phase'[d] # "closed" => pc'[d] = "idle"
  BY <1>1, <1>2 DEF Busy
<1> QED
  BY <1>4, <1>5, <1>6

\* The callbacks of a client concern the client in use, as no other is busy.
LEMMA CallbackStatus ==
  ASSUME StatusInv, NEW c \in Clients, Callback(c)
  PROVE  StatusInv'
<1> USE DEF StatusInv
<1>0. TypeOK'
  BY NextTypeOK DEF Next
<1>1. phase[c] # "closed" /\ pc[c] = "idle" /\ \A d \in Clients \ {c} : phase'[d] = phase[d]
  BY DEF Callback, Opens, Authenticated, Rejected, Closed, Alive, InTurn, TypeOK
<1>2. \A d \in Clients \ {c} : phase[d] = "closed"
  BY <1>1 DEF OneAtWork, Busy
<1>3. /\ tasks' = tasks /\ client' = client /\ enabled' = enabled
      /\ \A x \in Threads \ {c} : pc'[x] = pc[x]
  BY DEF Callback, Opens, Authenticated, Rejected, Closed, taskVars, config, Go, TypeOK
<1>4. OneAtWork'
  <2>1. \A d \in Clients : Busy(d)' => Busy(d)
    BY <1>1, <1>3 DEF Busy, Threads
  <2>2. pc'[Main] = pc[Main]
    BY <1>3 DEF Threads
  <2> QED
    BY <1>3, <2>1, <2>2, NoMoreAtWork
<1>5. phase'[c] # "closed" => pc'[c] = "idle"
  BY <1>1 DEF Callback, Opens, Authenticated, Rejected, Closed, TypeOK
<1>6. InTurn'
  <2>1. \A d \in Clients : phase'[d] # "closed" => pc'[d] = "idle"
    BY <1>1, <1>2, <1>5
  <2>2. pc'[Main] = pc[Main]
    BY <1>3 DEF Threads
  <2> QED
    BY <1>3, <2>1, <2>2 DEF InTurn, Locked
<1>7. StatusFollows'
  <2>1. CASE client = c
    <3>1. CASE Opens(c)
      BY <1>3, <2>1, <3>1 DEF Opens, StatusFollows, TypeOK
    <3>2. CASE Authenticated(c)
      BY <1>3, <2>1, <3>2 DEF Authenticated, StatusFollows, TypeOK
    <3>3. CASE Rejected(c) \/ Closed(c)
      BY <1>3, <2>1, <3>3 DEF Rejected, Closed, StatusFollows, TypeOK
    <3> QED
      BY <3>1, <3>2, <3>3 DEF Callback
  <2>2. CASE client # c
    BY <1>1, <1>2, <1>3, <2>2 DEF StatusFollows, TypeOK
  <2> QED
    BY <2>1, <2>2
<1> QED
  BY <1>0, <1>4, <1>6, <1>7

\* A thread that cancels, or is about to.
LEMMA CancelStatus ==
  ASSUME StatusInv, NEW x \in Threads, CancelStep(x)
  PROVE  StatusInv'
<1> USE DEF StatusInv
<1>0. TypeOK'
  BY NextTypeOK DEF Next, ThreadStep
<1>1. /\ UNCHANGED <<config, client, phase, state>>
      /\ pc[x] \in {"check", "cancel", "forget", "reset"}
      /\ \A y \in Threads \ {x} : pc'[y] = pc[y]
      /\ pc'[x] # "connect"
      /\ x = Main => pc'[x] \in {"idle", "cancel", "forget", "reset", "close"}
  <2>1. CASE Check(x)
    BY <2>1 DEF Check, Go, TypeOK
  <2>2. CASE Cancel(x) \/ CancelThrows(x)
    BY <2>2 DEF Cancel, CancelThrows, Go, TypeOK
  <2>3. CASE Forget(x) \/ Reset(x)
    BY <2>3 DEF Forget, Reset, Go, TypeOK
  <2> QED
    BY <2>1, <2>2, <2>3 DEF CancelStep
<1>2. \A t \in Tasks : tasks'[t] # "free" => tasks[t] # "free"
  BY DEF CancelStep, Check, Cancel, CancelThrows, TasksAfter, Forget, Reset, taskVars, TypeOK
<1>3. OneAtWork'
  <2>1. \A c \in Clients : Busy(c)' => Busy(c)
    BY <1>1 DEF Busy, Threads
  <2>2. pc'[Main] = "connect" => pc[Main] = "connect"
    BY <1>1 DEF Threads
  <2> QED
    BY <1>2, <2>1, <2>2, NoMoreAtWork
<1>4. InTurn'
  <2>1. \A c \in Clients : phase'[c] # "closed" => pc'[c] = "idle"
    BY <1>1 DEF InTurn, Threads
  <2>2. Locked' => Locked
    BY <1>1 DEF Locked, Threads
  <2> QED
    BY <1>1, <2>1, <2>2 DEF InTurn, config
<1>5. StatusFollows'
  BY <1>1 DEF StatusFollows
<1> QED
  BY <1>0, <1>3, <1>4, <1>5

\* The other steps of a client's thread: its client is closed, so none is in
\* use; what it has to do goes over to a task.
LEMMA RescheduleStatus ==
  ASSUME StatusInv, NEW c \in Clients, Mark(c) \/ Assign(c)
  PROVE  StatusInv'
<1> USE DEF StatusInv
<1>0. TypeOK'
  BY NextTypeOK DEF Next, ThreadStep, Threads
<1>1. /\ pc[c] # "idle"
      /\ \A d \in Clients : phase[d] = "closed"
      /\ \A d \in Clients \ {c} : pc[d] = "idle"
      /\ \A t \in Tasks : tasks[t] = "free"
      /\ pc[Main] # "connect"
  BY DEF Mark, Assign, OneAtWork, InTurn, Busy
<1>2. /\ UNCHANGED <<config, client, phase>>
      /\ \A y \in Threads \ {c} : pc'[y] = pc[y]
  BY DEF Mark, Assign, Go, TypeOK
<1>3. pc'[Main] = pc[Main]
  BY <1>2 DEF Threads
<1>4. OneAtWork'
  <2>1. CASE Mark(c)
    <3>1. \A d \in Clients : Busy(d)' => Busy(d)
      BY <1>1, <1>2 DEF Busy, Threads
    <3>2. tasks' = tasks
      BY <2>1 DEF Mark, taskVars
    <3> QED
      BY <1>3, <3>1, <3>2, NoMoreAtWork
  <2>2. CASE Assign(c)
    <3>1. \A d \in Clients : ~Busy(d)'
      BY <1>1, <1>2, <2>2 DEF Busy, Assign, Go, Threads, TypeOK
    <3>2. \A t, u \in Tasks : tasks'[t] # "free" /\ tasks'[u] # "free" => t = u
      <4>1. tasks' = tasks \/ \E t : tasks' = [tasks EXCEPT ![t] = "pending"]
        BY <2>2 DEF Assign, taskVars
      <4>2. CASE tasks' = tasks
        BY <1>1, <4>2
      <4>3. ASSUME NEW t, tasks' = [tasks EXCEPT ![t] = "pending"]
            PROVE  \A u \in Tasks : tasks'[u] # "free" => u = t
        BY <1>1, <4>3 DEF TypeOK
      <4> QED
        BY <4>1, <4>2, <4>3
    <3> QED
      BY <1>1, <1>3, <3>1, <3>2 DEF OneAtWork
  <2> QED
    BY <2>1, <2>2
<1>5. InTurn'
  BY <1>1, <1>2, <1>3 DEF InTurn, Locked, config
<1>6. StatusFollows'
  BY <1>1, <1>2 DEF StatusFollows, TypeOK
<1> QED
  BY <1>0, <1>4, <1>5, <1>6

\* The main thread, a task, and onDisable.
LEMMA OtherStatus ==
  ASSUME StatusInv, commands = 0, commands' = 0,
         \/ Close \/ MainConnects \/ Commands
         \/ \E t \in Tasks : TaskStep(t)
         \/ UNCHANGED vars
  PROVE  StatusInv'
<1> USE DEF StatusInv
<1>0. TypeOK'
  BY NextTypeOK DEF Next, ThreadStep, Threads
<1>1. CASE Close
  <2>1. /\ ~enabled /\ enabled' = enabled /\ client' = NoClient /\ pc'[Main] = "idle"
        /\ \A c \in Clients : pc'[c] = pc[c]
        /\ \A t \in Tasks : tasks'[t] # "free" => tasks[t] # "free"
    BY <1>1 DEF Close, InTurn, Locked, Go, TasksAfter, TypeOK, Threads, config
  <2>2. \A c \in Clients : phase'[c] # "closed" => phase[c] # "closed"
    <3>1. CASE client = NoClient
      BY <1>1, <3>1 DEF Close
    <3>2. CASE client # NoClient
      <4>1. PICK p \in PhaseAfterClose(client) : phase' = [phase EXCEPT ![client] = p]
        BY <1>1, <3>2 DEF Close
      <4>2. p # "closed" => phase[client] # "closed"
        BY <4>1 DEF PhaseAfterClose, IsOpen
      <4> QED
        BY <4>1, <4>2 DEF TypeOK
    <3> QED
      BY <3>1, <3>2
  <2>3. \A c \in Clients : Busy(c)' => Busy(c)
    BY <2>1, <2>2 DEF Busy
  <2>4. OneAtWork'
    BY <2>1, <2>3, NoMoreAtWork
  <2>5. InTurn' /\ StatusFollows'
    BY <2>1, <2>2 DEF InTurn, Locked, StatusFollows
  <2> QED
    BY <1>0, <2>4, <2>5
<1>2. CASE MainConnects
  <2>1. /\ \A c \in Clients : ~Busy(c) /\ pc'[c] = pc[c]
        /\ \A t \in Tasks : tasks'[t] = "free"
        /\ pc'[Main] = "idle" /\ Connect
    BY <1>2 DEF MainConnects, OneAtWork, Go, taskVars, TypeOK, Threads
  <2>2. OneAtWork' /\ StatusFollows' /\ \A c \in Clients : phase'[c] # "closed" => pc'[c] = "idle"
    BY <2>1, ConnectAlone
  <2> QED
    BY <1>0, <2>1, <2>2 DEF InTurn, Locked
<1>3. CASE Commands
  <2>1. /\ Disable /\ enabled' = FALSE /\ pc'[Main] = "check"
        /\ \A c \in Clients : pc'[c] = pc[c]
        /\ UNCHANGED <<client, phase, state, tasks>>
    BY <1>3 DEF Commands, ReconnectCommand, Disable, Go, taskVars, TypeOK, Threads
  <2>2. \A c \in Clients : Busy(c)' => Busy(c)
    BY <2>1 DEF Busy
  <2>3. OneAtWork'
    BY <2>1, <2>2, NoMoreAtWork
  <2> QED
    BY <1>0, <2>1, <2>3 DEF InTurn, StatusFollows
<1>4. ASSUME NEW t \in Tasks, Fire(t) PROVE StatusInv'
  <2>1. /\ UNCHANGED <<config, client, phase, pc>>
        /\ \A u \in Tasks : tasks'[u] # "free" => tasks[u] # "free"
        /\ tasks[t] # "free"
    BY <1>4 DEF Fire, TypeOK
  <2>2. \A c \in Clients : phase[c] = "closed"
    BY <2>1 DEF OneAtWork, Busy
  <2>3. \A c \in Clients : Busy(c)' => Busy(c)
    BY <2>1 DEF Busy
  <2>4. OneAtWork'
    BY <2>1, <2>3, NoMoreAtWork
  <2>5. InTurn' /\ StatusFollows'
    BY <2>1, <2>2 DEF InTurn, Locked, config, StatusFollows, TypeOK
  <2> QED
    BY <1>0, <2>4, <2>5
<1>5. ASSUME NEW t \in Tasks, TaskConnects(t) PROVE StatusInv'
  <2>1. /\ \A c \in Clients : ~Busy(c) /\ pc'[c] = pc[c]
        /\ \A u \in Tasks : tasks'[u] = "free"
        /\ pc'[Main] = pc[Main] /\ pc[Main] # "connect" /\ Connect
        /\ enabled' = enabled
    BY <1>5 DEF TaskConnects, OneAtWork, config, TypeOK, Threads
  <2>2. OneAtWork' /\ StatusFollows' /\ \A c \in Clients : phase'[c] # "closed" => pc'[c] = "idle"
    BY <2>1, ConnectAlone
  <2> QED
    BY <1>0, <2>1, <2>2 DEF InTurn, Locked
<1>6. CASE UNCHANGED vars
  BY <1>0, <1>6 DEF vars, OneAtWork, Busy, InTurn, Locked, StatusFollows
<1> QED
  BY <1>1, <1>2, <1>3, <1>4, <1>5, <1>6 DEF TaskStep

\* No reconnect command has been given.
NoCommand == commands = 0

\* Without the reconnect command the types, the turns and the status hold in
\* every reachable state.
LEMMA StatusInvariant == Spec /\ []NoCommand => []StatusInv
<1>1. Init => StatusInv
  <2> SUFFICES ASSUME Init PROVE StatusInv
    OBVIOUS
  <2>1. /\ \A c \in Clients : ~Busy(c) /\ phase[c] = "closed"
        /\ \A t \in Tasks : tasks[t] = "free"
        /\ pc[Main] = "connect" /\ client = NoClient
    BY DEF Init, Busy, Threads
  <2> QED
    BY <2>1, InitTypeOK DEF StatusInv, OneAtWork, InTurn, Locked, StatusFollows
<1>2. ASSUME StatusInv, [Next]_vars, NoCommand, NoCommand' PROVE StatusInv'
  BY <1>2, CallbackStatus, CancelStatus, RescheduleStatus, OtherStatus
     DEF Next, ThreadStep, NoCommand
<1> QED
  BY <1>1, <1>2, PTL DEF Spec

\* Reconnecting alone never makes a second connection beside the first, nor a
\* second task, whatever is lost, rejected or closed in between.
THEOREM OneConnectionWithoutTheCommand == Spec /\ []NoCommand => []OneAtWork
<1>1. StatusInv => OneAtWork
  BY DEF StatusInv
<1> QED
  BY <1>1, StatusInvariant, PTL

\* StatusIsShown fails by the late close of a client that the reconnect command
\* has replaced.  Without the command it holds, through losses, rejections,
\* reconnects and the end of the plugin: there is one client at a time, and the
\* status is how far its WebSocket is.
THEOREM StatusIsShownWithoutTheCommand == Spec /\ []NoCommand => []StatusIsShown
<1>1. StatusInv => StatusIsShown
  BY DEF StatusInv, StatusFollows, StatusIsShown
<1> QED
  BY <1>1, StatusInvariant, PTL
=============================================================================
