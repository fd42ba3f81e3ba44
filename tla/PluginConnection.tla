-------------------------- MODULE PluginConnection --------------------------
(***************************************************************************)
(* The plugin's end of the tunnel: GatewayConnection, ReconnectManager and *)
(* the reconnect command, thread by thread.                                *)
(*                                                                         *)
(* Every WebSocket client calls back on a thread of its own, the scheduler *)
(* runs each reconnect task on another, and commands run on the main       *)
(* thread.  connect and disconnect hold the lock of GatewayConnection;     *)
(* scheduleReconnect holds none, so its steps interleave with everything.  *)
(***************************************************************************)
EXTENDS Integers, FiniteSets

CONSTANTS
  Clients,    \* WebSocket clients, each with its callback thread
  Tasks,      \* reconnect tasks that are scheduled, running or referred to
  MaxCommands,  \* bound on the reconnect commands
  Main,       \* the main thread of the server
  NoClient, NoTask

ASSUME PluginAssumption ==
  /\ MaxCommands \in Nat
  /\ Main \notin Clients /\ NoClient \notin Clients /\ NoTask \notin Tasks

VARIABLES
  enabled,         \* the plugin is enabled
  reconnect,       \* config.isReconnect()
  client,          \* GatewayConnection.client
  phase,           \* how far the WebSocket of each client is
  state,           \* ReconnectManager.currentState, what the status shows
  isReconnecting,
  reconnectTask,
  tasks,           \* per task: pending, running, or free when it is over
  cancelled,       \* reconnectTask.isCancelled()
  pc,              \* where each thread stands
  commands         \* reconnect commands so far

vars == <<enabled, reconnect, client, phase, state, isReconnecting, reconnectTask,
          tasks, cancelled, pc, commands>>
taskVars == <<reconnectTask, tasks, cancelled>>
config == <<enabled, reconnect, commands>>

Threads == Clients \cup {Main}
States == {"DISCONNECTED", "CONNECTING", "AUTHENTICATING", "READY", "RECONNECTING"}
Phases == {"closed", "connecting", "open", "authed", "closing"}
Steps == {"idle", "mark", "check", "cancel", "forget", "reset", "assign", "close", "connect"}

TypeOK ==
  /\ enabled \in BOOLEAN /\ reconnect \in BOOLEAN
  /\ client \in Clients \cup {NoClient}
  /\ phase \in [Clients -> Phases]
  /\ state \in States
  /\ isReconnecting \in BOOLEAN
  /\ reconnectTask \in Tasks \cup {NoTask}
  /\ tasks \in [Tasks -> {"free", "pending", "running"}]
  /\ cancelled \in BOOLEAN
  /\ commands \in 0..MaxCommands
  /\ pc \in [Threads -> Steps]

Init ==
  /\ enabled = TRUE /\ reconnect \in BOOLEAN
  /\ client = NoClient /\ phase = [c \in Clients |-> "closed"]
  /\ state = "DISCONNECTED"
  /\ isReconnecting = FALSE /\ reconnectTask = NoTask
  /\ tasks = [t \in Tasks |-> "free"] /\ cancelled = FALSE /\ commands = 0
  /\ pc = [x \in Threads |-> IF x = Main THEN "connect" ELSE "idle"]

-----------------------------------------------------------------------------
IsOpen(c) == phase[c] \in {"open", "authed"}
Alive(c) == phase[c] \in {"connecting", "open", "authed"}
Go(x, step) == pc' = [pc EXCEPT ![x] = step]

\* disconnect holds the lock of GatewayConnection over several steps.
Locked == pc[Main] \in {"check", "cancel", "forget", "reset", "close"}

\* connect().  A client that is gone and that nothing refers to is as good as
\* a new one.
Connect ==
  /\ ~Locked
  /\ IF client # NoClient /\ IsOpen(client)
     THEN UNCHANGED <<client, phase, state>>
     ELSE \E c \in Clients :
            /\ phase[c] = "closed" /\ pc[c] = "idle"
            /\ client' = c
            /\ phase' = [phase EXCEPT ![c] = "connecting"]
            /\ state' = "CONNECTING"

\* The end of onEnable, or of the reconnect command.
MainConnects ==
  /\ pc[Main] = "connect"
  /\ Connect
  /\ Go(Main, "idle")
  /\ UNCHANGED <<config, isReconnecting, taskVars>>

-----------------------------------------------------------------------------
\* The callbacks of a client.
Opens(c) ==
  /\ phase[c] = "connecting"
  /\ phase' = [phase EXCEPT ![c] = "open"]
  /\ state' = "AUTHENTICATING"
  /\ UNCHANGED <<config, client, isReconnecting, taskVars, pc>>

Authenticated(c) ==
  /\ phase[c] = "open"
  /\ phase' = [phase EXCEPT ![c] = "authed"]
  /\ state' = "READY"
  /\ UNCHANGED <<config, client, isReconnecting, taskVars, pc>>

Rejected(c) ==
  /\ phase[c] = "open"
  /\ phase' = [phase EXCEPT ![c] = "closing"]
  /\ UNCHANGED <<config, client, state, isReconnecting, taskVars, pc>>

\* onClose up to the compareAndSet of scheduleReconnect.  It does not ask which
\* client it comes from.
Closed(c) ==
  /\ Alive(c) \/ phase[c] = "closing"
  /\ phase' = [phase EXCEPT ![c] = "closed"]
  /\ \/ /\ ~reconnect
        /\ state' = "DISCONNECTED"
        /\ UNCHANGED <<isReconnecting, pc>>
     \/ /\ reconnect /\ ~isReconnecting
        /\ isReconnecting' = TRUE
        /\ Go(c, "mark")
        /\ UNCHANGED state
     \/ /\ reconnect /\ isReconnecting
        /\ UNCHANGED <<state, isReconnecting, pc>>
  /\ UNCHANGED <<config, client, taskVars>>

\* The rest of scheduleReconnect.
Mark(c) ==
  /\ pc[c] = "mark"
  /\ state' = "RECONNECTING"
  /\ Go(c, "check")
  /\ UNCHANGED <<config, client, phase, isReconnecting, taskVars>>

FreeTasks == {t \in Tasks \ {reconnectTask} : tasks[t] = "free"}

\* runTaskLaterAsynchronously throws once the plugin is disabled.
Assign(c) ==
  /\ pc[c] = "assign"
  /\ Go(c, "idle")
  /\ \/ /\ ~enabled
        /\ UNCHANGED taskVars
     \/ /\ enabled /\ FreeTasks # {}
        /\ LET t == CHOOSE u \in FreeTasks : TRUE IN
             /\ reconnectTask' = t
             /\ tasks' = [tasks EXCEPT ![t] = "pending"]
        /\ cancelled' = FALSE
  /\ UNCHANGED <<config, client, phase, state, isReconnecting>>

-----------------------------------------------------------------------------
\* cancelReconnectTask, on the thread of a client or on the main thread.
Check(x) ==
  /\ pc[x] = "check"
  /\ Go(x, IF reconnectTask # NoTask /\ ~cancelled
           THEN "cancel" ELSE "reset")
  /\ UNCHANGED <<config, client, phase, state, isReconnecting, taskVars>>

\* cancel() keeps a pending task from running; nothing stops one that runs.
Cancel(x) ==
  /\ pc[x] = "cancel" /\ reconnectTask # NoTask
  /\ cancelled' = TRUE
  /\ tasks' = [tasks EXCEPT ![reconnectTask] = IF @ = "pending" THEN "free" ELSE @]
  /\ Go(x, "forget")
  /\ UNCHANGED <<config, client, phase, state, isReconnecting, reconnectTask>>

\* Seeded bug: the scheduler drops the tasks that have not run.
TasksForgotten(isEnabled) ==
  IF isEnabled THEN tasks ELSE [t \in {u \in Tasks : tasks[u] # "pending"} |-> tasks[t]]
\* The tasks of a disabled plugin are cancelled by the scheduler.
TasksAfter(isEnabled) ==
  IF isEnabled THEN tasks
  ELSE [t \in Tasks |-> IF tasks[t] = "pending" THEN "free" ELSE tasks[t]]

\* Another thread has set the field to null since the check: the exception
\* ends the callback, the command or onDisable.
CancelThrows(x) ==
  /\ pc[x] = "cancel" /\ reconnectTask = NoTask
  /\ Go(x, "idle")
  /\ tasks' = IF x = Main THEN TasksAfter(enabled) ELSE tasks
  /\ UNCHANGED <<config, client, phase, state, isReconnecting, reconnectTask, cancelled>>

Forget(x) ==
  /\ pc[x] = "forget"
  /\ reconnectTask' = NoTask
  /\ cancelled' = FALSE
  /\ Go(x, "reset")
  /\ UNCHANGED <<config, client, phase, state, isReconnecting, tasks>>

\* Seeded bug: cancelReconnectTask leaves the flag to the task it cancels.
FlagKept == isReconnecting
FlagAfterCancel == FALSE

Reset(x) ==
  /\ pc[x] = "reset"
  /\ isReconnecting' = FlagAfterCancel
  /\ Go(x, IF x = Main THEN "close" ELSE "assign")
  /\ UNCHANGED <<config, client, phase, state, taskVars>>

-----------------------------------------------------------------------------
\* A reconnect task up to connectAction.run().
Fire(t) ==
  /\ tasks[t] = "pending"
  /\ tasks' = [tasks EXCEPT ![t] = "running"]
  /\ isReconnecting' = FALSE
  /\ state' = "CONNECTING"
  /\ UNCHANGED <<config, client, phase, reconnectTask, cancelled, pc>>

TaskConnects(t) ==
  /\ tasks[t] = "running"
  /\ Connect
  /\ tasks' = [tasks EXCEPT ![t] = "free"]
  /\ UNCHANGED <<config, isReconnecting, reconnectTask, cancelled, pc>>

-----------------------------------------------------------------------------
\* The reconnect command: disconnect, then connect.
ReconnectCommand ==
  /\ enabled /\ pc[Main] = "idle"
  /\ commands < MaxCommands
  /\ commands' = commands + 1
  /\ Go(Main, "check")
  /\ UNCHANGED <<enabled, reconnect, client, phase, state, isReconnecting, taskVars>>

\* onDisable; the server marks the plugin disabled before.
Disable ==
  /\ enabled /\ pc[Main] = "idle"
  /\ enabled' = FALSE
  /\ Go(Main, "check")
  /\ UNCHANGED <<reconnect, commands, client, phase, state, isReconnecting, taskVars>>

\* close() has no effect on a client whose TCP connection is not there yet.
PhaseAfterClose(c) ==
  CASE IsOpen(c)               -> {"closing"}
    [] phase[c] = "connecting" -> {"closing", "connecting"}
    [] OTHER                   -> {phase[c]}

\* The rest of disconnect.
Close ==
  /\ pc[Main] = "close"
  /\ IF client = NoClient THEN UNCHANGED phase
     ELSE \E p \in PhaseAfterClose(client) : phase' = [phase EXCEPT ![client] = p]
  /\ client' = NoClient
  /\ state' = "DISCONNECTED"
  /\ Go(Main, IF enabled THEN "connect" ELSE "idle")
  /\ tasks' = TasksAfter(enabled)
  /\ UNCHANGED <<config, isReconnecting, reconnectTask, cancelled>>

-----------------------------------------------------------------------------
Callback(c) == Opens(c) \/ Authenticated(c) \/ Rejected(c) \/ Closed(c)
CancelStep(x) == Check(x) \/ Cancel(x) \/ CancelThrows(x) \/ Forget(x) \/ Reset(x)
ThreadStep(x) == CancelStep(x) \/ (x \in Clients /\ (Mark(x) \/ Assign(x)))
                   \/ (x = Main /\ (Close \/ MainConnects))
TaskStep(t) == Fire(t) \/ TaskConnects(t)
Commands == ReconnectCommand \/ Disable

Next ==
  \/ \E c \in Clients : Callback(c)
  \/ \E x \in Threads : ThreadStep(x)
  \/ \E t \in Tasks : TaskStep(t)
  \/ Commands

Spec == Init /\ [][Next]_vars

\* Threads run, the scheduler runs its tasks, and a connection attempt or a
\* closing handshake comes to an end.
Fairness ==
  /\ \A x \in Threads : WF_vars(ThreadStep(x))
  /\ \A t \in Tasks : WF_vars(TaskStep(t))
  /\ \A c \in Clients : WF_vars(phase[c] \in {"connecting", "closing"} /\ Callback(c))
FairSpec == Spec /\ Fairness

-----------------------------------------------------------------------------
AtRest == (\A x \in Threads : pc[x] = "idle") /\ (\A t \in Tasks : tasks[t] \notin {"pending", "running"})

\* A plugin that should reconnect is never left without a connection and
\* without a task, though its threads share the flag and the task without a
\* lock: when no thread is at work and no task is scheduled, some client is
\* connected, is connecting, or has its close event to come.
NeverStranded ==
  enabled /\ reconnect /\ AtRest => \E c \in Clients : Alive(c) \/ phase[c] = "closing"

\* After a loss the plugin is connected, or connecting, again.
ComesBack ==
  (reconnect /\ \A c \in Clients : ~Alive(c)) ~> (~enabled \/ \E c \in Clients : Alive(c))

\* The status command shows the connection of the plugin: an authenticated
\* connection in use, with nothing left to happen, is shown as READY.
StatusIsShown ==
  AtRest /\ client # NoClient /\ phase[client] = "authed"
    /\ (\A c \in Clients \ {client} : phase[c] = "closed")
  => state = "READY"
=============================================================================
