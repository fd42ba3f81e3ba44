# A TLA+ model of NightSFTP

NightSFTP lets users edit the files of Minecraft servers over SFTP although those servers open no
port. A **gateway** (Node.js, `src/gateway`) speaks SFTP to the users. A **plugin** (Java,
`src/plugin`) in every Minecraft server opens an outbound WebSocket, the *tunnel*, to the gateway and
carries out on its file system what the gateway asks for.

```
              +-- ssh2 --> SftpServer --> SftpSessionHandler --checkPermission--> PermissionManager --> GatewayDatabase
              |               |                |      ^                                 ^                  ^
 port --> demultiplexer       v     sendRequest|      |agent_unregistered               +------ CLI -------+
              |          AuditLogger           v      |
              +-- http --> AgentConnection / AgentRegistry <== WebSocket ==> GatewayConnection / ReconnectManager
                                       (disk-space cache)                          |          |
                                                                     FileTransferService  FileService
```

Paths below are relative to `src/gateway/src/` and, for Java, to
`src/plugin/src/main/java/com/nightmission/nightsftp/`.

## 1. Inventory

| Part | State | Operations | What makes it correct | Status |
|---|---|---|---|---|
| Agent tunnels: `index.ts` 53-120, `agents/registry.ts`, `agents/connection.ts` | sockets, `currentConnection` per socket, `activeAgents`, `pendingRequests` per connection | upgrade, `auth`, close event, `sendRequest`, response, 30 s timer | one live connection per agent; every promise settled exactly once; dead connections leave the registry | **modelled**: `AgentTunnel` implements `TunnelService` |
| Accounts and permissions: `db/database.ts`, `security/permissions.ts`, `cli/terminal.ts` | three SQLite tables, `userPermissionsCache` | CLI commands, lazy reload, start, crash | the cache decides as the table does; the closest rule wins; a deleted account loses access | **modelled** except for secrets: `PermissionStore` |
| SFTP session: `sftp/session.ts` | `handles`, `handleCounter`, the handlers that are suspended at an `await` | 18 SFTP requests, `agent_unregistered` | every call gets its own answer; rights at the moment of use; handles bounded and not outliving their agent | **modelled**: `SftpSession`, `DiskSpaceCache` over `TunnelService` |
| Disk-space cache: `registry.ts` 46-88, STATVFS | `diskCache` with time stamps, the calls that fill it | lookup, fill after an await, sum over servers, delete | nothing cached of an agent that is gone; never served beyond its time; every call answered | **modelled**: `DiskSpaceCache` |
| Demultiplexer and SSH server: `index.ts` 122-205, `sftp/server.ts` | per socket: stage, timer, server behind; per SSH connection: who logged in | first bytes, 40 ms timer, dial, login, channel, end, error | a connection is forwarded once and in order; what is logged belongs to a login | **modelled**: `FrontDoor` |
| Audit log: `logging/audit.ts` | queue, `isWriting`, size, files, compressions | log, append callback, rotation, compression, cleaning, start, exit | entries are written once, in order, and stay; an exit loses the newest only; the compressed archives are bounded | **modelled**: `AuditLog`, composed with `FrontDoor` |
| Chunk transfers: `filesystem/FileTransferService.java` | pool of 4 threads, one lock per path, files | `readChunk`, `writeChunk`, `shutdown` | a chunk takes effect at one instant; a lock is never left behind; acknowledged data stays | **modelled**: `FileTransfer` implements `AtomicFile` |
| Plugin connection: `connection/GatewayConnection.java`, `ReconnectManager.java`, the `reconnect` command, `onDisable` | `client`, `isReconnecting`, `reconnectTask`, `currentState`, threads | connect, disconnect, WebSocket callbacks, scheduled reconnect | comes back after a loss whatever its threads interleave; the reported status is the real one | **modelled** except `reload`: `PluginConnection` |
| File operations: `filesystem/FileService.java` | pool of 4 threads | list, stat, mkdir, rmdir, delete, rename | | not modelled (section 6) |
| Paths: `SafePathResolver.java`, `sanitizePath`, `parseVirtualPath` | none | pure | a resolved path is below the root; the path checked is the path used | not modelled (section 6) |
| Wire protocol, configuration, handshake message; `auth/auth.ts`, `security/rateLimit.ts` | | | | not modelled (section 6) |

Node runs one event handler at a time. What can be interleaved in the gateway is what stands on the
two sides of an `await`, a timer or a callback, and the order in which events arrive. The plugin is
multi-threaded. The behaviours that are hard to test are listed with their lines in `PROJECT.json`
(`hazards`): close events that come after the reconnect, answers that come after the timeout, calls
that wait while rights change or agents disappear, caches that outlive what they were made from, an
exit between an append and its callback, a crash between two statements, threads that share a flag
and a field without a lock, system calls of four workers on one file.

## 2. Modules

| Module | Stands for | Uses |
|---|---|---|
| `TunnelService` | what sessions may rely on: an agent is online or not, a request settles once with an answer, TIMEOUT or AGENT_OFFLINE, none is left on an agent that is gone | |
| `AgentTunnel` | the sockets, connections and registry behind it | `TunnelService` through `INSTANCE` (refinement) |
| `PermissionStore` | tables, cache and CLI commands | |
| `SftpSession` | one session, composed with the tunnels | `TunnelService` |
| `DiskSpaceCache` | STATVFS and the cache it fills, composed with the tunnels | `TunnelService` |
| `AuditLog` | the audit log, its files, exit and restart | |
| `FrontDoor` | the port, the SSH server and what it logs, composed with the log | `AuditLog` |
| `AtomicFile` | what chunk requests promise: each takes effect at one instant | |
| `FileTransfer` | the worker pool, the locks and the system calls behind it | `AtomicFile` (state and helpers; refinement) |
| `PluginConnection` | the plugin's connection and its reconnects, thread by thread | |
| `...Proofs` | theorems about the module they name | that module, TLAPS; `FrontDoorProofs` also `AuditLogProofs` |
| `MC...` | constants for TLC | the module they name |

`SftpSession` and `DiskSpaceCache` are checked over the abstract `TunnelService`. `AgentTunnel` is
proved to implement it and both of them are proved to use it as it allows (`SessionUsesTheTunnels`,
`CacheUsesTheTunnels`), so what holds of the session holds over the sockets. `FrontDoor` uses
`AuditLog` by its actions, and `GatewayUsesTheLog` proves that every behaviour of the composition is
one of `AuditLog`. Operators marked "Seeded bug" are not part of any specification: each is the
mistake one of the properties is there to find, kept next to the definition it would replace so that
the property can be tested against it.

### AgentTunnel
A socket is a slot that can be used again once it is closed for good; `readyState` is the gateway's
view of it. `AuthAccept` is the whole of the `auth` branch of `ws.on('message')`, including
`registerAgent` and the `close()` of the connection it replaces; `SocketClosed` is the whole
`ws.on('close')` with `unregisterAgent`. Promises are the `outcome` of a request id. `inFlight`
stands for the network and the plugin: a request that was sent may be answered as long as the socket
delivers messages, also after its promise was settled. An agent may authenticate with any valid id;
a second `auth` on one socket is left out because the plugin sends one per socket
(`GatewayConnection.onOpen`).

### PermissionStore
`permissions` is the table by its unique key. `cache[u][s]` is the list of rules; a user that is not
in the map has empty lists, and `LazyReload` is the reload that a check does for such a user. The
order in which SQLite returns rows is not fixed, so a reload yields any list that is sorted by path
length (`RuleLists`). `Restart` is a start on the tables as they are, with the default account;
`RestartInDeleteUser` a crash between the two `DELETE`s. Paths are values with a length and a
relation `Covers`; trimming and slashes are normalised before both the table and the check.

### SftpSession
A slot of `Requests` is a call of the client together with the tunnel request its handler waits for.
Everything up to the `await` is one action, and what follows it happens in the step that settles the
promise (`AfterAwait`): when the agent answers, the timer fires or the connection is closed.
`profile` is what the permission manager says of this user; `ChangeProfile` changes it between any
two steps. Names, attributes, file contents and the audit log are abstracted. STATVFS and FSTATVFS
are in `DiskSpaceCache`.

### DiskSpaceCache
A call of the client asks the servers in `left` one after the other: `Turn` is one
`getAgentDiskSpace`, from the cache, the default of an agent that is offline or lacks the capability,
or a request it awaits; `Resume` is what follows the await, and writes the cache whether or not the
agent is still registered. A space is not a number but when it was measured; `ages` collects how old
the measurements of a call were at their lookup. What follows an await is a microtask and runs before
the next event handler: `Quiet` says so in the guards of those. Several answers may come in one chunk
of data, so `AgentAnswers` does not ask for `Quiet`; a STATVFS in the same chunk as another one is
taken to come after the other's microtasks.

### AuditLog and FrontDoor
An entry is its number in the order of `log()`, of length one. `appends` holds the chunk handed to
`appendFile`; its callback is `AppendDone`, with the rotation it may start, or `AppendFails`, after
which any beginning of the chunk may be in the file. `Rotate` has a case for each of the two
synchronous calls that can throw. The name it draws may be in use, and then the archive of that name
is overwritten (`Hit`). A compression is scheduled, running (the `.gz` is open, so one of the same
name is lost) and then finished, with or without the `unlink`, or failed. `CleanOldArchives` deletes
the surplus of `.gz` files, oldest first, those still being written included (such a job is
`deleted`: its output has no name any more); it may throw, when nothing is deleted, and any of its
`unlink`s may fail. `Exit` stands for `process.exit`, a signal and a crash: of the append under way
any beginning is in the file, the rest is dropped, and a compression under way leaves half a `.gz`.
`Start` is the constructor. `fate` and `begun`, the compressions begun since the last cleaning in
which nothing failed, are history variables.

In `FrontDoor` a client sends numbered chunks. `Receive` is the `data` event at each stage, and
`TimerFires` the 40 ms timer, which stays armed when a client leaves early. The SSH server
understands a client none of whose bytes are missing (`Speaks`); a login, an operation and a
disconnect are each a `Log` of `AuditLog`, and `author` remembers to which login an entry belongs.
`Break` is an end without an entry: no login, a failed dial, or an `error` of ssh2 without an `end`.
`ProcessEnds` is an `Exit` that frees every connection.

Left out of the log: a random number drawn again while the archive of that name is being compressed
(`DrawnNames`), an `unlink` of a cleaning that is carried out later than in its step, and a clock
that goes back.

### FileTransfer
A request carries the program counter of the worker that runs it: queued, checked, under the lock
(locked, sized / opened, truncated, done), unlocked, answered. Checks before the lock, `size()`,
`read()`, open, `truncate()` and `write()` are separate steps. `read()` and `write()` may move any
beginning of what they are given, and the answer is OK with what they moved. `Disturbed` is an
exception at any step under the lock: a full disk, the interrupt of `shutdownNow`, a failing
`close()`; at the write any beginning of the chunk may be in the file by then. Contents are sequences
of blocks, a block is the number of the request that wrote it, and a chunk is `ChunkLength` blocks, so
that it can be written in part. What a call knows of its file is forgotten when it ends (`Return`).
`saved` is a history variable.

### PluginConnection
Every client calls back on its own thread, tasks run on the scheduler's, commands on the main thread.
`connect` and `disconnect` hold the lock of `GatewayConnection` (`Locked`); `scheduleReconnect` and
`cancelReconnectTask` hold none, so each access of theirs to `isReconnecting` and `reconnectTask` is a
step of its own (`Mark`, `Check`, `Cancel` or `CancelThrows`, `Forget`, `Reset`, `Assign`). A task
that is cancelled while it runs goes on. Client and task slots can be used again when nothing refers
to them. An exception of `connect` itself (a malformed address) and `reload`, which makes a new
plugin object, are left out.

## 3. Runs

| Run | Instance | Shows |
|---|---|---|
| `tunnel` | 2 agents, 3 sockets, 2 requests; 54 680 states | `TypeOK`, `OpenIsRegistered`, `WaitingIsPending`, `ImplementsService`, and under fairness `EveryRequestSettles`, `ClosingIsForgotten` |
| `tunnel_staleclose` | 1 agent, 2 sockets | **violated** `UnregisteredMeansDisconnected` (finding 1) |
| `store` | 2 users, 2 servers (symmetric), 2 nested paths, 2 grant tokens, 2 rows | `TypeOK`, `RowsAreCached`, `ChecksFollowRows`, `DeletedUserLosesAccess` |
| `store_stale` | 2 users, 2 servers, 1 row | **violated** `ChecksMatchTable` (finding 2) |
| `session` | 1 server, 2 concurrent calls, 1 handle at a time, 2 handle numbers; 109 722 states | `TypeOK`, `AwaitingIsWaiting`, `HandleQuota`, `FileHandlesAreOnline`, `OneListingPerHandle`, `FileAccessPermitted`, `DropIsReported`, `AcknowledgedByAgent`, and under fairness `EveryCallAnswered` |
| `session_listing` | 1 server, 1 call | **violated** `ListingPermitted` (finding 3) |
| `statvfs` | 2 agents, 2 calls, a time to live of 1, a clock of 2 instants; 515 865 states | `TypeOK`, `MeasuredInTime`, `MeasuredIsOnline`, and under fairness `EveryStatvfsAnswered` |
| `frontdoor` | 1 slot for clients, 2 chunks each; 3 entries, 3 minutes, rotation at 2 entries, a limit of 1 archive and 1 left by an earlier run; 1 936 600 states | `TypeOK`, `TrailInOrder`, `AppendedStays`, `PendingAreNewest`, `ArchivesBounded`, `ForwardedOnce`, `ForwardedInOrder`, `OperationsAreAttributed`, and under fairness `QueueDrains` |
| `chunks` | 3 requests of any kind on one file, chunks of 2 blocks, 2 workers; 656 091 states | `TypeOK`, `LockHolder`, `SizeStillHolds`, `ImplementsAtomicFile`, and under fairness `EveryChunkEnds` |
| `upload` | 3 requests, 4 workers, a client that keeps 2 outstanding | **violated** `AcknowledgedChunkStays` (finding 4) |
| `reconnect` | 3 clients, 4 tasks, 2 reconnect commands; 553 385 states | `TypeOK`, `NeverStranded`, and under fairness `ComesBack` |
| `status` | 2 clients, 2 tasks, 1 command | **violated** `StatusIsShown` (finding 5) |

**Why the bounds are enough.** Three sockets let an agent be replaced twice before the first close
event arrives, or two agents overlap with a third connection attempt. Two requests are what an
argument about "mine and another's" needs. Two rows on two nested paths contain a rule and the one
that overrides it below. Two calls and one handle exercise a full table, a close, a denial that uses
up a number and two READDIRs on one handle. In `statvfs` the time to live of one step lets an entry
expire while a call that would refresh it waits, and the two calls ask the two agents in either
order. In `frontdoor` three entries are enough for an append under way with one entry queued behind
it, for a rotation between two appends, and for three starts, of which the second in a minute meets
an archive of its name and the third cleans one beyond the limit. The archive an earlier run left is
the one that goes, or stays because a cleaning fails, when the first compression is open. Three
requests on one file and two workers contain a reader between two writers and a request that has to
wait for a worker; of a chunk of two blocks, none, a part or the whole is written. Three clients are
the one in use, one closing and one of a task; four tasks are two that run late beside one pending
and one referred to. The theorems of section 5 hold without these bounds.

The bounds in the specifications are constants: `MaxRows`, `MaxHandles`, `MaxCounter`, `MaxTime`,
`MaxEntries`, `MaxMinute`, `Earlier`, `MaxChunks`, `ChunkLength`, `MaxRequests`, `PoolSize`,
`Window`, `MaxCommands`, and the sizes of the sets of slots.

**Deadlock** is checked in all runs but three. After shutdown every chunk request is answered or
dropped and `chunks` asks whether each ends; `Terminated` of `FileTransfer` is the only stop it has.
`reconnect` and `status` stop after `onDisable`, which is final for a plugin object.

**Fairness.**
* `AgentTunnel`: a Node timer that is not cleared fires, and `ws` ends a closing handshake after its
  own timeout, so `Timeout` and `SocketClosed` are weakly fair. Nothing is assumed of agents, clients
  or the CLI.
* `SftpSession`: `RequestExpires`, which `AgentTunnel` guarantees.
* `DiskSpaceCache`: microtasks run (weakly fair). `RequestExpires` is strongly fair: the timer is due
  although other handlers and their microtasks, during which `Quiet` disables it, come before it
  again and again.
* `AuditLog`: libuv calls back for every append and every compression.
* `FileTransfer`: each worker that can step does. `ReentrantLock` is not fair, but finitely many
  requests compete, so weak fairness is enough. Shutdown and errors are never forced.
* `PluginConnection`: threads run, the scheduler runs its tasks, and an attempt to connect or a
  closing handshake ends. That `Connect` waits when all client slots are taken is an effect of the
  bound.

## 4. Findings

1. **A stale close event drops the live connection** (`tunnel_staleclose`, `index.ts` 117). The
   plugin reconnects while the gateway has not yet seen the end of its old socket; `registerAgent`
   replaces the connection and closes the old socket; its close event then unregisters the agent by
   id, that is, the new connection. It is closed, its requests fail, and sessions drop handles of a
   server that was connected. The session's comment says "handles linked to the disconnected server".
2. **The permission cache outlives its rows** (`store_stale`, `terminal.ts` 108 and 156-162).
   `delagent`, and `deluser` of a name that has rows but no account, change the table only.
   `README.md` 43 says rights are checked against SQLite at that moment.
3. **READDIR does not check again** (`session_listing`, `session.ts` 284). READ and WRITE do, and say
   why (`session.ts` 373); a directory handle, opened by OPENDIR with the right to read, still lists
   after a revocation. The property asks only of handles that OPENDIR gave out.
4. **A chunk that was acknowledged can be lost** (`upload`, `FileTransferService.java` 138). A write
   at offset 0 truncates the file, the workers run the chunks of one upload in any order, and SFTP
   clients keep several outstanding: a later chunk, answered OK and reported written to its last
   byte, is gone. The same happens with the empty write that OPEN sends and does not await.
5. **The status does not follow the connection in use** (`status`, `GatewayConnection.java` 157). The
   close event of the client that the `reconnect` command replaced arrives when the new one is
   authenticated, and the status becomes DISCONNECTED or RECONNECTING. `README.md` 132 says that
   `/nightsftp status` shows the state of the tunnel.

Section 5 has for each finding a theorem that says where it ends: what the documents promise holds,
for every value of the constants, as long as the one event that breaks it stays away.

Facts the models show and no document of the repository speaks of, so that they are no findings:
bytes that arrive while the demultiplexer dials are lost; a reset of a socket that is not forwarded
yet ends the process; an `error` of ssh2 without an `end` leaves no DISCONNECT entry; two starts in a
minute, or two rotations that draw one random number in it, overwrite each other's archive, and a
start whose rename fails empties `latest.log`; an archive whose compression failed stays as a `.log`
that no cleaning counts or deletes; a default that is cached after `unregisterAgent` hides the space
of an agent that comes back until it expires; READDIR does not look at the kind of its handle, so one
that OPEN gave for a file, even for writing only, is forwarded as a listing (`session.ts` 236-284); a
`write()` that puts less than the chunk in the file is answered OK with the count, which the gateway
does not compare (`session.ts` 434-437), so the client is told that all of it is written.

## 5. Proofs

TLAPS checks, for every value of the constants that satisfies the `ASSUME`s. Each invariant below is
inductive; the parts that are not properties of a run are there because a step needs them.

* `AgentTunnelProofs`. `TunnelInv` adds to the run's invariants that the registered connection is
  the agent's own (`RegisteredIsConnected`), which `OpenIsRegistered` needs, and that requests are
  pending on registered connections only, which `WaitingIsPending` needs. `TunnelImplementsService`
  maps each handler to one step of `TunnelService` or to a stutter: authentication to `Up` or
  `Replaced`, a close event to `Down` when the agent is still registered, a late answer to nothing.
  `SettledPromisesStay`: a late answer, timer or close never settles a promise twice.
* `PermissionStoreProofs`. `StoreInv` is `TypeOK /\ RowsAreCached`. `FirstIsClosest` shows that in a
  list sorted by length the first rule that covers a path is the closest one, and
  `ChecksAlwaysFollowRows` follows without another induction. `DeletedUsersLoseAccess` is an action
  property: a step that removes an account leaves in the cache what the remaining rows say.
  `StaleOnlyByDeletion` goes through every command, check and restart: of what is cached of a user on
  a server, none but an untold deletion makes it differ from the table. Assumed: finitely many paths,
  whose lengths order the ancestors of a path.
* `SftpSessionProofs`. `SessionInv` ties each promise of the tunnels to the handler that awaits it
  (`WaitsForItsCall`, the converse of `AwaitingIsWaiting`), and says that a handle being listed is
  marked or its number never used again (`ListingsAreMarked`), without which two READDIRs could list
  one handle. Every handler is shown to do to the handles one of a few moves (`HandlesMove`). The
  action properties `FileAccessPermitted`, `DropIsReported` and `AcknowledgedByAgent` follow from it.
  `HasItsRight` is not an invariant, because rights are revoked while handles are open;
  `HandlesLoseRightsByRevocation` shows that nothing else breaks it.
* `DiskSpaceCacheProofs`. `CacheInv` has the reason of `MeasuredInTime`: an entry is dated before its
  measurement (`NotBackdated`), and that of `MeasuredIsOnline`: who awaits an agent's answer awaits
  it while the agent is online (`AwaitingAsks`), since `Quiet` runs the continuation before the
  agent can go. `NoStatvfsIsStuck` writes out the guards of `Turn` and `Resume` (`HasBranch`) and
  shows that a call under way always has one, or awaits a promise that the tunnels hold
  (`AwaitedIsOutstanding`).
* `AuditLogProofs`. `AuditInv` says that there are two numbers k <= j such that the entries up to k
  are dealt with and the files hold them in order, those from k to j are the append under way, and
  the rest is the queue (`Standing`). Each callback moves k to j and j to the end; an exit cuts.
  `DiskStep`, what any step may do to an entry, gives `AppendedStays`. `ArchivesBounded` is inductive
  with the types: a compression that begins raises both sides, a cleaning in which nothing fails
  brings the files down to the limit before it sets `begun` to 0, and an exit turns what is open into
  files (`BoundedStep`). `PendingEntriesAreServed` reads off `Standing` that an append is under way,
  in order, whenever an entry waits. `OldArchivesAreOnlyCleaned` is an action property of archives of
  earlier minutes that are not being compressed: every name a rotation, a start or a compression
  writes to is of this minute or of a job.
* `FrontDoorProofs`. `DoorInv` follows a client through its stages; `Attributed` says that an entry
  lost in an exit takes with it all that belong to it, because they were logged later and an exit
  keeps a beginning (`ExitCuts`). `GatewayUsesTheLog` is the composition: all theorems of
  `AuditLogProofs` hold of the gateway.
* `FileTransferProofs`. `TransferInv` adds `FileIsThere` to the run's invariants: no step of a read
  or a write finds nothing where it needs a file. `SizeStillHolds` needs `LockHolder`: a reader that
  has asked for the size holds the lock, so the worker that changes a file is on another one.
  `TransferImplementsAtomicFile` is the refinement. `Progress` says how the place a request has
  reached fixes whether it has its result and what it has done to its file; `VisibleIs` says that
  what `AtomicFile` sees of a file is its content, or what the one worker that writes to it found. A
  read takes effect when it has its result, a write when what `write()` moved is in the file, a
  failed write when it fails, with whatever it has left there; what comes before and after is a
  stutter. `WrittenHolds` and `BeginningsOfChunks` say what a file holds after a write of a part.
  `saved`, the content a write found, is a history variable that no action reads. `PoolNeverStuck`:
  `Progress` says that whoever waits for a lock waits for a worker on the same file, and that one is
  past `lock()`; with nobody at work the first in the queue can begin, because the queue, being
  finite, has a first (`LeastNumber`).
* `PluginConnectionProofs`. `ReconnectInv`: whoever sets `isReconnecting` is a thread that will reset
  it (`FlagIsHeld`), so a close event that finds the flag set leaves the plugin to a thread that is
  still at work, and something is always coming (`Coming`).

**What the code guarantees where a document promises more.** Each finding is a promise that does
not hold; these theorems say what is left of it, and that nothing else breaks it.

| Finding | The promise holds as long as | Theorem | Argument |
|---|---|---|---|
| 1 | no close event of a replaced connection is still to come | `OnlyAStaleCloseDropsALiveAgent` | whatever takes an agent out of the registry is a `SocketClosed` of one of its own sockets (`DroppedByClose`) |
| 2 | no agent, and no name without an account, is deleted | `ChecksMatchTableUnlessDeleted` | `IsFresh` of a user and a server survives every other step (`FreshStep`) |
| 3 | no right is taken away | `ListingsArePermittedUnlessRevoked` | then `HasItsRight` is an invariant, and for a handle of OPENDIR it is the right to read its directory |
| 4 | no two requests for one file are worked on at once (for chunks reported written to their last byte) | `ChunksStayOneByOne` | then the requests for a file take their turns (`InTurn`), so whoever empties or overwrites a chunk was sent after it (`ChunkStays`) |
| 5 | nobody gives the reconnect command | `StatusIsShownWithoutTheCommand` | then one thread, task or client at a time is at work (`OneAtWork`), and the status is how far it is (`StatusFollows`) |

The hypotheses of 2 to 5 are behaviours of the same specification, restricted and not changed: 3 and
2 allow all the steps but the ones named, and `SerialUploadsKeepTheirChunks` shows that the one of 4
holds for a client that waits for each answer and for a pool of one worker.

Only model-checked: liveness under fairness (out of the prover's reach; it is `EveryRequestSettles`,
`ClosingIsForgotten`, `EveryCallAnswered`, `EveryStatvfsAnswered`, `QueueDrains`, `EveryChunkEnds` and
`ComesBack`). Every other property of the passing runs is stated by a theorem. Of most of the seven the
safety half is proved, that the system never stands where the promise could not be kept any more:
`NoForgottenPromise` and `HandlersAwaitTheirPromises`, `NoStatvfsIsStuck`, `PendingEntriesAreServed`,
`PoolNeverStuck` and `PluginIsNeverStranded`. They write the guards of the actions out, since
`ENABLED` is out of the prover's reach; that a guard written out is the one of the action was
compared by TLC on the instances of section 3.

## 6. Plan and what is not modelled

Done: the tunnels, permissions, sessions, chunk transfers, disk-space cache, plugin connection, front
door and audit log, with proofs of all their safety properties, of the refinements (`TunnelService`
by the sockets and by what uses them, `AtomicFile`, `AuditLog`), of the safety halves of the liveness
properties, and of what is left of the promise behind each finding.

Not modelled:
* `FileService`: each operation is one or two calls of `java.nio` without state of its own. They run
  on a second pool and take no file lock, so a delete or a rename can meet a chunk request that has
  the file open; what happens then is decided by the file system (an unlinked file lives on under its
  descriptor), and the code promises nothing about it.
* Path resolution (`SafePathResolver`, `sanitizePath`, `parseVirtualPath`): pure functions over
  strings and symbolic links. The models use paths with a relation `Covers` and a set of refused
  paths.
* Wire protocol and the plugin's handshake message: encoding without state; the models exchange the
  decoded messages, and `AuthAccept` and `AuthReject` are the two outcomes of the handshake.
* Configuration: read once at start.
* Secrets (`passuser`, `passagent`, the comparison of hashes): no property here tells two secrets
  apart.
* `auth/auth.ts`, `security/rateLimit.ts`: nothing imports them.
