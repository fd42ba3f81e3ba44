---------------------------- MODULE FileTransfer ----------------------------
(***************************************************************************)
(* FileTransferService.java: the chunk reads and writes of the plugin.     *)
(* GatewayConnection submits every request, in the order the WebSocket     *)
(* delivers them, to a fixed pool; a worker checks the path, takes the     *)
(* lock of the file, works on it in several system calls, releases the     *)
(* lock and sends the answer.  Workers are interchangeable, so a request   *)
(* carries the program counter of the worker that runs it.                 *)
(*                                                                         *)
(* Contents are sequences of blocks; base64, sizes in bytes and the        *)
(* resolution of paths are abstracted: Refused are the paths the resolver  *)
(* turns down, the directories, and what is sent too large a payload.      *)
(***************************************************************************)
EXTENDS AtomicFile, FiniteSets

CONSTANTS
  PoolSize,  \* workers of the pool: 4 in the code
  Window,    \* requests the client keeps outstanding at once
  Uploads    \* TRUE: the client only uploads, chunk after chunk from offset 0

Free == 0

ASSUME TransferAssumption ==
  /\ PoolSize \in Nat \ {0} /\ Window \in Nat \ {0} /\ MaxRequests \in Nat
  /\ ChunkLength \in Nat \ {0} /\ Offsets \subseteq Nat /\ Refused \subseteq Paths
  /\ Uploads \in BOOLEAN

ASSUME NoFileAssumption == NoFile \notin Seq(Requests \cup {Hole})

VARIABLES
  pc,     \* where the worker of each request stands
  locks,  \* fileLocks: the request that holds the lock of each path, or Free
  sizes,  \* readChunk's fileSize, until it returns
  saved,  \* history: the content a write found under the lock, until it returns
  pool    \* transferExecutor: "running", "draining" after shutdown(), "stopped"

vars == <<files, reqs, results, gone, pc, locks, sizes, saved, pool>>

-----------------------------------------------------------------------------
Waiting == {r \in DOMAIN reqs : pc[r] = "queued"}
Working == {r \in DOMAIN reqs : pc[r] \notin {"queued", "answered", "dropped"}}
Outstanding == DOMAIN reqs \ gone
UnderLock == {"locked", "sized", "opened", "truncated", "done"}

PathOf(r) == reqs[r].path

At(r, place) == r \in DOMAIN reqs /\ pc[r] = place
Goto(r, place) == pc' = [pc EXCEPT ![r] = place]

Init ==
  /\ AtomicInit
  /\ pc = <<>> /\ sizes = <<>> /\ saved = <<>>
  /\ locks = [p \in Paths |-> Free]
  /\ pool = "running"

-----------------------------------------------------------------------------
(* The service                                                             *)

\* The chunks of an upload follow each other from offset 0; OPEN with CREAT
\* sends an empty write at offset 0 first and does not wait for it.
IsUploadStep(op) ==
  /\ op.kind = "write"
  /\ LET chunks == Cardinality({r \in DOMAIN reqs : reqs[r].path = op.path /\ reqs[r].data # <<>>})
         begun  == \E r \in DOMAIN reqs : reqs[r].path = op.path
     IN IF op.data = <<>> THEN ~begun /\ op.offset = 0 ELSE op.offset = chunks * ChunkLength

\* supplyAsync queues the request; a pool shut down rejects it, and the
\* exception ends in onMessage's catch, which answers nothing.
Submit(op) ==
  /\ Len(reqs) < MaxRequests /\ Cardinality(Outstanding) < Window
  /\ Uploads => IsUploadStep(op)
  /\ reqs' = Append(reqs, op)
  /\ results' = Append(results, Unknown)
  /\ sizes' = Append(sizes, 0)
  /\ saved' = Append(saved, NoFile)
  /\ pc' = Append(pc, "queued")
  /\ pool = "running"
  /\ UNCHANGED <<files, gone, locks, pool>>

Shutdown ==
  /\ pool = "running"
  /\ pool' = "draining"
  /\ UNCHANGED <<files, reqs, results, gone, pc, locks, sizes, saved>>

\* awaitTermination gives up after 3 seconds: what is queued is discarded.
\* Working requests are interrupted, which their next file operation reports
\* as an IOException (Disturbed), or finish.
ShutdownNow ==
  /\ pool = "draining"
  /\ pool' = "stopped"
  /\ pc' = [r \in DOMAIN pc |-> IF r \in Waiting THEN "dropped" ELSE pc[r]]
  /\ gone' = gone \cup Waiting
  /\ UNCHANGED <<files, reqs, results, locks, sizes, saved>>

-----------------------------------------------------------------------------
(* A worker: the checks, then the lock                                     *)

\* What the checks before the lock turn a request down with.
Verdict(op) ==
  IF op.path \in Refused THEN Refusal("REFUSED")
  ELSE IF op.kind = "read" /\ files[op.path] = NoFile THEN Refusal("NOT_FOUND")
  ELSE Unknown

Begin(r) ==
  /\ r \in Waiting /\ (\A w \in Waiting : r <= w)
  /\ Cardinality(Working) < PoolSize
  /\ Found(r, Verdict(reqs[r]))
  /\ Goto(r, IF Verdict(reqs[r]) = Unknown THEN "checked" ELSE "unlocked")
  /\ UNCHANGED <<files, reqs, gone, locks, sizes, saved, pool>>

\* Seeded bug: readers do not take the lock.
WritersOnly(r) == reqs[r].kind = "read" \/ locks[PathOf(r)] = Free
MayLock(r) == locks[PathOf(r)] = Free

Lock(r) ==
  /\ At(r, "checked") /\ MayLock(r)
  /\ locks' = [locks EXCEPT ![PathOf(r)] = r]
  /\ Goto(r, "locked")
  /\ UNCHANGED <<files, reqs, results, gone, sizes, saved, pool>>

\* Seeded bug: the lock is released on success only, not in a finally.
KeptOnFailure(r) == IF results[r].status = "OK" THEN Free ELSE r
AfterUnlock(r) == Free

Unlock(r) ==
  /\ At(r, "done")
  /\ locks' = [locks EXCEPT ![PathOf(r)] = AfterUnlock(r)]
  /\ Goto(r, "unlocked")
  /\ UNCHANGED <<files, reqs, results, gone, sizes, saved, pool>>

\* thenAccept sends the response once the task has returned; a client that is
\* gone does not get it, which changes nothing here.
Respond(r) ==
  /\ At(r, "unlocked")
  /\ gone' = gone \cup {r}
  /\ Goto(r, "answered")
  /\ UNCHANGED <<files, reqs, results, locks, sizes, saved, pool>>

-----------------------------------------------------------------------------
(* A worker under the lock                                                 *)

\* What the call knew of the file goes with it.
Return(r) ==
  /\ Goto(r, "done")
  /\ sizes' = [sizes EXCEPT ![r] = 0] /\ saved' = [saved EXCEPT ![r] = NoFile]

\* readChunk: open, ask the size; an offset past the end answers at once.
Size(r) ==
  /\ At(r, "locked") /\ reqs[r].kind = "read"
  /\ IF reqs[r].offset >= Len(files[PathOf(r)])
       THEN Goto(r, "done") /\ Found(r, Result("OK", <<>>)) /\ UNCHANGED sizes
       ELSE /\ Goto(r, "sized") /\ UNCHANGED results
            /\ sizes' = [sizes EXCEPT ![r] = Len(files[PathOf(r)])]
  /\ UNCHANGED <<files, reqs, gone, locks, saved, pool>>

\* bytesToRead comes from the size asked before; one read() answers what the
\* file holds by now, or less of it.
ReadBlocks(r) ==
  /\ At(r, "sized")
  /\ LET content == files[PathOf(r)]
         last == Shortest(reqs[r].offset + ChunkLength, sizes[r])
         rest == SubSeq(content, reqs[r].offset + 1, Shortest(last, Len(content)))
     IN \E chunk \in Beginnings(rest) : Found(r, Result("OK", chunk))
  /\ Return(r)
  /\ UNCHANGED <<files, reqs, gone, locks, pool>>

\* writeChunk: RandomAccessFile(.., "rw") creates a file that is not there.
OpenFile(r) ==
  /\ At(r, "locked") /\ reqs[r].kind = "write"
  /\ saved' = [saved EXCEPT ![r] = files[PathOf(r)]]
  /\ files' = [files EXCEPT ![PathOf(r)] = IF @ = NoFile THEN <<>> ELSE @]
  /\ Goto(r, "opened")
  /\ UNCHANGED <<reqs, results, gone, locks, sizes, pool>>

Truncate(r) ==
  /\ At(r, "opened") /\ reqs[r].offset = 0
  /\ files' = [files EXCEPT ![PathOf(r)] = <<>>]
  /\ Goto(r, "truncated")
  /\ UNCHANGED <<reqs, results, gone, locks, sizes, saved, pool>>

\* One write() puts a beginning of the chunk in the file, at best the whole
\* of it: bytesWritten says how much, and the answer is OK.
Put(r, blocks) ==
  files' = [files EXCEPT ![PathOf(r)] = Written(@, reqs[r].offset, blocks)]

AtWrite(r) == At(r, "truncated") \/ (At(r, "opened") /\ reqs[r].offset # 0)

WriteBlocks(r) ==
  /\ AtWrite(r)
  /\ \E blocks \in Beginnings(reqs[r].data) : Put(r, blocks) /\ Found(r, Result("OK", blocks))
  /\ Return(r)
  /\ UNCHANGED <<reqs, gone, locks, pool>>

\* Any exception under the lock (disk full, interrupt) is answered IO_ERROR,
\* and so is one of write() half way or of close() after it, which leaves in
\* the file what was written.
Disturbed(r) ==
  /\ \E place \in UnderLock \ {"done"} : At(r, place)
  /\ \/ UNCHANGED files
     \/ AtWrite(r) /\ \E blocks \in Beginnings(reqs[r].data) : Put(r, blocks)
  /\ Found(r, Refusal("IO_ERROR"))
  /\ Return(r)
  /\ UNCHANGED <<reqs, gone, locks, pool>>

-----------------------------------------------------------------------------
Work(r) ==
  \/ Begin(r) \/ Lock(r) \/ Unlock(r) \/ Respond(r)
  \/ Size(r) \/ ReadBlocks(r)
  \/ OpenFile(r) \/ Truncate(r) \/ WriteBlocks(r)

\* The service may stop only here: any other state without a step would be
\* workers waiting on each other.
Terminated ==
  /\ pool = "stopped" /\ DOMAIN reqs = gone
  /\ UNCHANGED vars

Next ==
  \/ \E op \in Request(Len(reqs) + 1) : Submit(op)
  \/ \E r \in Requests : Work(r) \/ Disturbed(r)
  \/ Shutdown \/ ShutdownNow
  \/ Terminated

Spec == Init /\ [][Next]_vars

\* The operating system runs every worker that can step.  Weak fairness is
\* enough for the locks: finitely many requests ask for one.
Fairness == \A r \in Requests : WF_vars(Work(r))
FairSpec == Spec /\ Fairness

-----------------------------------------------------------------------------
(* Properties                                                              *)

Blocks == Requests \cup {Hole}
Contents == Seq(Blocks) \cup {NoFile}
Places == {"queued", "checked", "unlocked", "answered", "dropped"} \cup UnderLock
Statuses == {"UNKNOWN", "OK", "REFUSED", "NOT_FOUND", "IO_ERROR"}

\* Every variable has its type, and the requests share one numbering.
TypeOK ==
  /\ files \in [Paths -> Contents]
  /\ reqs \in Seq(UNION {Request(r) : r \in Requests}) /\ Len(reqs) <= MaxRequests
  /\ results \in Seq([status : Statuses, chunk : Seq(Blocks)]) /\ Len(results) = Len(reqs)
  /\ pc \in Seq(Places) /\ Len(pc) = Len(reqs)
  /\ sizes \in Seq(Nat) /\ Len(sizes) = Len(reqs)
  /\ saved \in Seq(Contents) /\ Len(saved) = Len(reqs)
  /\ locks \in [Paths -> {Free} \cup DOMAIN reqs]
  /\ gone = {r \in DOMAIN reqs : pc[r] \in {"answered", "dropped"}}
  /\ pool \in {"running", "draining", "stopped"}

\* readChunk and writeChunk work on a path one at a time: whoever stands
\* between lock() and unlock() is the request the lock names, so two workers
\* never have the same file open.
LockHolder ==
  \A r \in DOMAIN reqs : pc[r] \in UnderLock <=> locks[PathOf(r)] = r

\* The size a reader took still is the size of the file when it reads, though
\* writers queue behind it: the end of the file it announces is the end.
SizeStillHolds ==
  \A r \in DOMAIN reqs : pc[r] = "sized" => sizes[r] = Len(files[PathOf(r)])

\* Whatever the pool interleaves, each chunk takes effect at one instant: the
\* content a write leaves between truncate(0) and write() is seen by nobody.
VisibleFiles ==
  [p \in Paths |->
     IF locks[p] # Free /\ pc[locks[p]] \in {"opened", "truncated"}
       THEN saved[locks[p]] ELSE files[p]]
Atomic == INSTANCE AtomicFile WITH files <- VisibleFiles
ImplementsAtomicFile == Atomic!AtomicSpec

\* Every request the pool accepts is answered, or dropped by shutdownNow: a
\* worker that failed never leaves the lock of a file behind it.
EveryChunkEnds ==
  \A r \in Requests : (r \in DOMAIN reqs) ~> (r \in gone)

\* A request that can disturb the chunk of another one.
MayOverwrite(later, op) ==
  /\ later.kind = "write" /\ later.path = op.path
  /\ \/ later.offset = 0
     \/ later.offset < op.offset + ChunkLength /\ op.offset < later.offset + ChunkLength

\* "Writes a chunk of Base64 encoded bytes to target path at specified
\* offset" (FileTransferService.java:107): a chunk answered OK and reported
\* written to its last byte is in the file at its offset, as long as no request
\* sent after it writes there or empties the file.
AcknowledgedChunkStays ==
  \A r \in DOMAIN reqs :
    LET op == reqs[r] IN
    /\ pc[r] = "answered" /\ op.kind = "write" /\ results[r] = Result("OK", op.data)
    /\ \A s \in DOMAIN reqs : s > r => ~MayOverwrite(reqs[s], op)
    => \A i \in DOMAIN op.data :
         op.offset + i \in DOMAIN files[op.path] /\ files[op.path][op.offset + i] = r
=============================================================================
