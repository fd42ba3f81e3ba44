------------------------- MODULE FileTransferProofs -------------------------
(***************************************************************************)
(* Proofs about FileTransfer for every set of paths, offsets and requests  *)
(* and every size of the pool: types, locks, what a reader may rely on,    *)
(* that each chunk takes effect at one instant (AtomicFile), that the pool *)
(* never waits for itself, and when a chunk acknowledged stays.            *)
(***************************************************************************)
EXTENDS FileTransfer, FiniteSetTheorems, SequenceTheorems, WellFoundedInduction, TLAPS

USE TransferAssumption, NoFileAssumption

AnyRequest == UNION {Request(r) : r \in Requests}

-----------------------------------------------------------------------------
(* The data.                                                               *)

\* A request names a path and an offset, and carries a chunk of its own.
LEMMA RequestFields ==
  ASSUME NEW op \in AnyRequest
  PROVE  /\ op.path \in Paths /\ op.offset \in Nat
         /\ op.kind \in {"read", "write"}
         /\ op.data = <<>> \/ \E b \in Requests : op.data = Chunk(b)
<1>1. PICK b \in Requests : op \in Request(b)
  BY DEF AnyRequest
<1>2. op.path \in Paths /\ op.offset \in Offsets
  BY <1>1 DEF Request
<1>3. op.kind \in {"read", "write"}
  BY <1>1 DEF Request
<1>4. op.data \in {<<>>, Chunk(b)}
  BY <1>1 DEF Request
<1> QED
  BY <1>2, <1>3, <1>4 DEF TransferAssumption

\* No request can be mistaken for Hole or NoFile: a file is a sequence of
\* blocks or NoFile, never both.
LEMMA NoFileIsNoSequence == NoFile \notin Seq(Blocks)
BY DEF Blocks, NoFileAssumption

\* A beginning of blocks is blocks.
LEMMA BeginningIsBlocks ==
  ASSUME NEW data \in Seq(Blocks), NEW blocks \in Beginnings(data)
  PROVE  blocks \in Seq(Blocks)
<1>1. PICK n \in 0..Len(data) : blocks = SubSeq(data, 1, n)
  BY DEF Beginnings
<1>2. n \in Nat /\ n <= Len(data) /\ Len(data) \in Nat
  BY <1>1
<1>3. \A i \in 1..n : data[i] \in Blocks
  BY <1>2, ElementOfSeq
<1> QED
  BY <1>1, <1>2, <1>3, SubSeqProperties

\* Whatever its write() manages to put in the file bears one number, and is no
\* longer than a chunk.
LEMMA BeginningsOfChunks ==
  ASSUME NEW op \in AnyRequest, NEW blocks \in Beginnings(op.data)
  PROVE  \E b \in Requests : blocks \in Seq({b}) /\ Len(blocks) <= ChunkLength
<1>1. PICK b \in Requests : op.data \in {<<>>, Chunk(b)}
  BY DEF AnyRequest, Request
<1>2. op.data \in Seq({b}) /\ Len(op.data) \in 0..ChunkLength
  <2>1. Chunk(b) \in Seq({b}) /\ Len(Chunk(b)) = ChunkLength
    BY IsASeq DEF Chunk, TransferAssumption
  <2>2. <<>> \in Seq({b}) /\ Len(<<>>) = 0
    OBVIOUS
  <2>3. 0 \in 0..ChunkLength /\ ChunkLength \in 0..ChunkLength
    BY DEF TransferAssumption
  <2>4. CASE op.data = <<>>
    BY <2>2, <2>3, <2>4
  <2>5. CASE op.data = Chunk(b)
    BY <2>1, <2>3, <2>5
  <2> QED
    BY <1>1, <2>4, <2>5
<1>3. PICK n \in 0..Len(op.data) : blocks = SubSeq(op.data, 1, n)
  BY DEF Beginnings
<1>4. n \in Nat /\ n <= Len(op.data) /\ Len(op.data) \in Nat /\ n <= ChunkLength
  BY <1>2, <1>3 DEF TransferAssumption
<1>5. \A i \in 1..n : op.data[i] \in {b}
  BY <1>2, <1>4, ElementOfSeq
<1>6. blocks \in Seq({b}) /\ Len(blocks) = n
  BY <1>2, <1>3, <1>4, <1>5, SubSeqProperties
<1> QED
  BY <1>4, <1>6

\* A write that puts nothing in its file puts a beginning of its chunk there.
LEMMA NothingIsABeginning ==
  ASSUME NEW op \in AnyRequest
  PROVE  <<>> \in Beginnings(op.data)
<1>1. PICK b \in Requests : op.data \in {<<>>, Chunk(b)}
  BY DEF AnyRequest, Request
<1>2. op.data \in Seq({b})
  <2>1. Chunk(b) \in Seq({b})
    BY IsASeq DEF Chunk, TransferAssumption
  <2>2. <<>> \in Seq({b})
    OBVIOUS
  <2> QED
    BY <1>1, <2>1, <2>2
<1>3. Len(op.data) \in Nat /\ SubSeq(op.data, 1, 0) = <<>>
  BY <1>2, SubSeqEmpty
<1>4. 0 \in 0..Len(op.data)
  BY <1>3
<1> QED
  BY <1>3, <1>4 DEF Beginnings

\* Blocks written to a file are there, at their offset, and what it held
\* elsewhere stays.
LEMMA WrittenHolds ==
  ASSUME NEW content \in Seq(Blocks), NEW offset \in Nat, NEW b \in Requests, NEW data \in Seq({b}),
         NEW after, after = Written(content, offset, data)
  PROVE  /\ after \in Seq(Blocks)
         /\ \A i \in offset + 1..offset + Len(data) : i \in DOMAIN after /\ after[i] = b
         /\ \A i \in DOMAIN content : i \notin offset + 1..offset + Len(data) =>
              i \in DOMAIN after /\ after[i] = content[i]
<1>0. PICK n \in Nat : n = Len(data)
  OBVIOUS
<1>1. Len(content) \in Nat /\ DOMAIN content = 1..Len(content)
  OBVIOUS
<1>2. CASE data = <<>>
  <2>1. after = content /\ n = 0
    BY <1>0, <1>2 DEF Written
  <2> QED
    BY <1>0, <1>1, <2>1
<1>3. CASE data # <<>>
  <2> DEFINE size == Longest(Len(content), offset + n)
             block(i) == IF i \in offset + 1..offset + n THEN b
                         ELSE IF i \in 1..Len(content) THEN content[i] ELSE Hole
  <2>1. /\ size \in Nat /\ Len(content) <= size /\ offset + n <= size
    BY <1>1 DEF Longest
  <2>2. after = [i \in 1..size |-> IF i \in offset + 1..offset + n THEN data[i - offset]
                                   ELSE IF i \in 1..Len(content) THEN content[i] ELSE Hole]
    BY <1>0, <1>3 DEF Written
  <2>3. after = [i \in 1..size |-> block(i)]
    <3>1. \A i \in offset + 1..offset + n : data[i - offset] = b
      <4>1. \A k \in 1..n : data[k] \in {b}
        BY <1>0, ElementOfSeq
      <4>2. \A i \in offset + 1..offset + n : i - offset \in 1..n
        OBVIOUS
      <4> QED
        BY <4>1, <4>2
    <3> QED
      BY <2>2, <3>1
  <2>4. \A i \in 1..size : block(i) \in Blocks
    BY <1>1, ElementOfSeq DEF Blocks
  <2>5. after \in Seq(Blocks)
    <3> HIDE DEF block, size
    <3> QED BY <2>1, <2>3, <2>4, IsASeq
  <2>6. DOMAIN after = 1..size
    BY <2>3
  <2>7. \A i \in offset + 1..offset + n : i \in DOMAIN after /\ after[i] = b
    BY <2>1, <2>3, <2>6
  <2>8. ASSUME NEW i \in DOMAIN content, i \notin offset + 1..offset + n
        PROVE  i \in DOMAIN after /\ after[i] = content[i]
    BY <1>1, <2>1, <2>3, <2>6, <2>8
  <2> QED
    BY <1>0, <2>5, <2>7, <2>8
<1> QED
  BY <1>2, <1>3

\* What a request writes to blocks leaves blocks, and is blocks.
LEMMA WrittenBlocks ==
  ASSUME NEW content \in Seq(Blocks), NEW op \in AnyRequest, NEW blocks \in Beginnings(op.data)
  PROVE  Written(content, op.offset, blocks) \in Seq(Blocks) /\ blocks \in Seq(Blocks)
<1>1. PICK b \in Requests : blocks \in Seq({b})
  BY BeginningsOfChunks
<1>2. PICK offset \in Nat : offset = op.offset
  BY RequestFields
<1>3. Written(content, offset, blocks) \in Seq(Blocks)
  BY <1>1, WrittenHolds
<1>4. blocks \in Seq(Blocks)
  BY <1>1 DEF Blocks
<1> QED
  BY <1>2, <1>3, <1>4

\* What a reader copies out of blocks, up to the end of the file, is blocks.
LEMMA ReadingBlocks ==
  ASSUME NEW content \in Seq(Blocks), NEW offset \in Nat, NEW last \in Nat
  PROVE  SubSeq(content, offset + 1, Shortest(last, Len(content))) \in Seq(Blocks)
<1>1. Len(content) \in Nat
  OBVIOUS
<1>2. \A i \in offset + 1..Shortest(last, Len(content)) : content[i] \in Blocks
  BY <1>1, ElementOfSeq DEF Shortest
<1> QED
  BY <1>1, <1>2, SubSeqProperties DEF Shortest

-----------------------------------------------------------------------------
(* The inductive invariant.                                                *)

\* A file that a worker has checked for or opened is there when it goes on: no
\* step of a read or a write finds nothing where it needs a file.
FileIsThere ==
  \A r \in DOMAIN reqs :
    \/ pc[r] \in {"sized", "opened", "truncated"}
    \/ reqs[r].kind = "read" /\ pc[r] \in {"checked", "locked"}
    => files[PathOf(r)] # NoFile

TransferInv == TypeOK /\ LockHolder /\ FileIsThere /\ SizeStillHolds

\* The numbers of the requests accepted, and Free, which is none of them.
LEMMA RequestNumbers ==
  ASSUME TypeOK
  PROVE  /\ Len(reqs) \in Nat /\ DOMAIN reqs = 1..Len(reqs)
         /\ DOMAIN pc = DOMAIN reqs /\ DOMAIN results = DOMAIN reqs
         /\ DOMAIN sizes = DOMAIN reqs /\ DOMAIN saved = DOMAIN reqs
         /\ Free \notin DOMAIN reqs
         /\ DOMAIN reqs \subseteq Requests
         /\ \A r \in DOMAIN reqs : reqs[r] \in AnyRequest
<1>1. reqs \in Seq(AnyRequest) /\ Len(reqs) <= MaxRequests
  BY DEF TypeOK, AnyRequest
<1>2. Len(reqs) \in Nat /\ DOMAIN reqs = 1..Len(reqs)
  BY <1>1
<1>3. /\ DOMAIN pc = 1..Len(reqs) /\ DOMAIN results = 1..Len(reqs)
      /\ DOMAIN sizes = 1..Len(reqs) /\ DOMAIN saved = 1..Len(reqs)
  BY <1>2 DEF TypeOK
<1>4. DOMAIN reqs \subseteq Requests
  BY <1>1, <1>2 DEF Requests, TransferAssumption
<1>5. \A r \in DOMAIN reqs : reqs[r] \in AnyRequest
  BY <1>1
<1> QED
  BY <1>2, <1>3, <1>4, <1>5 DEF Free

\* A request is queued behind the others, which it leaves as they are.
LEMMA SubmitAppends ==
  ASSUME TypeOK, NEW op \in Request(Len(reqs) + 1), Submit(op)
  PROVE  LET new == Len(reqs) + 1
         IN /\ op \in AnyRequest /\ new \notin DOMAIN reqs
            /\ reqs' \in Seq(AnyRequest) /\ Len(reqs') = new /\ new <= MaxRequests
            /\ DOMAIN reqs' = DOMAIN reqs \cup {new}
            /\ pc' \in Seq(Places) /\ Len(pc') = new
            /\ reqs'[new] = op /\ pc'[new] = "queued"
            /\ \A s \in DOMAIN reqs :
                 reqs'[s] = reqs[s] /\ pc'[s] = pc[s] /\ sizes'[s] = sizes[s]
<1> DEFINE new == Len(reqs) + 1
<1>1. new \in Requests /\ new <= MaxRequests /\ new \notin DOMAIN reqs
  BY RequestNumbers DEF Submit, Requests, TransferAssumption
<1>2. op \in AnyRequest
  BY <1>1 DEF AnyRequest
<1>3. /\ reqs \in Seq(AnyRequest) /\ pc \in Seq(Places) /\ sizes \in Seq(Nat)
      /\ Len(pc) = Len(reqs) /\ Len(sizes) = Len(reqs)
  BY DEF TypeOK, AnyRequest
<1>4. /\ reqs' \in Seq(AnyRequest) /\ Len(reqs') = new /\ reqs'[new] = op
      /\ \A s \in DOMAIN reqs : reqs'[s] = reqs[s]
  BY <1>2, <1>3, AppendProperties, RequestNumbers DEF Submit
<1>5. pc' = Append(pc, "queued") /\ "queued" \in Places /\ sizes' = Append(sizes, 0)
  BY DEF Submit, Places
<1>6. /\ pc' \in Seq(Places) /\ Len(pc') = new /\ pc'[new] = "queued"
      /\ \A s \in DOMAIN reqs : pc'[s] = pc[s]
  BY <1>3, <1>5, AppendProperties, RequestNumbers
<1>7. \A s \in DOMAIN reqs : sizes'[s] = sizes[s]
  BY <1>3, <1>5, AppendProperties, RequestNumbers
<1>8. DOMAIN reqs' = DOMAIN reqs \cup {new}
  BY <1>4, RequestNumbers
<1> QED
  BY <1>1, <1>2, <1>4, <1>6, <1>7, <1>8

\* A worker that goes to its next place leaves the others where they are.
LEMMA GotoMoves ==
  ASSUME TypeOK, NEW r \in DOMAIN reqs, NEW place \in Places, Goto(r, place)
  PROVE  /\ pc' \in Seq(Places) /\ Len(pc') = Len(reqs)
         /\ \A s \in DOMAIN reqs : pc'[s] = IF s = r THEN place ELSE pc[s]
<1>1. pc \in Seq(Places) /\ Len(pc) = Len(reqs)
  BY DEF TypeOK
<1>2. r \in 1..Len(pc) /\ DOMAIN reqs = 1..Len(pc)
  BY <1>1, RequestNumbers
<1> QED
  BY <1>1, <1>2, ExceptSeq DEF Goto

\* What a worker finds becomes a result.
LEMMA FoundResult ==
  ASSUME TypeOK, NEW r \in DOMAIN reqs, NEW result, Found(r, result),
         result \in [status : Statuses, chunk : Seq(Blocks)]
  PROVE  results' \in Seq([status : Statuses, chunk : Seq(Blocks)]) /\ Len(results') = Len(reqs)
<1>1. results \in Seq([status : Statuses, chunk : Seq(Blocks)]) /\ Len(results) = Len(reqs)
  BY DEF TypeOK
<1>2. r \in 1..Len(results)
  BY <1>1, RequestNumbers
<1> QED
  BY <1>1, <1>2, ExceptSeq DEF Found

\* A worker that returns is done, and what its call knew is forgotten.
LEMMA ReturnForgets ==
  ASSUME TypeOK, NEW r \in DOMAIN reqs, Return(r)
  PROVE  /\ pc' \in Seq(Places) /\ Len(pc') = Len(reqs)
         /\ sizes' \in Seq(Nat) /\ Len(sizes') = Len(reqs)
         /\ saved' \in Seq(Contents) /\ Len(saved') = Len(reqs)
         /\ \A s \in DOMAIN reqs : s # r => sizes'[s] = sizes[s] /\ saved'[s] = saved[s]
<1>1. pc' \in Seq(Places) /\ Len(pc') = Len(reqs)
  BY GotoMoves DEF Return, Places, UnderLock
<1>2. r \in 1..Len(sizes) /\ r \in 1..Len(saved)
  BY RequestNumbers DEF TypeOK
<1>3. sizes' \in Seq(Nat) /\ Len(sizes') = Len(reqs)
  BY <1>2, ExceptSeq DEF Return, TypeOK
<1>4. NoFile \in Contents
  BY DEF Contents
<1>5. saved' \in Seq(Contents) /\ Len(saved') = Len(reqs)
  BY <1>2, <1>4, ExceptSeq DEF Return, TypeOK
<1>6. \A s \in DOMAIN reqs : s # r => sizes'[s] = sizes[s] /\ saved'[s] = saved[s]
  BY RequestNumbers DEF Return
<1> QED
  BY <1>1, <1>3, <1>5, <1>6

\* A request that is neither answered nor dropped stays so while it works.
LEMMA StillOutstanding ==
  ASSUME TypeOK, NEW r \in DOMAIN reqs, NEW place \in Places \ {"answered", "dropped"},
         Goto(r, place), pc[r] \notin {"answered", "dropped"}, UNCHANGED <<reqs, gone>>
  PROVE  gone' = {s \in DOMAIN reqs' : pc'[s] \in {"answered", "dropped"}}
BY GotoMoves DEF TypeOK

-----------------------------------------------------------------------------
(* Types.                                                                  *)

\* The initial state is well typed.
LEMMA InitTypeOK == Init => TypeOK
<1> SUFFICES ASSUME Init PROVE TypeOK
  OBVIOUS
<1>1. <<>> \in Seq(AnyRequest) /\ Len(<<>>) = 0 /\ DOMAIN <<>> = {}
  OBVIOUS
<1>2. files \in [Paths -> Contents] /\ gone = {}
  BY DEF Init, AtomicInit, Contents
<1> QED
  BY <1>1, <1>2 DEF Init, AtomicInit, TypeOK, AnyRequest, TransferAssumption

\* What write() puts in a file that is there leaves blocks in it.
LEMMA PutBlocks ==
  ASSUME TypeOK, FileIsThere, NEW r \in DOMAIN reqs, pc[r] \in {"opened", "truncated"},
         NEW blocks \in Beginnings(reqs[r].data), Put(r, blocks)
  PROVE  /\ files' \in [Paths -> Contents] /\ blocks \in Seq(Blocks)
         /\ Written(files[PathOf(r)], reqs[r].offset, blocks) \in Seq(Blocks)
<1>1. PathOf(r) \in Paths /\ reqs[r] \in AnyRequest
  BY RequestNumbers, RequestFields DEF PathOf
<1>2. files[PathOf(r)] \in Seq(Blocks)
  BY <1>1 DEF FileIsThere, TypeOK, Contents
<1>3. Written(files[PathOf(r)], reqs[r].offset, blocks) \in Seq(Blocks) /\ blocks \in Seq(Blocks)
  BY <1>1, <1>2, WrittenBlocks
<1>4. files' = [files EXCEPT ![PathOf(r)] = Written(files[PathOf(r)], reqs[r].offset, blocks)]
  BY DEF Put
<1> QED
  BY <1>1, <1>3, <1>4 DEF TypeOK, Contents

\* Every step of the pool keeps its state well typed.
LEMMA NextTypeOK == TypeOK /\ FileIsThere /\ [Next]_vars => TypeOK'
<1> SUFFICES ASSUME TypeOK, FileIsThere, [Next]_vars PROVE TypeOK'
  OBVIOUS
<1>0. /\ reqs \in Seq(AnyRequest)
      /\ \A r \in DOMAIN reqs : PathOf(r) \in Paths /\ reqs[r].offset \in Nat
  BY RequestNumbers, RequestFields DEF TypeOK, PathOf, AnyRequest
<1>1. ASSUME NEW op \in Request(Len(reqs) + 1), Submit(op) PROVE TypeOK'
  <2>1. /\ reqs' \in Seq(AnyRequest) /\ Len(reqs') = Len(reqs) + 1 /\ Len(reqs') <= MaxRequests
        /\ DOMAIN reqs' = DOMAIN reqs \cup {Len(reqs) + 1}
        /\ pc' \in Seq(Places) /\ Len(pc') = Len(reqs')
        /\ pc'[Len(reqs) + 1] = "queued" /\ \A s \in DOMAIN reqs : pc'[s] = pc[s]
    BY <1>1, SubmitAppends
  <2>2. Unknown \in [status : Statuses, chunk : Seq(Blocks)]
    BY DEF Unknown, Result, Statuses
  <2>3. results' \in Seq([status : Statuses, chunk : Seq(Blocks)]) /\ Len(results') = Len(reqs')
    BY <1>1, <2>1, <2>2, AppendProperties DEF Submit, TypeOK
  <2>4. sizes' \in Seq(Nat) /\ Len(sizes') = Len(reqs')
    BY <1>1, <2>1, AppendProperties DEF Submit, TypeOK
  <2>5. saved' \in Seq(Contents) /\ Len(saved') = Len(reqs')
    BY <1>1, <2>1, AppendProperties DEF Submit, TypeOK, Contents
  <2>6. gone' = {r \in DOMAIN reqs' : pc'[r] \in {"answered", "dropped"}}
    BY <1>1, <2>1 DEF Submit, TypeOK
  <2>7. files' = files /\ locks' = locks /\ pool' = pool
    BY <1>1 DEF Submit
  <2> QED
    BY <2>1, <2>3, <2>4, <2>5, <2>6, <2>7 DEF TypeOK, AnyRequest
<1>2. CASE Shutdown
  BY <1>2 DEF Shutdown, TypeOK
<1>3. CASE ShutdownNow
  <2>1. pc' \in Seq(Places) /\ Len(pc') = Len(reqs)
    <3> DEFINE place(r) == IF r \in Waiting THEN "dropped" ELSE pc[r]
    <3>1. Len(reqs) \in Nat /\ DOMAIN pc = 1..Len(reqs)
      BY RequestNumbers
    <3>2. \A r \in 1..Len(reqs) : place(r) \in Places
      BY <3>1 DEF Places, TypeOK
    <3>3. pc' = [r \in 1..Len(reqs) |-> place(r)]
      BY <1>3, <3>1 DEF ShutdownNow
    <3>4. [r \in 1..Len(reqs) |-> place(r)] \in Seq(Places)
      <4> HIDE DEF place
      <4> QED BY <3>1, <3>2, IsASeq
    <3> QED
      BY <3>1, <3>3, <3>4
  <2>2. gone' = {r \in DOMAIN reqs' : pc'[r] \in {"answered", "dropped"}}
    BY <1>3, RequestNumbers DEF ShutdownNow, TypeOK, Waiting
  <2> QED
    BY <1>3, <2>1, <2>2 DEF ShutdownNow, TypeOK
<1>4. ASSUME NEW r \in Requests, Begin(r) PROVE TypeOK'
  <2>1. r \in DOMAIN reqs /\ pc[r] = "queued"
    BY <1>4 DEF Begin, Waiting
  <2>2. Verdict(reqs[r]) \in [status : Statuses, chunk : Seq(Blocks)]
    BY DEF Verdict, Refusal, Unknown, Result, Statuses
  <2>3. results' \in Seq([status : Statuses, chunk : Seq(Blocks)]) /\ Len(results') = Len(reqs)
    BY <1>4, <2>1, <2>2, FoundResult DEF Begin
  <2>4. \E place \in {"checked", "unlocked"} : Goto(r, place)
    BY <1>4 DEF Begin
  <2>5. pc' \in Seq(Places) /\ Len(pc') = Len(reqs)
    BY <2>1, <2>4, GotoMoves DEF Places
  <2>6. gone' = {s \in DOMAIN reqs' : pc'[s] \in {"answered", "dropped"}}
    BY <1>4, <2>1, <2>4, StillOutstanding DEF Begin, Places
  <2> QED
    BY <1>4, <2>3, <2>5, <2>6 DEF Begin, TypeOK
<1>5. ASSUME NEW r \in Requests, Lock(r) PROVE TypeOK'
  <2>1. r \in DOMAIN reqs /\ pc[r] = "checked" /\ Goto(r, "locked")
    BY <1>5 DEF Lock, At
  <2>2. pc' \in Seq(Places) /\ Len(pc') = Len(reqs)
    BY <2>1, GotoMoves DEF Places, UnderLock
  <2>3. gone' = {s \in DOMAIN reqs' : pc'[s] \in {"answered", "dropped"}}
    BY <1>5, <2>1, StillOutstanding DEF Lock, Places, UnderLock
  <2>4. locks' \in [Paths -> {Free} \cup DOMAIN reqs]
    BY <1>5, <2>1 DEF Lock, TypeOK
  <2> QED
    BY <1>5, <2>2, <2>3, <2>4 DEF Lock, TypeOK
<1>6. ASSUME NEW r \in Requests, Unlock(r) PROVE TypeOK'
  <2>1. r \in DOMAIN reqs /\ pc[r] = "done" /\ Goto(r, "unlocked")
    BY <1>6 DEF Unlock, At
  <2>2. pc' \in Seq(Places) /\ Len(pc') = Len(reqs)
    BY <2>1, GotoMoves DEF Places
  <2>3. gone' = {s \in DOMAIN reqs' : pc'[s] \in {"answered", "dropped"}}
    BY <1>6, <2>1, StillOutstanding DEF Unlock, Places
  <2>4. locks' \in [Paths -> {Free} \cup DOMAIN reqs]
    BY <1>6, <2>1 DEF Unlock, AfterUnlock, TypeOK
  <2> QED
    BY <1>6, <2>2, <2>3, <2>4 DEF Unlock, TypeOK
<1>7. ASSUME NEW r \in Requests, Respond(r) PROVE TypeOK'
  <2>1. r \in DOMAIN reqs /\ Goto(r, "answered")
    BY <1>7 DEF Respond, At
  <2>2. /\ pc' \in Seq(Places) /\ Len(pc') = Len(reqs)
        /\ \A s \in DOMAIN reqs : pc'[s] = IF s = r THEN "answered" ELSE pc[s]
    BY <2>1, GotoMoves DEF Places
  <2>3. gone' = {s \in DOMAIN reqs' : pc'[s] \in {"answered", "dropped"}}
    BY <1>7, <2>1, <2>2 DEF Respond, TypeOK
  <2> QED
    BY <1>7, <2>2, <2>3 DEF Respond, TypeOK
<1>8. ASSUME NEW r \in Requests, Size(r) PROVE TypeOK'
  <2>1. r \in DOMAIN reqs /\ pc[r] = "locked" /\ reqs[r].kind = "read"
    BY <1>8 DEF Size, At
  <2>2. \E place \in {"done", "sized"} : Goto(r, place)
    BY <1>8 DEF Size
  <2>3. pc' \in Seq(Places) /\ Len(pc') = Len(reqs)
    BY <2>1, <2>2, GotoMoves DEF Places, UnderLock
  <2>4. gone' = {s \in DOMAIN reqs' : pc'[s] \in {"answered", "dropped"}}
    BY <1>8, <2>1, <2>2, StillOutstanding DEF Size, Places, UnderLock
  <2>5. Len(files[PathOf(r)]) \in Nat
    BY <1>0, <2>1 DEF FileIsThere, TypeOK, Contents
  <2>6. sizes' \in Seq(Nat) /\ Len(sizes') = Len(reqs)
    <3>1. sizes' = sizes \/ sizes' = [sizes EXCEPT ![r] = Len(files[PathOf(r)])]
      BY <1>8 DEF Size
    <3>2. sizes \in Seq(Nat) /\ Len(sizes) = Len(reqs) /\ r \in 1..Len(sizes)
      BY <2>1, RequestNumbers DEF TypeOK
    <3>3. CASE sizes' = [sizes EXCEPT ![r] = Len(files[PathOf(r)])]
      BY <2>5, <3>2, <3>3, ExceptSeq
    <3> QED
      BY <3>1, <3>2, <3>3
  <2>7. Result("OK", <<>>) \in [status : Statuses, chunk : Seq(Blocks)]
    BY DEF Result, Statuses
  <2>8. results' \in Seq([status : Statuses, chunk : Seq(Blocks)]) /\ Len(results') = Len(reqs)
    BY <1>8, <2>1, <2>7, FoundResult DEF Size, TypeOK
  <2> QED
    BY <1>8, <2>3, <2>4, <2>6, <2>8 DEF Size, TypeOK
<1>9. ASSUME NEW r \in Requests, ReadBlocks(r) PROVE TypeOK'
  <2>1. r \in DOMAIN reqs /\ pc[r] = "sized" /\ Return(r) /\ Goto(r, "done")
    BY <1>9 DEF ReadBlocks, At, Return
  <2>2. /\ pc' \in Seq(Places) /\ Len(pc') = Len(reqs)
        /\ sizes' \in Seq(Nat) /\ Len(sizes') = Len(reqs)
        /\ saved' \in Seq(Contents) /\ Len(saved') = Len(reqs)
    BY <2>1, ReturnForgets
  <2>3. gone' = {s \in DOMAIN reqs' : pc'[s] \in {"answered", "dropped"}}
    BY <1>9, <2>1, StillOutstanding DEF ReadBlocks, Places, UnderLock
  <2> DEFINE last == Shortest(reqs[r].offset + ChunkLength, sizes[r])
             rest == SubSeq(files[PathOf(r)], reqs[r].offset + 1,
                            Shortest(last, Len(files[PathOf(r)])))
  <2>4. files[PathOf(r)] \in Seq(Blocks)
    BY <1>0, <2>1 DEF FileIsThere, TypeOK, Contents
  <2>5. last \in Nat
    BY <1>0, <2>1, RequestNumbers DEF Shortest, TypeOK, TransferAssumption
  <2>6. rest \in Seq(Blocks)
    BY <1>0, <2>1, <2>4, <2>5, ReadingBlocks
  <2>7. PICK chunk \in Beginnings(rest) : Found(r, Result("OK", chunk))
    BY <1>9 DEF ReadBlocks
  <2>8. Result("OK", chunk) \in [status : Statuses, chunk : Seq(Blocks)]
    BY <2>6, BeginningIsBlocks DEF Result, Statuses
  <2>9. results' \in Seq([status : Statuses, chunk : Seq(Blocks)]) /\ Len(results') = Len(reqs)
    BY <2>1, <2>7, <2>8, FoundResult
  <2> QED
    BY <1>9, <2>2, <2>3, <2>9 DEF ReadBlocks, TypeOK
<1>10. ASSUME NEW r \in Requests, OpenFile(r) PROVE TypeOK'
  <2>1. r \in DOMAIN reqs /\ pc[r] = "locked" /\ Goto(r, "opened")
    BY <1>10 DEF OpenFile, At
  <2>2. pc' \in Seq(Places) /\ Len(pc') = Len(reqs)
    BY <2>1, GotoMoves DEF Places, UnderLock
  <2>3. gone' = {s \in DOMAIN reqs' : pc'[s] \in {"answered", "dropped"}}
    BY <1>10, <2>1, StillOutstanding DEF OpenFile, Places, UnderLock
  <2>4. files' \in [Paths -> Contents]
    BY <1>0, <1>10, <2>1 DEF OpenFile, TypeOK, Contents
  <2>5. files[PathOf(r)] \in Contents
    BY <1>0, <2>1 DEF TypeOK
  <2>6. saved' \in Seq(Contents) /\ Len(saved') = Len(reqs)
    BY <1>10, <2>1, <2>5, ExceptSeq, RequestNumbers DEF OpenFile, TypeOK
  <2> QED
    BY <1>10, <2>2, <2>3, <2>4, <2>6 DEF OpenFile, TypeOK
<1>11. ASSUME NEW r \in Requests, Truncate(r) PROVE TypeOK'
  <2>1. r \in DOMAIN reqs /\ pc[r] = "opened" /\ Goto(r, "truncated")
    BY <1>11 DEF Truncate, At
  <2>2. pc' \in Seq(Places) /\ Len(pc') = Len(reqs)
    BY <2>1, GotoMoves DEF Places, UnderLock
  <2>3. gone' = {s \in DOMAIN reqs' : pc'[s] \in {"answered", "dropped"}}
    BY <1>11, <2>1, StillOutstanding DEF Truncate, Places, UnderLock
  <2>4. files' \in [Paths -> Contents]
    BY <1>0, <1>11, <2>1 DEF Truncate, TypeOK, Contents
  <2> QED
    BY <1>11, <2>2, <2>3, <2>4 DEF Truncate, TypeOK
<1>12. ASSUME NEW r \in Requests, WriteBlocks(r) PROVE TypeOK'
  <2>1. r \in DOMAIN reqs /\ pc[r] \in {"opened", "truncated"} /\ Return(r) /\ Goto(r, "done")
    BY <1>12 DEF WriteBlocks, AtWrite, At, Return
  <2>2. /\ pc' \in Seq(Places) /\ Len(pc') = Len(reqs)
        /\ sizes' \in Seq(Nat) /\ Len(sizes') = Len(reqs)
        /\ saved' \in Seq(Contents) /\ Len(saved') = Len(reqs)
    BY <2>1, ReturnForgets
  <2>3. gone' = {s \in DOMAIN reqs' : pc'[s] \in {"answered", "dropped"}}
    BY <1>12, <2>1, StillOutstanding DEF WriteBlocks, Places, UnderLock
  <2>4. PICK blocks \in Beginnings(reqs[r].data) : Put(r, blocks) /\ Found(r, Result("OK", blocks))
    BY <1>12 DEF WriteBlocks
  <2>5. files' \in [Paths -> Contents] /\ blocks \in Seq(Blocks)
    BY <1>0, <2>1, <2>4, PutBlocks
  <2>6. Result("OK", blocks) \in [status : Statuses, chunk : Seq(Blocks)]
    BY <2>5 DEF Result, Statuses
  <2>7. results' \in Seq([status : Statuses, chunk : Seq(Blocks)]) /\ Len(results') = Len(reqs)
    BY <2>1, <2>4, <2>6, FoundResult
  <2> QED
    BY <1>12, <2>2, <2>3, <2>5, <2>7 DEF WriteBlocks, TypeOK
<1>13. ASSUME NEW r \in Requests, Disturbed(r) PROVE TypeOK'
  <2>1. r \in DOMAIN reqs /\ pc[r] \in UnderLock /\ Return(r) /\ Goto(r, "done")
    BY <1>13 DEF Disturbed, At, Return
  <2>2. /\ pc' \in Seq(Places) /\ Len(pc') = Len(reqs)
        /\ sizes' \in Seq(Nat) /\ Len(sizes') = Len(reqs)
        /\ saved' \in Seq(Contents) /\ Len(saved') = Len(reqs)
    BY <2>1, ReturnForgets
  <2>3. gone' = {s \in DOMAIN reqs' : pc'[s] \in {"answered", "dropped"}}
    BY <1>13, <2>1, StillOutstanding DEF Disturbed, Places, UnderLock
  <2>4. Refusal("IO_ERROR") \in [status : Statuses, chunk : Seq(Blocks)]
    BY DEF Refusal, Result, Statuses
  <2>5. results' \in Seq([status : Statuses, chunk : Seq(Blocks)]) /\ Len(results') = Len(reqs)
    BY <1>13, <2>1, <2>4, FoundResult DEF Disturbed
  <2>6. files' \in [Paths -> Contents]
    <3>1. CASE UNCHANGED files
      BY <3>1 DEF TypeOK
    <3>2. CASE AtWrite(r) /\ \E blocks \in Beginnings(reqs[r].data) : Put(r, blocks)
      <4>1. PICK blocks \in Beginnings(reqs[r].data) : Put(r, blocks)
        BY <3>2
      <4>2. pc[r] \in {"opened", "truncated"}
        BY <3>2 DEF AtWrite, At
      <4> QED
        BY <1>0, <2>1, <4>1, <4>2, PutBlocks
    <3> QED
      BY <1>13, <3>1, <3>2 DEF Disturbed
  <2> QED
    BY <1>13, <2>2, <2>3, <2>5, <2>6 DEF Disturbed, TypeOK
<1>14. CASE UNCHANGED vars
  BY <1>14 DEF vars, TypeOK
<1> QED
  BY <1>1, <1>2, <1>3, <1>4, <1>5, <1>6, <1>7, <1>8, <1>9, <1>10, <1>11, <1>12, <1>13, <1>14
     DEF Next, Work, Terminated

-----------------------------------------------------------------------------
(* The locks, and what they protect.                                       *)

\* Two requests under a lock are on different files.
LEMMA LocksDiffer ==
  ASSUME TypeOK, LockHolder, NEW r \in DOMAIN reqs, NEW s \in DOMAIN reqs,
         pc[r] \in UnderLock, pc[s] \in UnderLock, r # s
  PROVE  PathOf(r) # PathOf(s)
BY DEF LockHolder

\* A worker that stays on its side of the lock keeps LockHolder.
LEMMA SameSide ==
  ASSUME TypeOK, LockHolder, NEW r \in DOMAIN reqs, NEW place \in Places, Goto(r, place),
         pc[r] \in UnderLock <=> place \in UnderLock, UNCHANGED <<reqs, locks>>
  PROVE  LockHolder'
<1>1. \A s \in DOMAIN reqs : pc'[s] \in UnderLock <=> pc[s] \in UnderLock
  BY GotoMoves
<1> QED
  BY <1>1 DEF LockHolder, PathOf

\* Every step of the pool keeps LockHolder.
LEMMA NextLockHolder == TypeOK /\ LockHolder /\ [Next]_vars => LockHolder'
<1> SUFFICES ASSUME TypeOK, LockHolder, [Next]_vars PROVE LockHolder'
  OBVIOUS
<1>0. \A r \in DOMAIN reqs : PathOf(r) \in Paths
  BY RequestNumbers, RequestFields DEF PathOf
<1>1. ASSUME NEW op \in Request(Len(reqs) + 1), Submit(op) PROVE LockHolder'
  <2> DEFINE new == Len(reqs) + 1
  <2>1. /\ op \in AnyRequest /\ DOMAIN reqs' = DOMAIN reqs \cup {new} /\ new \notin DOMAIN reqs
        /\ reqs'[new] = op /\ pc'[new] = "queued"
        /\ \A s \in DOMAIN reqs : reqs'[s] = reqs[s] /\ pc'[s] = pc[s]
    BY <1>1, SubmitAppends
  <2>2. locks' = locks
    BY <1>1 DEF Submit
  <2>3. op.path \in Paths
    BY <2>1, RequestFields
  <2>4. locks[op.path] # new
    BY <2>1, <2>3, RequestNumbers DEF TypeOK, Free
  <2>5. pc'[new] \in UnderLock <=> locks'[reqs'[new].path] = new
    BY <2>1, <2>2, <2>4 DEF UnderLock
  <2>6. \A s \in DOMAIN reqs : pc'[s] \in UnderLock <=> locks'[reqs'[s].path] = s
    BY <2>1, <2>2 DEF LockHolder, PathOf
  <2> QED
    BY <2>1, <2>5, <2>6 DEF LockHolder, PathOf
<1>2. CASE Shutdown
  BY <1>2 DEF Shutdown, LockHolder, PathOf
<1>3. CASE ShutdownNow
  BY <1>3, RequestNumbers DEF ShutdownNow, LockHolder, PathOf, Waiting, UnderLock
<1>4. ASSUME NEW r \in Requests, Begin(r) PROVE LockHolder'
  <2>1. r \in DOMAIN reqs /\ pc[r] = "queued"
    BY <1>4 DEF Begin, Waiting
  <2>2. \E place \in {"checked", "unlocked"} : Goto(r, place)
    BY <1>4 DEF Begin
  <2>3. UNCHANGED <<reqs, locks>>
    BY <1>4 DEF Begin
  <2> QED
    BY <2>1, <2>2, <2>3, SameSide DEF Places, UnderLock
<1>5. ASSUME NEW r \in Requests, Lock(r) PROVE LockHolder'
  <2>1. r \in DOMAIN reqs /\ pc[r] = "checked" /\ Goto(r, "locked") /\ locks[PathOf(r)] = Free
    BY <1>5 DEF Lock, At, MayLock
  <2>2. \A s \in DOMAIN reqs : pc'[s] = IF s = r THEN "locked" ELSE pc[s]
    BY <2>1, GotoMoves DEF Places, UnderLock
  <2>3. reqs' = reqs /\ locks' = [locks EXCEPT ![PathOf(r)] = r]
    BY <1>5 DEF Lock
  <2>4. \A p \in Paths : locks'[p] = IF p = PathOf(r) THEN r ELSE locks[p]
    BY <2>3 DEF TypeOK
  <2>5. ASSUME NEW s \in DOMAIN reqs
        PROVE  pc'[s] \in UnderLock <=> locks'[PathOf(s)] = s
    <3>1. CASE s = r
      BY <1>0, <2>1, <2>2, <2>4, <3>1 DEF UnderLock
    <3>2. CASE s # r
      BY <1>0, <2>1, <2>2, <2>4, <2>5, <3>2, RequestNumbers DEF LockHolder
    <3> QED
      BY <3>1, <3>2
  <2> QED
    BY <2>3, <2>5 DEF LockHolder, PathOf
<1>6. ASSUME NEW r \in Requests, Unlock(r) PROVE LockHolder'
  <2>1. r \in DOMAIN reqs /\ pc[r] = "done" /\ Goto(r, "unlocked")
    BY <1>6 DEF Unlock, At
  <2>2. \A s \in DOMAIN reqs : pc'[s] = IF s = r THEN "unlocked" ELSE pc[s]
    BY <2>1, GotoMoves DEF Places
  <2>3. reqs' = reqs /\ locks' = [locks EXCEPT ![PathOf(r)] = Free]
    BY <1>6 DEF Unlock, AfterUnlock
  <2>4. \A p \in Paths : locks'[p] = IF p = PathOf(r) THEN Free ELSE locks[p]
    BY <2>3 DEF TypeOK
  <2>5. ASSUME NEW s \in DOMAIN reqs
        PROVE  pc'[s] \in UnderLock <=> locks'[PathOf(s)] = s
    <3>1. CASE s = r
      BY <1>0, <2>1, <2>2, <2>4, <3>1, RequestNumbers DEF UnderLock
    <3>2. CASE s # r /\ PathOf(s) = PathOf(r)
      BY <1>0, <2>1, <2>2, <2>4, <2>5, <3>2, RequestNumbers, LocksDiffer DEF UnderLock
    <3>3. CASE s # r /\ PathOf(s) # PathOf(r)
      BY <1>0, <2>2, <2>4, <2>5, <3>3 DEF LockHolder
    <3> QED
      BY <3>1, <3>2, <3>3
  <2> QED
    BY <2>3, <2>5 DEF LockHolder, PathOf
<1>7. ASSUME NEW r \in Requests, Respond(r) PROVE LockHolder'
  <2>1. r \in DOMAIN reqs /\ pc[r] = "unlocked" /\ Goto(r, "answered") /\ UNCHANGED <<reqs, locks>>
    BY <1>7 DEF Respond, At
  <2> QED
    BY <2>1, SameSide DEF Places, UnderLock
<1>8. ASSUME NEW r \in Requests, \/ Size(r) \/ ReadBlocks(r) \/ OpenFile(r) \/ Truncate(r)
                                 \/ WriteBlocks(r) \/ Disturbed(r)
      PROVE  LockHolder'
  <2>1. r \in DOMAIN reqs /\ pc[r] \in UnderLock /\ UNCHANGED <<reqs, locks>>
    BY <1>8 DEF Size, ReadBlocks, OpenFile, Truncate, WriteBlocks, AtWrite, Disturbed, At, UnderLock
  <2>2. \E place \in UnderLock : Goto(r, place)
    BY <1>8 DEF Size, ReadBlocks, OpenFile, Truncate, WriteBlocks, Disturbed, Return, UnderLock
  <2> QED
    BY <2>1, <2>2, SameSide DEF Places
<1>9. CASE UNCHANGED vars
  BY <1>9 DEF vars, LockHolder, PathOf
<1> QED
  BY <1>1, <1>2, <1>3, <1>4, <1>5, <1>6, <1>7, <1>8, <1>9 DEF Next, Work, Terminated

\* No step removes a file, and only a worker under the lock of a file, which is
\* none of the readers about to read it, changes what is in it.
LEMMA FilesOfOthers ==
  ASSUME TypeOK, LockHolder, FileIsThere, [Next]_vars
  PROVE  /\ \A p \in Paths : files[p] # NoFile => files'[p] # NoFile
         /\ \A s \in DOMAIN reqs : pc[s] = "sized" => files'[PathOf(s)] = files[PathOf(s)]
<1>0. \A r \in DOMAIN reqs : PathOf(r) \in Paths /\ reqs[r].offset \in Nat
  BY RequestNumbers, RequestFields DEF PathOf
<1>1. ASSUME NEW r \in Requests, NEW content \in Seq(Blocks), r \in DOMAIN reqs,
             pc[r] \in UnderLock \ {"sized"}, files' = [files EXCEPT ![PathOf(r)] = content]
      PROVE  /\ \A p \in Paths : files[p] # NoFile => files'[p] # NoFile
             /\ \A s \in DOMAIN reqs : pc[s] = "sized" => files'[PathOf(s)] = files[PathOf(s)]
  <2>1. \A p \in Paths : files'[p] = IF p = PathOf(r) THEN content ELSE files[p]
    BY <1>1 DEF TypeOK
  <2>2. content # NoFile
    BY <1>1, NoFileIsNoSequence
  <2>3. \A s \in DOMAIN reqs : pc[s] = "sized" => PathOf(s) # PathOf(r)
    BY <1>1, LocksDiffer DEF UnderLock
  <2> QED
    BY <1>0, <2>1, <2>2, <2>3
<1>2. ASSUME NEW r \in Requests, OpenFile(r)
      PROVE  \E content \in Seq(Blocks) : files' = [files EXCEPT ![PathOf(r)] = content]
  <2>1. r \in DOMAIN reqs /\ files[PathOf(r)] \in Contents
    BY <1>0, <1>2 DEF OpenFile, At, TypeOK
  <2>2. files' = [files EXCEPT ![PathOf(r)] =
                    IF files[PathOf(r)] = NoFile THEN <<>> ELSE files[PathOf(r)]]
    BY <1>2 DEF OpenFile
  <2>3. (IF files[PathOf(r)] = NoFile THEN <<>> ELSE files[PathOf(r)]) \in Seq(Blocks)
    BY <2>1, EmptySeq DEF Contents
  <2> QED
    BY <2>2, <2>3
<1>3. ASSUME NEW r \in Requests, AtWrite(r), \E blocks \in Beginnings(reqs[r].data) : Put(r, blocks)
      PROVE  \E content \in Seq(Blocks) : files' = [files EXCEPT ![PathOf(r)] = content]
  <2>1. r \in DOMAIN reqs /\ pc[r] \in {"opened", "truncated"}
    BY <1>3 DEF AtWrite, At
  <2>2. PICK blocks \in Beginnings(reqs[r].data) : Put(r, blocks)
    BY <1>3
  <2>3. Written(files[PathOf(r)], reqs[r].offset, blocks) \in Seq(Blocks)
    BY <2>1, <2>2, PutBlocks
  <2>4. files' = [files EXCEPT ![PathOf(r)] = Written(files[PathOf(r)], reqs[r].offset, blocks)]
    BY <2>2 DEF Put
  <2> QED
    BY <2>3, <2>4
<1>4. ASSUME NEW r \in Requests, Truncate(r)
      PROVE  \E content \in Seq(Blocks) : files' = [files EXCEPT ![PathOf(r)] = content]
  <2>1. <<>> \in Seq(Blocks) /\ files' = [files EXCEPT ![PathOf(r)] = <<>>]
    BY <1>4, EmptySeq DEF Truncate
  <2> QED
    BY <2>1
<1>5. ASSUME NEW r \in Requests, OpenFile(r) \/ Truncate(r) \/ AtWrite(r)
      PROVE  r \in DOMAIN reqs /\ pc[r] \in UnderLock \ {"sized"}
  BY <1>5 DEF OpenFile, Truncate, AtWrite, At, UnderLock
<1>6. CASE UNCHANGED files
  BY <1>6
<1>7. \/ UNCHANGED files
      \/ \E r \in Requests :
           \/ OpenFile(r) \/ Truncate(r)
           \/ AtWrite(r) /\ \E blocks \in Beginnings(reqs[r].data) : Put(r, blocks)
  BY DEF Next, Work, Submit, Shutdown, ShutdownNow, Begin, Lock, Unlock, Respond, Size,
         ReadBlocks, WriteBlocks, Disturbed, Terminated, vars
<1> QED
  BY <1>1, <1>2, <1>3, <1>4, <1>5, <1>6, <1>7

\* Where a step may take a request: the places that need a file are reached
\* from places where it has been seen to be there.
LEMMA NextFileIsThere == TypeOK /\ LockHolder /\ FileIsThere /\ [Next]_vars => FileIsThere'
<1> SUFFICES ASSUME TypeOK, LockHolder, FileIsThere, [Next]_vars PROVE FileIsThere'
  OBVIOUS
<1> DEFINE Needs(s) == \/ pc[s] \in {"sized", "opened", "truncated"}
                       \/ reqs[s].kind = "read" /\ pc[s] \in {"checked", "locked"}
<1>0. /\ \A r \in DOMAIN reqs : PathOf(r) \in Paths
      /\ \A p \in Paths : files[p] # NoFile => files'[p] # NoFile
  BY RequestNumbers, RequestFields, FilesOfOthers DEF PathOf
<1>1. ASSUME reqs' = reqs, NEW r \in DOMAIN reqs,
             \A s \in DOMAIN reqs : s # r => pc'[s] = pc[s],
             Needs(r)' => Needs(r) \/ files'[PathOf(r)] # NoFile
      PROVE  FileIsThere'
  BY <1>0, <1>1 DEF FileIsThere, PathOf
<1>2. ASSUME NEW op \in Request(Len(reqs) + 1), Submit(op) PROVE FileIsThere'
  <2>1. /\ DOMAIN reqs' = DOMAIN reqs \cup {Len(reqs) + 1} /\ pc'[Len(reqs) + 1] = "queued"
        /\ \A s \in DOMAIN reqs : reqs'[s] = reqs[s] /\ pc'[s] = pc[s]
    BY <1>2, SubmitAppends
  <2>2. files' = files
    BY <1>2 DEF Submit
  <2> QED
    BY <2>1, <2>2 DEF FileIsThere, PathOf
<1>3. CASE Shutdown \/ UNCHANGED vars
  BY <1>3 DEF Shutdown, vars, FileIsThere, PathOf
<1>4. CASE ShutdownNow
  BY <1>4, RequestNumbers DEF ShutdownNow, FileIsThere, PathOf
<1>5. ASSUME NEW r \in Requests, Begin(r) PROVE FileIsThere'
  <2>1. r \in DOMAIN reqs /\ reqs' = reqs /\ files' = files
    BY <1>5 DEF Begin, Waiting
  <2>2. \E place \in {"checked", "unlocked"} : Goto(r, place)
    BY <1>5 DEF Begin
  <2>3. \A s \in DOMAIN reqs : s # r => pc'[s] = pc[s]
    BY <2>1, <2>2, GotoMoves DEF Places
  <2>4. pc'[r] = IF Verdict(reqs[r]) = Unknown THEN "checked" ELSE "unlocked"
    BY <1>5, <2>1, RequestNumbers DEF Begin, Goto, TypeOK
  <2>5. Verdict(reqs[r]) = Unknown /\ reqs[r].kind = "read" => files[PathOf(r)] # NoFile
    BY DEF Verdict, Unknown, Refusal, Result, PathOf
  <2> QED
    BY <1>1, <2>1, <2>3, <2>4, <2>5 DEF PathOf
<1>6. ASSUME NEW r \in Requests, Lock(r) \/ Unlock(r) \/ Respond(r) \/ Size(r) \/ ReadBlocks(r)
                                 \/ Truncate(r) \/ WriteBlocks(r) \/ Disturbed(r)
      PROVE  FileIsThere'
  <2>1. r \in DOMAIN reqs /\ reqs' = reqs
    BY <1>6 DEF Lock, Unlock, Respond, Size, ReadBlocks, Truncate, WriteBlocks, AtWrite,
                Disturbed, At
  <2>2. \E place \in {"locked", "sized", "truncated", "done", "unlocked", "answered"} :
          /\ Goto(r, place)
          /\ place = "locked" => pc[r] = "checked"
          /\ place = "sized" => pc[r] = "locked" /\ reqs[r].kind = "read"
          /\ place = "truncated" => pc[r] = "opened"
    BY <1>6 DEF Lock, Unlock, Respond, Size, ReadBlocks, Truncate, WriteBlocks, Disturbed,
                Return, At
  <2>3. /\ \A s \in DOMAIN reqs : s # r => pc'[s] = pc[s]
        /\ Needs(r)' => Needs(r)
    BY <2>1, <2>2, GotoMoves DEF Places, UnderLock
  <2> QED
    BY <1>1, <2>1, <2>3
<1>7. ASSUME NEW r \in Requests, OpenFile(r) PROVE FileIsThere'
  <2>1. r \in DOMAIN reqs /\ Goto(r, "opened") /\ reqs' = reqs
    BY <1>7 DEF OpenFile, At
  <2>2. \A s \in DOMAIN reqs : s # r => pc'[s] = pc[s]
    BY <2>1, GotoMoves DEF Places, UnderLock
  <2>3. files'[PathOf(r)] # NoFile
    BY <1>0, <1>7, <2>1, EmptySeq, NoFileIsNoSequence DEF OpenFile, TypeOK
  <2> QED
    BY <1>1, <2>1, <2>2, <2>3
<1> QED
  BY <1>2, <1>3, <1>4, <1>5, <1>6, <1>7 DEF Next, Work, Terminated

\* Every step of the pool keeps SizeStillHolds.
LEMMA NextSizeStillHolds == TransferInv /\ [Next]_vars => SizeStillHolds'
<1> SUFFICES ASSUME TransferInv, [Next]_vars PROVE SizeStillHolds'
  OBVIOUS
<1> USE DEF TransferInv
<1>0. \A s \in DOMAIN reqs : pc[s] = "sized" => files'[PathOf(s)] = files[PathOf(s)]
  BY FilesOfOthers
<1>1. ASSUME NEW s \in DOMAIN reqs', pc'[s] = "sized",
             s \in DOMAIN reqs, pc[s] = "sized", sizes'[s] = sizes[s], reqs'[s] = reqs[s]
      PROVE  sizes'[s] = Len(files'[reqs'[s].path])
  BY <1>0, <1>1 DEF SizeStillHolds, PathOf
<1>2. ASSUME NEW s \in DOMAIN reqs', pc'[s] = "sized" 
      PROVE  sizes'[s] = Len(files'[reqs'[s].path])
  <2>1. ASSUME NEW op \in Request(Len(reqs) + 1), Submit(op)
        PROVE  s \in DOMAIN reqs /\ pc[s] = "sized" /\ sizes'[s] = sizes[s] /\ reqs'[s] = reqs[s]
    BY <1>2, <2>1, SubmitAppends
  <2>2. ASSUME NEW r \in Requests, Size(r), s = r
        PROVE  sizes'[s] = Len(files'[reqs'[s].path])
    <3>1. r \in DOMAIN reqs /\ reqs' = reqs /\ files' = files
      BY <2>2 DEF Size, At
    <3>2. ~Goto(r, "done")
      BY <1>2, <2>2, <3>1, GotoMoves DEF Places, UnderLock
    <3>3. sizes' = [sizes EXCEPT ![r] = Len(files[PathOf(r)])]
      BY <2>2, <3>2 DEF Size
    <3> QED
      BY <2>2, <3>1, <3>3, RequestNumbers DEF PathOf
  <2>3. ASSUME NEW r \in Requests, Work(r) \/ Disturbed(r), ~(Size(r) /\ s = r)
        PROVE  s \in DOMAIN reqs /\ pc[s] = "sized" /\ sizes'[s] = sizes[s] /\ reqs'[s] = reqs[s]
    <3>1. r \in DOMAIN reqs /\ reqs' = reqs
      BY <2>3 DEF Work, Begin, Waiting, Lock, Unlock, Respond, Size, ReadBlocks, OpenFile,
         Truncate, WriteBlocks, AtWrite, Disturbed, At
    <3>2. \E place \in Places : Goto(r, place) /\ (place = "sized" => Size(r))
      BY <2>3 DEF Work, Begin, Lock, Unlock, Respond, Size, ReadBlocks, OpenFile,
         Truncate, WriteBlocks, Disturbed, Return, Places, UnderLock
    <3>3. pc[s] = "sized" /\ (Size(r) => s # r)
      BY <1>2, <2>3, <3>1, <3>2, GotoMoves
    <3>4. CASE Return(r)
      <4>1. s # r
        BY <1>2, <3>1, <3>4, GotoMoves DEF Return, Places, UnderLock
      <4> QED
        BY <1>2, <3>1, <3>3, <3>4, <4>1, ReturnForgets
    <3>5. CASE ~Return(r)
      <4>1. sizes'[s] = sizes[s]
        BY <2>3, <3>1, <3>3, <3>5, RequestNumbers DEF Work, Begin, Lock, Unlock, Respond, Size,
           ReadBlocks, OpenFile, Truncate, WriteBlocks, Disturbed, TypeOK
      <4> QED
        BY <1>2, <3>1, <3>3, <4>1
    <3> QED
      BY <3>4, <3>5
  <2>4. CASE Shutdown \/ UNCHANGED vars
    BY <1>1, <1>2, <2>4 DEF Shutdown, vars
  <2>5. CASE ShutdownNow
    BY <1>1, <1>2, <2>5, RequestNumbers DEF ShutdownNow
  <2> QED
    BY <1>1, <1>2, <2>1, <2>2, <2>3, <2>4, <2>5 DEF Next, Terminated
<1> QED
  BY <1>2 DEF SizeStillHolds, PathOf

\* The invariant holds initially and every step keeps it.
LEMMA InitInv == Init => TransferInv
  BY InitTypeOK DEF Init, AtomicInit, TransferInv, LockHolder, FileIsThere, SizeStillHolds

\* See InitInv.
LEMMA NextInv == TransferInv /\ [Next]_vars => TransferInv'
  BY NextTypeOK, NextLockHolder, NextFileIsThere, NextSizeStillHolds DEF TransferInv

\* Every variable of the pool keeps its type.
THEOREM TransferTypeCorrect == Spec => []TypeOK
<1>1. TransferInv => TypeOK
  BY DEF TransferInv
<1> QED
  BY <1>1, InitInv, NextInv, PTL DEF Spec

\* fileLocks keeps any two workers off the same file, whatever the pool's size
\* and however many requests it is given.
THEOREM LocksAreExclusive == Spec => []LockHolder
<1>1. TransferInv => LockHolder
  BY DEF TransferInv
<1> QED
  BY <1>1, InitInv, NextInv, PTL DEF Spec

\* The size readChunk asked for, with which it decides what to read and whether
\* that is the end, is still the size of the file when it reads.
THEOREM ReadersSeeTheirSize == Spec => []SizeStillHolds
<1>1. TransferInv => SizeStillHolds
  BY DEF TransferInv
<1> QED
  BY <1>1, InitInv, NextInv, PTL DEF Spec

-----------------------------------------------------------------------------
(* The pool implements AtomicFile.                                         *)

Writing(r) == pc[r] \in {"opened", "truncated"}
Undecided == {"queued", "checked", "dropped"} \cup (UnderLock \ {"done"})
OpenedAs(content) == IF content = NoFile THEN <<>> ELSE content

\* How far a request is says what it is, whether it has its result, and what
\* it has done to its file so far.
Stands(r) ==
  /\ results[r] = Unknown <=> pc[r] \in Undecided
  /\ pc[r] \in {"checked"} \cup UnderLock => PathOf(r) \notin Refused
  /\ pc[r] = "sized" => reqs[r].kind = "read"
  /\ Writing(r) => reqs[r].kind = "write"
  /\ pc[r] = "opened" => files[PathOf(r)] = OpenedAs(saved[r])
  /\ pc[r] = "truncated" => files[PathOf(r)] = <<>> /\ reqs[r].offset = 0

Progress ==
  /\ \A p \in Paths : locks[p] # Free => PathOf(locks[p]) = p
  /\ \A r \in DOMAIN reqs : Stands(r)

\* What AtomicFile sees of a file is what is in it, unless a worker has opened
\* it for a write: then it is what that worker found.
VisibleIs ==
  /\ \A r \in DOMAIN reqs : Writing(r) => VisibleFiles[PathOf(r)] = saved[r]
  /\ \A p \in Paths :
       (\A r \in DOMAIN reqs : PathOf(r) = p => ~Writing(r)) => VisibleFiles[p] = files[p]

\* See VisibleIs.
LEMMA VisibleFacts == TypeOK /\ LockHolder /\ Progress => VisibleIs
<1> SUFFICES ASSUME TypeOK, LockHolder, Progress PROVE VisibleIs
  OBVIOUS
<1>1. ASSUME NEW r \in DOMAIN reqs, Writing(r)
      PROVE  VisibleFiles[PathOf(r)] = saved[r]
  <2>1. PathOf(r) \in Paths /\ r # Free
    BY RequestNumbers, RequestFields DEF PathOf
  <2>2. locks[PathOf(r)] = r
    BY <1>1 DEF LockHolder, Writing, UnderLock
  <2> QED
    BY <1>1, <2>1, <2>2 DEF VisibleFiles, Writing
<1>2. ASSUME NEW p \in Paths, \A r \in DOMAIN reqs : PathOf(r) = p => ~Writing(r)
      PROVE  VisibleFiles[p] = files[p]
  <2>1. locks[p] # Free => locks[p] \in DOMAIN reqs /\ PathOf(locks[p]) = p
    BY DEF TypeOK, Progress
  <2>2. locks[p] # Free => pc[locks[p]] \notin {"opened", "truncated"}
    BY <1>2, <2>1 DEF Writing
  <2> QED
    BY <2>2 DEF VisibleFiles
<1> QED
  BY <1>1, <1>2 DEF VisibleIs

\* A worker that finds a result leaves those of the others alone.
LEMMA FoundFinds ==
  ASSUME TypeOK, NEW r \in DOMAIN reqs, NEW result, Found(r, result)
  PROVE  \A s \in DOMAIN reqs : results'[s] = IF s = r THEN result ELSE results[s]
<1>1. DOMAIN results = DOMAIN reqs
  BY RequestNumbers
<1> QED
  BY <1>1 DEF Found

\* What one worker does concerns its own request and the file it has locked.
LEMMA WorkersKeepApart ==
  ASSUME TypeOK, NEW r \in Requests, Work(r) \/ Disturbed(r)
  PROVE  /\ r \in DOMAIN reqs /\ reqs' = reqs
         /\ \A s \in DOMAIN reqs : s # r =>
              pc'[s] = pc[s] /\ results'[s] = results[s] /\ saved'[s] = saved[s]
         /\ \/ files' = files
            \/ /\ pc[r] \in UnderLock
               /\ \A p \in Paths : p # PathOf(r) => files'[p] = files[p]
         /\ \/ locks' = locks
            \/ \E x \in {r, Free} : locks' = [locks EXCEPT ![PathOf(r)] = x]
<1>1. r \in DOMAIN reqs /\ reqs' = reqs
  BY DEF Work, Begin, Waiting, Lock, Unlock, Respond, Size, ReadBlocks, OpenFile, Truncate,
         WriteBlocks, AtWrite, Disturbed, At
<1>2. \E place \in Places : Goto(r, place)
  BY DEF Work, Begin, Lock, Unlock, Respond, Size, ReadBlocks, OpenFile, Truncate,
         WriteBlocks, Disturbed, Return, Places, UnderLock
<1>3. \A s \in DOMAIN reqs : s # r => pc'[s] = pc[s]
  BY <1>1, <1>2, GotoMoves
<1>4. results' = results \/ \E result : Found(r, result)
  BY DEF Work, Begin, Lock, Unlock, Respond, Size, ReadBlocks, OpenFile, Truncate,
         WriteBlocks, Disturbed
<1>5. \A s \in DOMAIN reqs : s # r => results'[s] = results[s]
  BY <1>1, <1>4, FoundFinds
<1>6. saved' = saved \/ \E content : saved' = [saved EXCEPT ![r] = content]
  BY DEF Work, Begin, Lock, Unlock, Respond, Size, ReadBlocks, OpenFile, Truncate,
         WriteBlocks, Disturbed, Return
<1>7. \A s \in DOMAIN reqs : s # r => saved'[s] = saved[s]
  BY <1>6, RequestNumbers
<1>8. \/ files' = files
      \/ pc[r] \in UnderLock /\ \E content : files' = [files EXCEPT ![PathOf(r)] = content]
  BY DEF Work, Begin, Lock, Unlock, Respond, Size, ReadBlocks, OpenFile, Truncate,
         WriteBlocks, AtWrite, Put, Disturbed, At, UnderLock
<1>9. \/ files' = files
      \/ pc[r] \in UnderLock /\ \A p \in Paths : p # PathOf(r) => files'[p] = files[p]
  BY <1>8 DEF TypeOK
<1>10. \/ locks' = locks
       \/ \E x \in {r, Free} : locks' = [locks EXCEPT ![PathOf(r)] = x]
  BY DEF Work, Begin, Lock, Unlock, AfterUnlock, Respond, Size, ReadBlocks, OpenFile,
         Truncate, WriteBlocks, Disturbed
<1> QED
  BY <1>1, <1>3, <1>5, <1>7, <1>9, <1>10

\* So the other requests stand where they stood.
LEMMA OthersStand ==
  ASSUME TypeOK, LockHolder, Progress, NEW r \in Requests, Work(r) \/ Disturbed(r),
         Stands(r)'
  PROVE  Progress'
<1>1. /\ r \in DOMAIN reqs /\ reqs' = reqs
      /\ \A s \in DOMAIN reqs : s # r =>
           pc'[s] = pc[s] /\ results'[s] = results[s] /\ saved'[s] = saved[s]
      /\ \/ files' = files
         \/ /\ pc[r] \in UnderLock
            /\ \A p \in Paths : p # PathOf(r) => files'[p] = files[p]
      /\ \/ locks' = locks
         \/ \E x \in {r, Free} : locks' = [locks EXCEPT ![PathOf(r)] = x]
  BY WorkersKeepApart
<1>2. \A s \in DOMAIN reqs : PathOf(s) \in Paths
  BY RequestNumbers, RequestFields DEF PathOf
<1>3. ASSUME NEW s \in DOMAIN reqs, s # r PROVE Stands(s)'
  <2>1. Stands(s) /\ PathOf(s)' = PathOf(s)
    BY <1>1 DEF Progress, PathOf
  <2>2. Writing(s) => files'[PathOf(s)] = files[PathOf(s)]
    <3>1. ASSUME Writing(s), pc[r] \in UnderLock PROVE PathOf(s) # PathOf(r)
      BY <1>1, <1>3, <3>1, LocksDiffer DEF Writing, UnderLock
    <3> QED
      BY <1>1, <1>2, <3>1
  <2>3. pc'[s] = pc[s] /\ results'[s] = results[s] /\ saved'[s] = saved[s] /\ reqs'[s] = reqs[s]
    BY <1>1, <1>3
  <2> QED
    BY <2>1, <2>2, <2>3 DEF Stands, Writing
<1>4. ASSUME NEW p \in Paths, locks'[p] # Free PROVE PathOf(locks[p])' = p
  <2>1. CASE locks'[p] = locks[p]
    BY <1>1, <1>4, <2>1 DEF Progress, PathOf
  <2>2. CASE locks'[p] # locks[p]
    <3>1. p = PathOf(r) /\ locks'[p] = r
      BY <1>1, <1>4, <2>2 DEF TypeOK
    <3> QED
      BY <1>1, <3>1 DEF PathOf
  <2> QED
    BY <2>1, <2>2
<1> QED
  BY <1>1, <1>3, <1>4 DEF Progress

\* Results of different kinds differ.
LEMMA ResultsDiffer ==
  /\ \A chunk : Result("OK", chunk) # Unknown
  /\ \A status \in {"REFUSED", "NOT_FOUND", "IO_ERROR"} : Refusal(status) # Unknown
<1>1. \A status, chunk : Result(status, chunk).status = status
  BY DEF Result
<1> QED
  BY <1>1 DEF Refusal, Unknown

\* A worker that has decided stands with its result.
LEMMA DecidedStands ==
  ASSUME TypeOK, NEW r \in DOMAIN reqs, Stands(r), reqs' = reqs, Goto(r, "done"),
         pc[r] \in UnderLock, NEW result, result # Unknown, Found(r, result)
  PROVE  Stands(r)'
<1>1. pc'[r] = "done"
  BY GotoMoves DEF Places, UnderLock
<1>2. results'[r] # Unknown
  BY FoundFinds
<1>3. PathOf(r)' \notin Refused
  BY DEF Stands, PathOf
<1> QED
  BY <1>1, <1>2, <1>3 DEF Stands, Writing, Undecided

\* Every step of the pool keeps Progress.
LEMMA NextProgress == TransferInv /\ Progress /\ [Next]_vars => Progress'
<1> SUFFICES ASSUME TransferInv, Progress, [Next]_vars PROVE Progress'
  OBVIOUS
<1>0. TypeOK /\ LockHolder /\ FileIsThere
  BY DEF TransferInv
<1>1. \A r \in DOMAIN reqs : PathOf(r) \in Paths /\ Stands(r)
  BY <1>0, RequestNumbers, RequestFields DEF PathOf, Progress
<1>2. ASSUME NEW op \in Request(Len(reqs) + 1), Submit(op) PROVE Progress'
  <2>0. PICK new \in Nat : new = Len(reqs) + 1
    BY <1>0, RequestNumbers
  <2>1. /\ DOMAIN reqs' = DOMAIN reqs \cup {new} /\ new \notin DOMAIN reqs /\ pc'[new] = "queued"
        /\ \A s \in DOMAIN reqs : reqs'[s] = reqs[s] /\ pc'[s] = pc[s]
    BY <1>0, <1>2, <2>0, SubmitAppends
  <2>2. /\ results' = Append(results, Unknown) /\ saved' = Append(saved, NoFile)
        /\ files' = files /\ locks' = locks
    BY <1>2 DEF Submit
  <2>3. /\ results \in Seq([status : Statuses, chunk : Seq(Blocks)]) /\ Len(results) = Len(reqs)
        /\ saved \in Seq(Contents) /\ Len(saved) = Len(reqs)
        /\ Unknown \in [status : Statuses, chunk : Seq(Blocks)] /\ NoFile \in Contents
    BY <1>0 DEF TypeOK, Contents, Unknown, Result, Statuses
  <2>4. results'[new] = Unknown /\ \A s \in DOMAIN reqs : results'[s] = results[s]
    BY <1>0, <2>0, <2>2, <2>3, AppendProperties, RequestNumbers
  <2>5. \A s \in DOMAIN reqs : saved'[s] = saved[s]
    BY <1>0, <2>2, <2>3, AppendProperties, RequestNumbers
  <2>6. ASSUME NEW s \in DOMAIN reqs PROVE Stands(s)'
    <3>1. PathOf(s)' = PathOf(s)
      BY <2>1 DEF PathOf
    <3> QED
      BY <1>1, <2>1, <2>2, <2>4, <2>5, <3>1 DEF Stands, Writing
  <2>7. Stands(new)'
    BY <2>1, <2>4 DEF Stands, Writing, Undecided, UnderLock
  <2>8. ASSUME NEW p \in Paths, locks'[p] # Free PROVE PathOf(locks[p])' = p
    BY <1>0, <2>1, <2>2, <2>8 DEF Progress, PathOf, TypeOK
  <2> QED
    BY <2>1, <2>6, <2>7, <2>8 DEF Progress
<1>3. CASE Shutdown \/ UNCHANGED vars
  BY <1>3 DEF Shutdown, vars, Progress, Stands, Writing, PathOf
<1>4. CASE ShutdownNow
  <2>1. /\ UNCHANGED <<files, reqs, results, locks, saved>>
        /\ \A s \in DOMAIN reqs :
             \/ pc'[s] = pc[s]
             \/ pc[s] = "queued" /\ pc'[s] = "dropped"
    BY <1>0, <1>4, RequestNumbers DEF ShutdownNow, Waiting
  <2>2. ASSUME NEW s \in DOMAIN reqs PROVE Stands(s)'
    <3>1. CASE pc'[s] = pc[s]
      BY <1>1, <2>1, <3>1 DEF Stands, Writing, PathOf
    <3>2. CASE pc[s] = "queued" /\ pc'[s] = "dropped"
      BY <1>1, <2>1, <3>2 DEF Stands, Writing, Undecided, UnderLock
    <3> QED
      BY <2>1, <3>1, <3>2
  <2> QED
    BY <2>1, <2>2 DEF Progress, PathOf
<1>5. ASSUME NEW r \in Requests, Work(r) \/ Disturbed(r) PROVE Progress'
  <2> SUFFICES Stands(r)'
    BY <1>0, <1>5, OthersStand
  <2>1. r \in DOMAIN reqs /\ reqs' = reqs /\ Stands(r) /\ PathOf(r) \in Paths
        /\ PathOf(r)' = PathOf(r)
    BY <1>0, <1>1, <1>5, WorkersKeepApart DEF PathOf
  <2>2. ASSUME Begin(r) PROVE Stands(r)'
    <3> DEFINE place == IF Verdict(reqs[r]) = Unknown THEN "checked" ELSE "unlocked"
    <3>1. Goto(r, place) /\ place \in Places
      BY <2>2 DEF Begin, Places
    <3>2. pc'[r] = place
      BY <1>0, <2>1, <3>1, GotoMoves
    <3>3. results'[r] = Verdict(reqs[r])
      BY <1>0, <2>1, <2>2, FoundFinds DEF Begin
    <3>4. Verdict(reqs[r]) = Unknown => PathOf(r) \notin Refused
      BY ResultsDiffer DEF Verdict, PathOf
    <3> QED
      BY <2>1, <3>2, <3>3, <3>4 DEF Stands, Writing, Undecided, UnderLock
  <2>3. ASSUME Lock(r) PROVE Stands(r)'
    <3>1. pc[r] = "checked" /\ Goto(r, "locked") /\ results' = results
      BY <2>3 DEF Lock, At
    <3>2. pc'[r] = "locked"
      BY <1>0, <2>1, <3>1, GotoMoves DEF Places, UnderLock
    <3> QED
      BY <2>1, <3>1, <3>2 DEF Stands, Writing, Undecided, UnderLock
  <2>4. ASSUME Unlock(r) PROVE Stands(r)'
    <3>1. pc[r] = "done" /\ Goto(r, "unlocked") /\ results' = results
      BY <2>4 DEF Unlock, At
    <3>2. pc'[r] = "unlocked"
      BY <1>0, <2>1, <3>1, GotoMoves DEF Places
    <3> QED
      BY <2>1, <3>1, <3>2 DEF Stands, Writing, Undecided, UnderLock
  <2>5. ASSUME Respond(r) PROVE Stands(r)'
    <3>1. pc[r] = "unlocked" /\ Goto(r, "answered") /\ results' = results
      BY <2>5 DEF Respond, At
    <3>2. pc'[r] = "answered"
      BY <1>0, <2>1, <3>1, GotoMoves DEF Places
    <3> QED
      BY <2>1, <3>1, <3>2 DEF Stands, Writing, Undecided, UnderLock
  <2>6. ASSUME Size(r) PROVE Stands(r)'
    <3>1. pc[r] = "locked" /\ pc[r] \in UnderLock /\ reqs[r].kind = "read"
      BY <2>6 DEF Size, At, UnderLock
    <3>2. CASE Goto(r, "done") /\ Found(r, Result("OK", <<>>))
      BY <1>0, <2>1, <3>1, <3>2, DecidedStands, ResultsDiffer
    <3>3. CASE Goto(r, "sized") /\ UNCHANGED results
      <4>1. pc'[r] = "sized"
        BY <1>0, <2>1, <3>3, GotoMoves DEF Places, UnderLock
      <4> QED
        BY <2>1, <3>1, <3>3, <4>1 DEF Stands, Writing, Undecided, UnderLock
    <3> QED
      BY <2>6, <3>2, <3>3 DEF Size
  <2>7. ASSUME ReadBlocks(r) \/ WriteBlocks(r) \/ Disturbed(r) PROVE Stands(r)'
    <3>1. pc[r] \in UnderLock /\ Goto(r, "done")
      BY <2>7 DEF ReadBlocks, WriteBlocks, AtWrite, Disturbed, Return, At, UnderLock
    <3>2. (\E chunk : Found(r, Result("OK", chunk))) \/ Found(r, Refusal("IO_ERROR"))
      BY <2>7 DEF ReadBlocks, WriteBlocks, Disturbed
    <3>3. \E result : result # Unknown /\ Found(r, result)
      BY <3>2, ResultsDiffer
    <3> QED
      BY <1>0, <2>1, <3>1, <3>3, DecidedStands
  <2>8. ASSUME OpenFile(r) PROVE Stands(r)'
    <3>1. pc[r] = "locked" /\ reqs[r].kind = "write" /\ Goto(r, "opened") /\ results' = results
      BY <2>8 DEF OpenFile, At
    <3>2. pc'[r] = "opened"
      BY <1>0, <2>1, <3>1, GotoMoves DEF Places, UnderLock
    <3>3. saved'[r] = files[PathOf(r)]
      BY <1>0, <2>1, <2>8, RequestNumbers DEF OpenFile
    <3>4. files'[PathOf(r)] = OpenedAs(files[PathOf(r)])
      BY <1>0, <2>1, <2>8 DEF OpenFile, TypeOK, OpenedAs
    <3> QED
      BY <2>1, <3>1, <3>2, <3>3, <3>4 DEF Stands, Writing, Undecided, UnderLock
  <2>9. ASSUME Truncate(r) PROVE Stands(r)'
    <3>1. pc[r] = "opened" /\ reqs[r].offset = 0 /\ Goto(r, "truncated") /\ results' = results
      BY <2>9 DEF Truncate, At
    <3>2. pc'[r] = "truncated"
      BY <1>0, <2>1, <3>1, GotoMoves DEF Places, UnderLock
    <3>3. files'[PathOf(r)] = <<>>
      BY <1>0, <2>1, <2>9 DEF Truncate, TypeOK
    <3> QED
      BY <2>1, <3>1, <3>2, <3>3 DEF Stands, Writing, Undecided, UnderLock
  <2> QED
    BY <1>5, <2>2, <2>3, <2>4, <2>5, <2>6, <2>7, <2>8, <2>9 DEF Work
<1> QED
  BY <1>2, <1>3, <1>4, <1>5 DEF Next, Terminated

\* Init takes the pool to a state of AtomicFile where nothing is there yet.
LEMMA InitRefines == Init => Progress /\ Atomic!AtomicInit
<1> SUFFICES ASSUME Init PROVE Progress /\ Atomic!AtomicInit
  OBVIOUS
<1>1. reqs = <<>> /\ DOMAIN reqs = {} /\ \A p \in Paths : locks[p] = Free
  BY DEF Init, AtomicInit
<1>2. Progress
  BY <1>1 DEF Progress
<1>3. VisibleFiles = [p \in Paths |-> NoFile]
  BY <1>1 DEF Init, AtomicInit, VisibleFiles
<1> QED
  BY <1>2, <1>3 DEF Init, AtomicInit, Atomic!AtomicInit

\* The helpers of AtomicFile mean the same on both sides of the mapping.
LEMMA SameData ==
  /\ Atomic!Unknown = Unknown /\ Atomic!Requests = Requests
  /\ \A status, chunk : Atomic!Result(status, chunk) = Result(status, chunk)
  /\ \A status : Atomic!Refusal(status) = Refusal(status)
  /\ \A r : Atomic!Request(r) = Request(r)
  /\ \A op, content : Atomic!Base(op, content) = Base(op, content)
  /\ \A content, offset : Atomic!ChunkOf(content, offset) = ChunkOf(content, offset)
  /\ \A content, offset, data :
       Atomic!Written(content, offset, data) = Written(content, offset, data)
  /\ \A data : Atomic!Beginnings(data) = Beginnings(data)
<1>1. \A status, chunk : Atomic!Result(status, chunk) = Result(status, chunk)
  BY DEF Result, Atomic!Result
<1>2. Atomic!Unknown = Unknown /\ \A status : Atomic!Refusal(status) = Refusal(status)
  BY <1>1 DEF Unknown, Atomic!Unknown, Refusal, Atomic!Refusal
<1>3. Atomic!Requests = Requests /\ \A r : Atomic!Request(r) = Request(r)
  BY DEF Requests, Atomic!Requests, Request, Atomic!Request, Chunk, Atomic!Chunk
<1>4. \A op, content : Atomic!Base(op, content) = Base(op, content)
  BY DEF Base, Atomic!Base, IsTruncating, Atomic!IsTruncating
<1>5. \A content, offset : Atomic!ChunkOf(content, offset) = ChunkOf(content, offset)
  BY DEF ChunkOf, Atomic!ChunkOf, Shortest, Atomic!Shortest
<1>6. \A content, offset, data :
        Atomic!Written(content, offset, data) = Written(content, offset, data)
  BY DEF Written, Atomic!Written, Longest, Atomic!Longest
<1>7. \A data : Atomic!Beginnings(data) = Beginnings(data)
  BY DEF Beginnings, Atomic!Beginnings
<1> QED
  BY <1>1, <1>2, <1>3, <1>4, <1>5, <1>6, <1>7

\* What a write puts in a file is the same on both sides, too.
LEMMA SameBlocks ==
  ASSUME NEW op, NEW blocks,
         VisibleFiles' = [VisibleFiles EXCEPT ![op.path] =
                            Written(Base(op, VisibleFiles[op.path]), op.offset, blocks)]
  PROVE  VisibleFiles' = Atomic!WithBlocks(op, blocks)
BY SameData DEF Atomic!WithBlocks

\* Who holds the lock of a file without having opened it for a write sees it as
\* AtomicFile does.
HolderView ==
  \A r \in DOMAIN reqs :
    pc[r] \in UnderLock /\ ~Writing(r) => VisibleFiles[PathOf(r)] = files[PathOf(r)]

\* See HolderView.
LEMMA HolderSees == TypeOK /\ LockHolder /\ VisibleIs => HolderView
<1> SUFFICES ASSUME TypeOK, LockHolder, VisibleIs, NEW r \in DOMAIN reqs,
                    pc[r] \in UnderLock, ~Writing(r)
             PROVE  VisibleFiles[PathOf(r)] = files[PathOf(r)]
  BY DEF HolderView
<1>1. PathOf(r) \in Paths
  BY RequestNumbers, RequestFields DEF PathOf
<1>2. ASSUME NEW s \in DOMAIN reqs, PathOf(s) = PathOf(r) PROVE ~Writing(s)
  BY <1>2 DEF LockHolder, Writing, UnderLock
<1> QED
  BY <1>1, <1>2 DEF VisibleIs

\* Other files look as before, and so does the worker's own unless it has to do
\* with writing to it.
LEMMA OthersLookTheSame ==
  ASSUME TypeOK, VisibleIs, VisibleIs', NEW r \in Requests, Work(r) \/ Disturbed(r),
         NEW p \in Paths,
         p = PathOf(r) => ~Writing(r) /\ ~Writing(r)' /\ files' = files
  PROVE  VisibleFiles'[p] = VisibleFiles[p]
<1>1. /\ r \in DOMAIN reqs /\ reqs' = reqs
      /\ \A s \in DOMAIN reqs : s # r => pc'[s] = pc[s] /\ saved'[s] = saved[s]
      /\ files' = files \/ \A q \in Paths : q # PathOf(r) => files'[q] = files[q]
  BY WorkersKeepApart
<1>2. \A s \in DOMAIN reqs :
        /\ PathOf(s)' = PathOf(s)
        /\ PathOf(s) = p => (Writing(s)' <=> Writing(s))
  BY <1>1 DEF PathOf, Writing
<1>3. CASE \E s \in DOMAIN reqs : PathOf(s) = p /\ Writing(s)
  <2>1. PICK s \in DOMAIN reqs : PathOf(s) = p /\ Writing(s)
    BY <1>3
  <2>2. s # r /\ saved'[s] = saved[s]
    BY <1>1, <2>1
  <2>3. VisibleFiles[p] = saved[s]
    BY <2>1 DEF VisibleIs
  <2>4. VisibleFiles'[p] = saved'[s]
    BY <1>1, <1>2, <2>1 DEF VisibleIs
  <2> QED
    BY <2>2, <2>3, <2>4
<1>4. CASE \A s \in DOMAIN reqs : PathOf(s) = p => ~Writing(s)
  <2>1. VisibleFiles[p] = files[p]
    BY <1>4 DEF VisibleIs
  <2>2. VisibleFiles'[p] = files'[p]
    BY <1>1, <1>2, <1>4 DEF VisibleIs
  <2> QED
    BY <1>1, <2>1, <2>2
<1> QED
  BY <1>3, <1>4

\* So a step of a worker changes what AtomicFile sees of its own file only.
LEMMA OneFileChanges ==
  ASSUME TypeOK, VisibleIs, VisibleIs', NEW r \in Requests, Work(r) \/ Disturbed(r)
  PROVE  /\ VisibleFiles' = [VisibleFiles EXCEPT ![PathOf(r)] = VisibleFiles'[PathOf(r)]]
         /\ VisibleFiles'[PathOf(r)] = VisibleFiles[PathOf(r)] => VisibleFiles' = VisibleFiles
         /\ ~Writing(r) /\ ~Writing(r)' /\ files' = files => VisibleFiles' = VisibleFiles
<1>1. \A p \in Paths : p # PathOf(r) => VisibleFiles'[p] = VisibleFiles[p]
  BY OthersLookTheSame
<1>2. /\ VisibleFiles = [p \in Paths |-> VisibleFiles[p]]
      /\ VisibleFiles' = [p \in Paths |-> VisibleFiles'[p]]
  BY DEF VisibleFiles
<1>3. ASSUME ~Writing(r), ~Writing(r)', files' = files PROVE VisibleFiles' = VisibleFiles
  <2>1. \A p \in Paths : VisibleFiles'[p] = VisibleFiles[p]
    BY <1>3, OthersLookTheSame
  <2> QED
    BY <1>2, <2>1
<1>4. VisibleFiles' = [VisibleFiles EXCEPT ![PathOf(r)] = VisibleFiles'[PathOf(r)]]
  BY <1>1, <1>2
<1>5. VisibleFiles'[PathOf(r)] = VisibleFiles[PathOf(r)] => VisibleFiles' = VisibleFiles
  BY <1>1, <1>2
<1> QED
  BY <1>3, <1>4, <1>5

\* What a request that is still to be decided may do in AtomicFile.
LEMMA UndecidedIsOpen ==
  ASSUME TypeOK, NEW r \in DOMAIN reqs, Stands(r), pc[r] \in Undecided \ {"dropped"}
  PROVE  Atomic!Open(r)
<1>1. results[r] = Unknown
  BY DEF Stands
<1>2. r \notin gone
  BY DEF TypeOK, Undecided, UnderLock
<1> QED
  BY <1>1, <1>2, SameData DEF Atomic!Open

\* Every step of a worker is a step of AtomicFile on its request, or no step.
LEMMA WorkRefines ==
  ASSUME TransferInv, TransferInv', Progress, Progress', NEW r \in Requests,
         Work(r) \/ Disturbed(r)
  PROVE  [Atomic!AtomicNext]_Atomic!atomicVars
<1> DEFINE op == reqs[r]
           content == VisibleFiles[PathOf(r)]
<1>0. /\ TypeOK /\ LockHolder /\ FileIsThere /\ SizeStillHolds /\ VisibleIs /\ HolderView
      /\ VisibleIs' /\ HolderView'
  <2>1. TypeOK /\ LockHolder /\ FileIsThere /\ SizeStillHolds /\ TypeOK' /\ LockHolder'
    BY DEF TransferInv
  <2>2. VisibleIs /\ HolderView
    BY <2>1, VisibleFacts, HolderSees
  <2>3. VisibleIs' /\ HolderView'
    BY <2>1, VisibleFacts, HolderSees, PTL
  <2> QED
    BY <2>1, <2>2, <2>3
<1>1. /\ r \in DOMAIN reqs /\ reqs' = reqs /\ PathOf(r) \in Paths /\ PathOf(r)' = PathOf(r)
      /\ op \in AnyRequest /\ op.path = PathOf(r) /\ op.offset \in Nat /\ Stands(r) /\ Stands(r)'
  BY <1>0, WorkersKeepApart, RequestNumbers, RequestFields DEF PathOf, Progress
<1>2. /\ VisibleFiles' = [VisibleFiles EXCEPT ![PathOf(r)] = VisibleFiles'[PathOf(r)]]
      /\ VisibleFiles'[PathOf(r)] = content => VisibleFiles' = VisibleFiles
      /\ ~Writing(r) /\ ~Writing(r)' /\ files' = files => VisibleFiles' = VisibleFiles
  BY <1>0, OneFileChanges
<1>3. pc[r] \in Undecided \ {"dropped"} => Atomic!Open(r)
  BY <1>0, <1>1, UndecidedIsOpen
<1>4. pc[r] \in UnderLock /\ ~Writing(r) => content = files[PathOf(r)]
  BY <1>0, <1>1 DEF HolderView
<1>5. Writing(r) => content = saved[r]
  BY <1>0, <1>1 DEF VisibleIs
<1>6. ASSUME UNCHANGED <<VisibleFiles, reqs, results, gone>>
      PROVE  UNCHANGED Atomic!atomicVars
  BY <1>6 DEF Atomic!atomicVars
<1>7. ASSUME Atomic!Refuse(r) \/ Atomic!ReadChunk(r) \/ Atomic!WriteChunk(r) \/ Atomic!Fail(r)
               \/ Atomic!Answer(r)
      PROVE  Atomic!AtomicNext
  BY <1>1, <1>7 DEF Atomic!AtomicNext
<1>8. ASSUME Begin(r) PROVE [Atomic!AtomicNext]_Atomic!atomicVars
  <2>1. /\ pc[r] = "queued" /\ Found(r, Verdict(op)) /\ files' = files /\ gone' = gone
        /\ \E place \in {"checked", "unlocked"} : Goto(r, place)
    BY <1>8 DEF Begin, Waiting
  <2>2. pc'[r] \in {"checked", "unlocked"}
    BY <1>0, <1>1, <2>1, GotoMoves DEF Places
  <2>3. VisibleFiles' = VisibleFiles
    BY <1>2, <2>1, <2>2 DEF Writing
  <2>4. Atomic!Open(r)
    BY <1>3, <2>1 DEF Undecided
  <2>5. CASE op.path \in Refused
    <3>1. Found(r, Refusal("REFUSED"))
      BY <2>1, <2>5 DEF Verdict
    <3>2. Atomic!Refuse(r)
      BY <1>1, <2>1, <2>3, <2>4, <2>5, <3>1, SameData DEF Atomic!Refuse, Atomic!Found, Found
    <3> QED
      BY <1>7, <3>2
  <2>6. CASE op.path \notin Refused /\ op.kind = "read" /\ files[op.path] = NoFile
    <3>1. Found(r, Refusal("NOT_FOUND"))
      BY <2>1, <2>6 DEF Verdict
    <3>2. \A s \in DOMAIN reqs : PathOf(s) = PathOf(r) => ~Writing(s)
      BY <1>0, <1>1, <2>6 DEF FileIsThere, Writing
    <3>3. VisibleFiles[op.path] = NoFile
      BY <1>0, <1>1, <2>6, <3>2 DEF VisibleIs
    <3>4. Atomic!Refuse(r)
      BY <1>1, <2>1, <2>3, <2>4, <2>6, <3>1, <3>3, SameData
      DEF Atomic!Refuse, Atomic!Found, Found
    <3> QED
      BY <1>7, <3>4
  <2>7. CASE op.path \notin Refused /\ ~(op.kind = "read" /\ files[op.path] = NoFile)
    <3>1. results' = [results EXCEPT ![r] = Unknown]
      BY <2>1, <2>7 DEF Verdict, Found
    <3>2. results[r] = Unknown /\ results \in Seq([status : Statuses, chunk : Seq(Blocks)])
      BY <1>0, <1>1, <2>1 DEF Stands, Undecided, TypeOK
    <3>3. results' = results
      BY <3>1, <3>2
    <3> QED
      BY <1>1, <1>6, <2>1, <2>3, <3>3
  <2> QED
    BY <2>5, <2>6, <2>7
<1>9. ASSUME Lock(r) \/ Unlock(r) PROVE [Atomic!AtomicNext]_Atomic!atomicVars
  <2>1. /\ pc[r] \in {"checked", "done"} /\ UNCHANGED <<files, reqs, results, gone>>
        /\ \E place \in {"locked", "unlocked"} : Goto(r, place)
    BY <1>9 DEF Lock, Unlock, At
  <2>2. pc'[r] \in {"locked", "unlocked"}
    BY <1>0, <1>1, <2>1, GotoMoves DEF Places, UnderLock
  <2>3. VisibleFiles' = VisibleFiles
    BY <1>2, <2>1, <2>2 DEF Writing
  <2> QED
    BY <1>6, <2>1, <2>3
<1>10. ASSUME Respond(r) PROVE [Atomic!AtomicNext]_Atomic!atomicVars
  <2>1. /\ pc[r] = "unlocked" /\ UNCHANGED <<files, reqs, results>> /\ gone' = gone \cup {r}
        /\ Goto(r, "answered")
    BY <1>10 DEF Respond, At
  <2>2. pc'[r] = "answered"
    BY <1>0, <1>1, <2>1, GotoMoves DEF Places
  <2>3. VisibleFiles' = VisibleFiles
    BY <1>2, <2>1, <2>2 DEF Writing
  <2>4. results[r] # Unknown /\ r \notin gone
    BY <1>0, <1>1, <2>1 DEF Stands, Undecided, UnderLock, TypeOK
  <2>5. Atomic!Answer(r)
    BY <1>1, <2>1, <2>3, <2>4, SameData DEF Atomic!Answer
  <2> QED
    BY <1>7, <2>5
<1>11. ASSUME Size(r) PROVE [Atomic!AtomicNext]_Atomic!atomicVars
  <2>1. /\ pc[r] = "locked" /\ op.kind = "read" /\ files' = files /\ gone' = gone
        /\ \E place \in {"done", "sized"} : Goto(r, place)
    BY <1>11 DEF Size, At
  <2>2. pc'[r] \in {"done", "sized"}
    BY <1>0, <1>1, <2>1, GotoMoves DEF Places, UnderLock
  <2>3. VisibleFiles' = VisibleFiles
    BY <1>2, <2>1, <2>2 DEF Writing
  <2>4. content = files[PathOf(r)] /\ content # NoFile /\ content \in Seq(Blocks)
    BY <1>0, <1>1, <1>4, <2>1 DEF FileIsThere, UnderLock, Writing, TypeOK, Contents
  <2>5. CASE results' = results
    BY <1>1, <1>6, <2>1, <2>3, <2>5
  <2>6. CASE op.offset >= Len(content) /\ Found(r, Result("OK", <<>>))
    <3>1. Len(content) \in Nat
      BY <2>4
    <3>2. Shortest(op.offset + ChunkLength, Len(content)) \in Nat
          /\ Shortest(op.offset + ChunkLength, Len(content)) < op.offset + 1
      BY <1>1, <2>6, <3>1 DEF Shortest, TransferAssumption
    <3>3. ChunkOf(content, op.offset) = <<>>
      BY <1>1, <3>2, SubSeqEmpty DEF ChunkOf
    <3>4. Atomic!Open(r)
      BY <1>3, <2>1 DEF Undecided, UnderLock
    <3>5. <<>> \in Beginnings(ChunkOf(content, op.offset))
      <4>1. SubSeq(<<>>, 1, 0) = <<>> /\ 0 \in 0..Len(<<>>)
        BY SubSeqEmpty, EmptySeq
      <4> QED
        BY <3>3, <4>1 DEF Beginnings
    <3>6. Atomic!ReadChunk(r)
      BY <1>1, <2>1, <2>3, <2>4, <2>6, <3>4, <3>5, SameData
      DEF Atomic!ReadChunk, Atomic!Found, Found
    <3> QED
      BY <1>7, <3>6
  <2> QED
    BY <1>11, <2>4, <2>5, <2>6 DEF Size
<1>12. ASSUME ReadBlocks(r) PROVE [Atomic!AtomicNext]_Atomic!atomicVars
  <2>1. pc[r] = "sized" /\ files' = files /\ gone' = gone /\ Goto(r, "done")
    BY <1>12 DEF ReadBlocks, Return, At
  <2>2. pc'[r] = "done"
    BY <1>0, <1>1, <2>1, GotoMoves DEF Places, UnderLock
  <2>3. VisibleFiles' = VisibleFiles
    BY <1>2, <2>1, <2>2 DEF Writing
  <2>4. content = files[PathOf(r)] /\ content # NoFile /\ content \in Seq(Blocks)
    BY <1>0, <1>1, <1>4, <2>1 DEF FileIsThere, UnderLock, Writing, TypeOK, Contents
  <2>5. sizes[r] = Len(content) /\ op.kind = "read"
    BY <1>0, <1>1, <2>1, <2>4 DEF SizeStillHolds, Stands
  <2>6. Len(content) \in Nat
    BY <2>4
  <2>7. Shortest(Shortest(op.offset + ChunkLength, sizes[r]), Len(content))
          = Shortest(op.offset + ChunkLength, Len(content))
    BY <1>1, <2>5, <2>6 DEF Shortest, TransferAssumption
  <2>8. \E chunk \in Beginnings(ChunkOf(content, op.offset)) : Found(r, Result("OK", chunk))
    BY <1>12, <2>4, <2>7 DEF ReadBlocks, ChunkOf
  <2>9. Atomic!Open(r)
    BY <1>3, <2>1 DEF Undecided, UnderLock
  <2>10. Atomic!ReadChunk(r)
    BY <1>1, <2>1, <2>3, <2>4, <2>5, <2>8, <2>9, SameData
    DEF Atomic!ReadChunk, Atomic!Found, Found
  <2> QED
    BY <1>7, <2>10
<1>13. ASSUME OpenFile(r) PROVE [Atomic!AtomicNext]_Atomic!atomicVars
  <2>1. pc[r] = "locked" /\ UNCHANGED <<reqs, results, gone>> /\ Goto(r, "opened")
    BY <1>13 DEF OpenFile, At
  <2>2. pc'[r] = "opened"
    BY <1>0, <1>1, <2>1, GotoMoves DEF Places, UnderLock
  <2>3. content = files[PathOf(r)]
    BY <1>4, <2>1 DEF UnderLock, Writing
  <2>4. saved'[r] = files[PathOf(r)]
    BY <1>0, <1>1, <1>13, RequestNumbers DEF OpenFile
  <2>5. VisibleFiles'[PathOf(r)] = saved'[r]
    BY <1>0, <1>1, <2>2 DEF VisibleIs, Writing
  <2> QED
    BY <1>2, <1>6, <2>1, <2>3, <2>4, <2>5
<1>14. ASSUME Truncate(r) PROVE [Atomic!AtomicNext]_Atomic!atomicVars
  <2>1. pc[r] = "opened" /\ UNCHANGED <<reqs, results, gone, saved>> /\ Goto(r, "truncated")
    BY <1>14 DEF Truncate, At
  <2>2. pc'[r] = "truncated"
    BY <1>0, <1>1, <2>1, GotoMoves DEF Places, UnderLock
  <2>3. VisibleFiles'[PathOf(r)] = saved'[r]
    BY <1>0, <1>1, <2>2 DEF VisibleIs, Writing
  <2>4. content = saved[r]
    BY <1>5, <2>1 DEF Writing
  <2> QED
    BY <1>2, <1>6, <2>1, <2>3, <2>4
<1>15. ASSUME Writing(r) PROVE files[PathOf(r)] = IF pc[r] = "opened" THEN OpenedAs(content)
                                                  ELSE Base(op, content)
  BY <1>1, <1>5, <1>15 DEF Stands, Writing, Base, IsTruncating
<1>16. ASSUME AtWrite(r), NEW blocks, Put(r, blocks), pc'[r] = "done"
       PROVE  /\ op.kind = "write" /\ op.path \notin Refused /\ Atomic!Open(r)
              /\ VisibleFiles' = Atomic!WithBlocks(op, blocks)
  <2>1. Writing(r) /\ pc[r] \in UnderLock
    BY <1>16 DEF AtWrite, At, Writing, UnderLock
  <2>2. op.kind = "write" /\ op.path \notin Refused /\ Atomic!Open(r)
    BY <1>1, <1>3, <2>1 DEF Stands, Writing, Undecided, UnderLock
  <2>3. files[PathOf(r)] = Base(op, content)
    BY <1>15, <1>16, <2>1 DEF AtWrite, At, OpenedAs, Base, IsTruncating
  <2>4. files'[PathOf(r)] = Written(Base(op, content), op.offset, blocks)
    BY <1>0, <1>1, <1>16, <2>3 DEF Put, TypeOK
  <2>5. VisibleFiles'[PathOf(r)] = files'[PathOf(r)]
    BY <1>0, <1>1, <1>16 DEF HolderView, Writing, UnderLock
  <2>6. VisibleFiles' = [VisibleFiles EXCEPT ![op.path] =
                           Written(Base(op, content), op.offset, blocks)]
    BY <1>1, <1>2, <2>4, <2>5
  <2> QED
    BY <1>1, <2>2, <2>6, SameBlocks
<1>17. ASSUME WriteBlocks(r) PROVE [Atomic!AtomicNext]_Atomic!atomicVars
  <2>1. AtWrite(r) /\ gone' = gone /\ Goto(r, "done")
    BY <1>17 DEF WriteBlocks, Return
  <2>2. pc'[r] = "done"
    BY <1>0, <1>1, <2>1, GotoMoves DEF Places, UnderLock
  <2>3. PICK blocks \in Beginnings(op.data) : Put(r, blocks) /\ Found(r, Result("OK", blocks))
    BY <1>17 DEF WriteBlocks
  <2>4. /\ op.kind = "write" /\ op.path \notin Refused /\ Atomic!Open(r)
        /\ VisibleFiles' = Atomic!WithBlocks(op, blocks)
    BY <1>16, <2>1, <2>2, <2>3
  <2>5. blocks \in Atomic!Beginnings(op.data)
    BY <2>3, SameData
  <2>6. Atomic!Found(r, Atomic!Result("OK", blocks))
    BY <2>3, SameData DEF Atomic!Found, Found
  <2>7. Atomic!WriteChunk(r)
    BY <1>1, <2>1, <2>4, <2>5, <2>6 DEF Atomic!WriteChunk
  <2> QED
    BY <1>7, <2>7
<1>18. ASSUME Disturbed(r) PROVE [Atomic!AtomicNext]_Atomic!atomicVars
  <2>1. /\ pc[r] \in UnderLock \ {"done"} /\ gone' = gone
        /\ Found(r, Refusal("IO_ERROR")) /\ Goto(r, "done")
    BY <1>18 DEF Disturbed, Return, At
  <2>2. pc'[r] = "done"
    BY <1>0, <1>1, <2>1, GotoMoves DEF Places, UnderLock
  <2>3. Atomic!Open(r) /\ op.path \notin Refused
    BY <1>1, <1>3, <2>1 DEF Stands, Undecided, UnderLock
  <2>4. Atomic!Found(r, Atomic!Refusal("IO_ERROR"))
    BY <2>1, SameData DEF Atomic!Found, Found
  <2>5. ASSUME \/ VisibleFiles' = VisibleFiles
               \/ /\ op.kind = "write"
                  /\ \E blocks \in Beginnings(op.data) :
                       VisibleFiles' = Atomic!WithBlocks(op, blocks)
        PROVE  Atomic!AtomicNext
    <3>1. Atomic!Fail(r)
      BY <1>1, <2>1, <2>3, <2>4, <2>5, SameData DEF Atomic!Fail
    <3> QED
      BY <1>7, <3>1
  <2>6. CASE AtWrite(r) /\ \E blocks \in Beginnings(op.data) : Put(r, blocks)
    BY <1>16, <2>2, <2>5, <2>6
  <2>7. CASE files' = files /\ Writing(r)
    <3>1. VisibleFiles'[PathOf(r)] = files[PathOf(r)]
      BY <1>0, <1>1, <2>2, <2>7 DEF HolderView, Writing, UnderLock
    <3>2. CASE pc[r] = "opened" /\ content # NoFile
      <4>1. files[PathOf(r)] = content
        BY <1>15, <2>7, <3>2 DEF OpenedAs
      <4> QED
        BY <1>2, <2>5, <3>1, <4>1
    <3>3. CASE ~(pc[r] = "opened" /\ content # NoFile)
      <4>1. files[PathOf(r)] = Base(op, content)
        BY <1>15, <2>7, <3>3 DEF OpenedAs, Base
      <4>2. Written(Base(op, content), op.offset, <<>>) = Base(op, content)
        BY DEF Written
      <4>3. VisibleFiles' = [VisibleFiles EXCEPT ![op.path] =
                               Written(Base(op, content), op.offset, <<>>)]
        BY <1>1, <1>2, <3>1, <4>1, <4>2
      <4>4. VisibleFiles' = Atomic!WithBlocks(op, <<>>)
        BY <1>1, <4>3, SameBlocks
      <4>5. <<>> \in Beginnings(op.data)
        BY <1>1, NothingIsABeginning
      <4>6. op.kind = "write"
        BY <1>1, <2>7 DEF Stands
      <4> QED
        BY <2>5, <4>4, <4>5, <4>6
    <3> QED
      BY <3>2, <3>3
  <2>8. CASE files' = files /\ ~Writing(r)
    <3>1. ~Writing(r)'
      BY <2>2 DEF Writing
    <3> QED
      BY <1>2, <2>5, <2>8, <3>1
  <2> QED
    BY <1>18, <2>6, <2>7, <2>8 DEF Disturbed
<1> QED
  BY <1>8, <1>9, <1>10, <1>11, <1>12, <1>13, <1>14, <1>17, <1>18 DEF Work

\* Every step of the pool is a step of AtomicFile, or no step.
LEMMA NextRefines ==
  TransferInv /\ TransferInv' /\ Progress /\ Progress' /\ [Next]_vars
    => [Atomic!AtomicNext]_Atomic!atomicVars
<1> SUFFICES ASSUME TransferInv, TransferInv', Progress, Progress', [Next]_vars
             PROVE  [Atomic!AtomicNext]_Atomic!atomicVars
  OBVIOUS
<1>1. TypeOK
  BY DEF TransferInv
<1>2. ASSUME NEW op \in Request(Len(reqs) + 1), Submit(op) PROVE Atomic!AtomicNext
  <2>1. op \in AnyRequest /\ \A s \in DOMAIN reqs : pc'[s] = pc[s]
    BY <1>1, <1>2, SubmitAppends
  <2>2. \A s \in DOMAIN reqs : saved'[s] = saved[s]
    <3>1. saved' = Append(saved, NoFile) /\ NoFile \in Contents
      BY <1>2 DEF Submit, Contents
    <3>2. saved \in Seq(Contents) /\ DOMAIN reqs = 1..Len(saved)
      BY <1>1, RequestNumbers DEF TypeOK
    <3> QED
      BY <3>1, <3>2, AppendProperties
  <2>3. VisibleFiles' = VisibleFiles
    <3>1. /\ files' = files /\ locks' = locks
          /\ \A p \in Paths : locks[p] # Free => locks[p] \in DOMAIN reqs
      BY <1>1, <1>2 DEF Submit, TypeOK
    <3> QED
      BY <2>1, <2>2, <3>1 DEF VisibleFiles
  <2>4. Atomic!Accept(op)
    BY <1>2, <2>3, SameData DEF Submit, Atomic!Accept
  <2> QED
    BY <2>1, <2>4, SameData DEF Atomic!AtomicNext, AnyRequest
<1>3. CASE Shutdown \/ UNCHANGED vars
  BY <1>3 DEF Shutdown, vars, VisibleFiles, Atomic!atomicVars
<1>4. CASE ShutdownNow
  <2>1. /\ UNCHANGED <<files, reqs, results, locks, saved>> /\ gone' = gone \cup Waiting
        /\ \A s \in DOMAIN reqs :
             \/ pc'[s] = pc[s]
             \/ pc[s] = "queued" /\ pc'[s] = "dropped"
    BY <1>1, <1>4, RequestNumbers DEF ShutdownNow, Waiting
  <2>2. VisibleFiles' = VisibleFiles
    <3>1. \A p \in Paths : locks[p] # Free => locks[p] \in DOMAIN reqs
      BY <1>1 DEF TypeOK
    <3> QED
      BY <2>1, <3>1 DEF VisibleFiles
  <2>3. ASSUME NEW r \in Waiting PROVE Atomic!Open(r)
    BY <1>1, UndecidedIsOpen DEF Waiting, Undecided, UnderLock, Progress
  <2>4. Waiting \in SUBSET DOMAIN reqs
    BY DEF Waiting
  <2>5. Atomic!Drop(Waiting)
    BY <2>1, <2>2, <2>3 DEF Atomic!Drop
  <2> QED
    BY <2>4, <2>5 DEF Atomic!AtomicNext
<1>5. ASSUME NEW r \in Requests, Work(r) \/ Disturbed(r)
      PROVE  [Atomic!AtomicNext]_Atomic!atomicVars
  BY <1>5, WorkRefines
<1> QED
  BY <1>2, <1>3, <1>4, <1>5 DEF Next, Terminated

\* The pool keeps the promise of AtomicFile: however its workers interleave, and
\* wherever a disk or a shutdown stops them, before the write, half way through it
\* or after it, what is read or written of a chunk under fileLocks is read or
\* written at one instant, on a file no other chunk is halfway through.
THEOREM TransferImplementsAtomicFile == Spec => ImplementsAtomicFile
<1>1. Init => TransferInv /\ Progress /\ Atomic!AtomicInit
  BY InitInv, InitRefines
<1>2. TransferInv /\ Progress /\ [Next]_vars => TransferInv' /\ Progress'
  BY NextInv, NextProgress
<1> QED
  BY <1>1, <1>2, NextRefines, PTL DEF Spec, ImplementsAtomicFile, Atomic!AtomicSpec

-----------------------------------------------------------------------------
(* The pool never waits for itself.                                        *)

\* What a request needs for its worker to take a step: its turn and a worker,
\* or a lock that is free, or that it is past lock() and not yet answered.
GoesOn(r) ==
  \/ /\ r \in Waiting /\ (\A w \in Waiting : r <= w)
     /\ Cardinality(Working) < PoolSize
  \/ At(r, "checked") /\ locks[PathOf(r)] = Free
  \/ \E place \in UnderLock \cup {"unlocked"} : At(r, place)

\* As long as a request is neither answered nor dropped, some request can go on.
PoolIsNeverStuck == Outstanding # {} => \E r \in Outstanding : GoesOn(r)

\* A set of numbers that is not empty has a least one.
LEMMA LeastNumber ==
  ASSUME NEW ns \in SUBSET Nat, ns # {}
  PROVE  \E n \in ns : \A m \in ns : n <= m
<1> DEFINE less == OpToRel(<, Nat)
<1>1. \A m, n \in Nat : <<m, n>> \in less <=> m < n
  BY DEF OpToRel
<1>2. IsWellFoundedOn(less, Nat)
  BY NatLessThanWellFounded
<1> HIDE DEF less
<1>3. PICK n \in ns : \A m \in ns : <<m, n>> \notin less
  BY <1>2, WFMin
<1>4. ASSUME NEW m \in ns PROVE n <= m
  <2>1. m \in Nat /\ n \in Nat /\ ~(m < n)
    BY <1>1, <1>3
  <2> QED
    BY <2>1
<1> QED
  BY <1>3, <1>4

\* A worker that waits for a lock waits for one that goes on.
LEMMA PoolGoesOn == TypeOK /\ LockHolder /\ Progress => PoolIsNeverStuck
<1> SUFFICES ASSUME TypeOK, LockHolder, Progress, Outstanding # {}
             PROVE  \E r \in Outstanding : GoesOn(r)
  BY DEF PoolIsNeverStuck
<1>0. /\ DOMAIN reqs = 1..Len(reqs) /\ Len(reqs) \in Nat /\ DOMAIN pc = DOMAIN reqs
      /\ \A r \in DOMAIN reqs : PathOf(r) \in Paths /\ pc[r] \in Places
  BY RequestNumbers, RequestFields DEF PathOf, TypeOK
<1>1. Outstanding = Waiting \cup Working
  BY DEF Outstanding, Waiting, Working, TypeOK
<1>2. ASSUME NEW r \in DOMAIN reqs, NEW place \in UnderLock \cup {"unlocked"}, pc[r] = place
      PROVE  r \in Outstanding /\ GoesOn(r)
  <2>1. r \in Outstanding
    BY <1>1, <1>2 DEF Working, UnderLock
  <2>2. At(r, place)
    BY <1>2 DEF At
  <2> QED
    BY <1>2, <2>1, <2>2 DEF GoesOn
<1>3. CASE Working # {}
  <2>1. PICK r \in Working : TRUE
    BY <1>3
  <2>2. r \in DOMAIN reqs /\ pc[r] \in {"checked", "unlocked"} \cup UnderLock
    BY <1>0, <2>1 DEF Working, Places
  <2>3. CASE pc[r] = "checked" /\ locks[PathOf(r)] # Free
    <3>1. PICK s \in DOMAIN reqs : s = locks[PathOf(r)]
      BY <1>0, <2>2, <2>3 DEF TypeOK
    <3>2. PathOf(s) = PathOf(r)
      BY <1>0, <2>2, <2>3, <3>1 DEF Progress
    <3>3. pc[s] \in UnderLock
      BY <3>1, <3>2 DEF LockHolder
    <3> QED
      BY <1>2, <3>3
  <2>4. CASE pc[r] = "checked" /\ locks[PathOf(r)] = Free
    BY <1>1, <2>1, <2>2, <2>4 DEF GoesOn, At
  <2>5. CASE pc[r] \in UnderLock \cup {"unlocked"}
    BY <1>2, <2>2, <2>5
  <2> QED
    BY <2>2, <2>3, <2>4, <2>5
<1>4. CASE Working = {}
  <2>1. Waiting # {} /\ Waiting \in SUBSET Nat
    BY <1>0, <1>1, <1>4 DEF Waiting
  <2>2. PICK r \in Waiting : \A w \in Waiting : r <= w
    BY <2>1, LeastNumber
  <2>3. Cardinality(Working) < PoolSize
    BY <1>4, FS_EmptySet
  <2> QED
    BY <1>1, <2>2, <2>3 DEF GoesOn
<1> QED
  BY <1>3, <1>4

\* The pool of FileTransferService never deadlocks: whatever its size, a worker
\* holds one lock at most and never waits while it holds it, so of the requests
\* that are still to be answered there is always one that can go on.
THEOREM PoolNeverStuck == Spec => []PoolIsNeverStuck
<1>1. Init => TransferInv /\ Progress
  BY InitInv, InitRefines
<1>2. TransferInv /\ Progress /\ [Next]_vars => TransferInv' /\ Progress'
  BY NextInv, NextProgress
<1>3. TransferInv /\ Progress => PoolIsNeverStuck
  BY PoolGoesOn DEF TransferInv
<1> QED
  BY <1>1, <1>2, <1>3, PTL DEF Spec

-----------------------------------------------------------------------------
(* A chunk acknowledged stays where one request per file is at work.       *)

\* No two requests for one file are being worked on at once: what the lock of
\* the file does not ensure, since it says nothing of the order they take it in.
OneEach == \A r, s \in Working : PathOf(r) = PathOf(s) => r = s

Finished == {"answered", "dropped"}

\* The requests for a file are worked on in the order they were sent.
InTurn ==
  \A r, s \in DOMAIN reqs :
    r < s /\ PathOf(r) = PathOf(s) /\ pc[s] \notin {"queued", "dropped"} => pc[r] \in Finished

\* A write carries blocks with its own number, or nothing.
OwnData == \A r \in DOMAIN reqs : reqs[r] \in Request(r)

\* A chunk reported whole is in the file from the write on, not only once it is
\* acknowledged.
Acked(r) ==
  /\ pc[r] \in {"done", "unlocked", "answered"}
  /\ reqs[r].kind = "write" /\ results[r] = Result("OK", reqs[r].data)
Overwrites(s, r) == s > r /\ MayOverwrite(reqs[s], reqs[r])
HoldsChunk(r) ==
  /\ files[PathOf(r)] \in Seq(Blocks)
  /\ \A i \in DOMAIN reqs[r].data :
       /\ reqs[r].offset + i \in DOMAIN files[PathOf(r)]
       /\ files[PathOf(r)][reqs[r].offset + i] = r
ChunkStays == \A r \in DOMAIN reqs :
  Acked(r) /\ (\A s \in DOMAIN reqs : ~Overwrites(s, r)) => HoldsChunk(r)

ChunkInv == TransferInv /\ Progress /\ InTurn /\ OwnData /\ ChunkStays

\* A worker's step moves its request on: out of the queue when it is its turn,
\* then never back, and never out of an answer.
LEMMA WorkerMoves ==
  ASSUME TypeOK, NEW r \in Requests, Work(r) \/ Disturbed(r)
  PROVE  /\ pc[r] \notin Finished /\ pc'[r] \notin {"queued", "dropped"}
         /\ pc[r] = "queued" => Begin(r) /\ pc'[r] \in {"checked", "unlocked"}
<1>1. r \in DOMAIN reqs
  BY WorkersKeepApart
<1>2. CASE Begin(r)
  <2>1. Goto(r, "checked") \/ Goto(r, "unlocked")
    BY <1>2 DEF Begin
  <2>2. pc'[r] \in {"checked", "unlocked"}
    BY <1>1, <2>1, GotoMoves DEF Places
  <2> QED
    BY <1>2, <2>2 DEF Begin, Waiting, Finished
<1>3. CASE ~Begin(r)
  <2>1. pc[r] \in {"checked", "unlocked"} \cup UnderLock
    BY <1>3 DEF Work, Lock, Unlock, Respond, Size, ReadBlocks, OpenFile, Truncate, WriteBlocks,
                AtWrite, Disturbed, At, UnderLock
  <2>2. \E place \in {"unlocked", "answered"} \cup UnderLock : Goto(r, place)
    BY <1>3 DEF Work, Lock, Unlock, Respond, Size, ReadBlocks, OpenFile, Truncate, WriteBlocks,
                Disturbed, Return, UnderLock
  <2>3. pc'[r] \in {"unlocked", "answered"} \cup UnderLock
    BY <1>1, <2>2, GotoMoves DEF Places, UnderLock
  <2> QED
    BY <2>1, <2>3 DEF Finished, UnderLock
<1> QED
  BY <1>2, <1>3

\* The queue is first in, first out, so a file's requests come in turn when the
\* next one begins only after the one before it has ended.
LEMMA NextInTurn == TypeOK /\ InTurn /\ OneEach' /\ [Next]_vars => InTurn'
<1> SUFFICES ASSUME TypeOK, InTurn, OneEach', [Next]_vars PROVE InTurn'
  OBVIOUS
<1>0. DOMAIN reqs = 1..Len(reqs) /\ Len(reqs) \in Nat /\ DOMAIN pc = DOMAIN reqs
  BY RequestNumbers
<1>1. ASSUME NEW op \in Request(Len(reqs) + 1), Submit(op) PROVE InTurn'
  <2>0. PICK new \in Nat : new = Len(reqs) + 1
    BY <1>0
  <2>1. /\ DOMAIN reqs' = DOMAIN reqs \cup {new} /\ new \notin DOMAIN reqs /\ pc'[new] = "queued"
        /\ \A s \in DOMAIN reqs : reqs'[s] = reqs[s] /\ pc'[s] = pc[s]
    BY <1>1, <2>0, SubmitAppends
  <2>2. \A s \in DOMAIN reqs : s < new /\ PathOf(s)' = PathOf(s)
    BY <1>0, <2>0, <2>1 DEF PathOf
  <2>3. ASSUME NEW r \in DOMAIN reqs', NEW s \in DOMAIN reqs', r < s,
               PathOf(r)' = PathOf(s)', pc'[s] \notin {"queued", "dropped"}
        PROVE  pc'[r] \in Finished
    <3>1. s \in DOMAIN reqs /\ r \in DOMAIN reqs
      BY <1>0, <2>0, <2>1, <2>3
    <3> QED
      BY <2>1, <2>2, <2>3, <3>1 DEF InTurn
  <2> QED
    BY <2>3 DEF InTurn
<1>2. CASE Shutdown \/ UNCHANGED vars
  BY <1>2 DEF Shutdown, vars, InTurn, PathOf
<1>3. CASE ShutdownNow
  <2>1. /\ UNCHANGED reqs
        /\ \A s \in DOMAIN reqs :
             \/ pc'[s] = pc[s]
             \/ pc[s] = "queued" /\ pc'[s] = "dropped"
    BY <1>0, <1>3 DEF ShutdownNow, Waiting
  <2> QED
    BY <2>1 DEF InTurn, PathOf, Finished
<1>4. ASSUME NEW r \in Requests, Work(r) \/ Disturbed(r) PROVE InTurn'
  <2>1. /\ r \in DOMAIN reqs /\ reqs' = reqs
        /\ \A s \in DOMAIN reqs : s # r => pc'[s] = pc[s]
    BY <1>4, WorkersKeepApart
  <2>2. /\ pc[r] \notin Finished /\ pc'[r] \notin {"queued", "dropped"}
        /\ pc[r] = "queued" => Begin(r) /\ pc'[r] \in {"checked", "unlocked"}
    BY <1>4, WorkerMoves
  <2>3. ASSUME NEW a \in DOMAIN reqs, NEW b \in DOMAIN reqs, a < b, PathOf(a) = PathOf(b),
               pc'[b] \notin {"queued", "dropped"}
        PROVE  pc'[a] \in Finished
    <3>1. CASE b # r
      BY <2>1, <2>2, <2>3, <3>1 DEF InTurn
    <3>2. CASE b = r /\ pc[r] # "queued"
      BY <1>0, <2>1, <2>2, <2>3, <3>2 DEF InTurn, Finished
    <3>3. CASE b = r /\ pc[r] = "queued"
      <4>1. a # r /\ ~(r <= a) /\ pc'[a] = pc[a]
        BY <1>0, <2>1, <2>3, <3>3
      <4>2. pc[a] # "queued"
        BY <2>2, <3>3, <4>1 DEF Begin, Waiting
      <4>3. r \in Working'
        BY <2>1, <2>2, <3>3 DEF Working
      <4>4. pc[a] \notin Finished => a \in Working'
        BY <2>1, <4>1, <4>2 DEF Working, Finished
      <4>5. PathOf(a)' = PathOf(r)'
        BY <2>1, <2>3, <3>3 DEF PathOf
      <4> QED
        BY <4>1, <4>3, <4>4, <4>5 DEF OneEach
    <3> QED
      BY <3>1, <3>2, <3>3
  <2> QED
    BY <2>1, <2>3 DEF InTurn, PathOf
<1> QED
  BY <1>1, <1>2, <1>3, <1>4 DEF Next, Terminated

\* Requests never change once they are sent.
LEMMA NextOwnData == TypeOK /\ OwnData /\ [Next]_vars => OwnData'
<1> SUFFICES ASSUME TypeOK, OwnData, [Next]_vars PROVE OwnData'
  OBVIOUS
<1>1. ASSUME NEW op \in Request(Len(reqs) + 1), Submit(op) PROVE OwnData'
  BY <1>1, SubmitAppends DEF OwnData
<1>2. UNCHANGED reqs => OwnData'
  BY DEF OwnData
<1>3. ASSUME NEW r \in Requests, Work(r) \/ Disturbed(r) PROVE UNCHANGED reqs
  BY <1>3, WorkersKeepApart
<1> QED
  BY <1>1, <1>2, <1>3 DEF Next, Shutdown, ShutdownNow, Terminated, vars

\* A request carries one chunk at most.
LEMMA ChunkDomain ==
  ASSUME NEW op \in AnyRequest
  PROVE  DOMAIN op.data \subseteq 1..ChunkLength
<1>1. CASE op.data = <<>>
  BY <1>1
<1>2. CASE \E b \in Requests : op.data = Chunk(b)
  BY <1>2 DEF Chunk
<1> QED
  BY <1>1, <1>2, RequestFields

\* A worker at another chunk, of any file, leaves a chunk where it is unless
\* its request was sent later and writes there or empties the file.
LEMMA OtherChunksStay ==
  ASSUME TransferInv, Progress, InTurn, NEW r \in Requests, Work(r) \/ Disturbed(r),
         NEW t \in DOMAIN reqs, t # r, Acked(t), HoldsChunk(t), ~Overwrites(r, t)
  PROVE  HoldsChunk(t)'
<1>0. TypeOK /\ LockHolder /\ FileIsThere /\ r \in DOMAIN reqs /\ reqs' = reqs
  BY WorkersKeepApart DEF TransferInv
<1>1. /\ PathOf(r) \in Paths /\ PathOf(t) \in Paths /\ PathOf(t)' = PathOf(t)
      /\ reqs[r] \in AnyRequest /\ reqs[r].offset \in Nat /\ reqs[t].offset \in Nat
  BY <1>0, RequestNumbers, RequestFields DEF PathOf
<1>2. CASE files'[PathOf(t)] = files[PathOf(t)]
  BY <1>0, <1>1, <1>2 DEF HoldsChunk
<1>3. CASE files'[PathOf(t)] # files[PathOf(t)]
  <2>1. PathOf(r) = PathOf(t)
    BY <1>0, <1>1, <1>3, WorkersKeepApart
  <2>2. pc[r] \notin Finished /\ pc[t] \notin {"queued", "dropped"}
    BY <1>0, WorkerMoves DEF Acked
  <2>3. t < r
    BY <1>0, <2>1, <2>2, RequestNumbers DEF InTurn
  <2>4. \/ OpenFile(r) \/ Truncate(r)
        \/ AtWrite(r) /\ \E blocks \in Beginnings(reqs[r].data) : Put(r, blocks)
    BY <1>3 DEF Work, Begin, Lock, Unlock, Respond, Size, ReadBlocks, WriteBlocks, Disturbed
  <2>5. reqs[r].kind = "write"
    BY <1>0, <2>4 DEF OpenFile, Truncate, AtWrite, At, Progress, Stands, Writing
  <2>6. /\ reqs[r].offset # 0
        /\ \/ reqs[r].offset >= reqs[t].offset + ChunkLength
           \/ reqs[t].offset >= reqs[r].offset + ChunkLength
    BY <1>1, <2>1, <2>3, <2>5 DEF Overwrites, MayOverwrite, PathOf, TransferAssumption
  <2>7. ~Truncate(r)
    BY <2>6 DEF Truncate
  <2>8. ~OpenFile(r)
    <3>1. files[PathOf(r)] # NoFile
      BY <2>1, NoFileIsNoSequence DEF HoldsChunk
    <3>2. OpenFile(r) => files'[PathOf(r)] = files[PathOf(r)]
      BY <1>0, <1>1, <3>1 DEF OpenFile, TypeOK
    <3> QED
      BY <1>3, <2>1, <3>2
  <2>9. PICK blocks \in Beginnings(reqs[r].data) : Put(r, blocks)
    BY <2>4, <2>7, <2>8
  <2>10. PICK b \in Requests : blocks \in Seq({b}) /\ Len(blocks) <= ChunkLength
    BY <1>1, BeginningsOfChunks
  <2>11. PICK n \in Nat : n = Len(blocks) /\ n <= ChunkLength
    BY <2>10
  <2>12. PICK content \in Seq(Blocks) : content = files[PathOf(t)]
    BY DEF HoldsChunk
  <2>13. PICK offset \in Nat : offset = reqs[r].offset
    BY <1>1
  <2>14. PICK after : after = Written(content, offset, blocks)
    OBVIOUS
  <2>15. /\ after \in Seq(Blocks)
         /\ \A i \in DOMAIN content : i \notin offset + 1..offset + n =>
              i \in DOMAIN after /\ after[i] = content[i]
    BY <2>10, <2>11, <2>14, WrittenHolds
  <2>16. files'[PathOf(t)] = after
    BY <1>0, <1>1, <2>1, <2>9, <2>12, <2>13, <2>14 DEF Put, TypeOK
  <2>17. ASSUME NEW i \in DOMAIN reqs[t].data
         PROVE  reqs[t].offset + i \in DOMAIN after /\ after[reqs[t].offset + i] = t
    <3>1. reqs[t].offset + i \in DOMAIN content /\ content[reqs[t].offset + i] = t
      BY <2>12 DEF HoldsChunk
    <3>2. i \in 1..ChunkLength
      BY <1>0, ChunkDomain, RequestNumbers
    <3>3. reqs[t].offset + i \notin offset + 1..offset + n
      <4>1. PICK first \in Nat : first = reqs[t].offset
        BY <1>1
      <4>2. offset >= first + ChunkLength \/ first >= offset + ChunkLength
        BY <2>6, <2>13, <4>1
      <4>3. i \in Nat /\ 1 <= i /\ i <= ChunkLength /\ ChunkLength \in Nat /\ n <= ChunkLength
        BY <2>11, <3>2 DEF TransferAssumption
      <4>4. first + i \notin offset + 1..offset + n
        BY <4>2, <4>3
      <4> QED
        BY <4>1, <4>4
    <3> QED
      BY <2>15, <3>1, <3>3
  <2> QED
    BY <1>0, <1>1, <2>15, <2>16, <2>17 DEF HoldsChunk
<1> QED
  BY <1>2, <1>3

\* A chunk that a worker has written, or is about to acknowledge, is there.
LEMMA OwnChunkStays ==
  ASSUME TransferInv, Progress, OwnData, NEW r \in Requests, Work(r) \/ Disturbed(r),
         Acked(r)', Acked(r) => HoldsChunk(r)
  PROVE  HoldsChunk(r)'
<1>0. TypeOK /\ LockHolder /\ FileIsThere /\ r \in DOMAIN reqs /\ reqs' = reqs
  BY WorkersKeepApart DEF TransferInv
<1>1. /\ PathOf(r) \in Paths /\ PathOf(r)' = PathOf(r)
      /\ reqs[r] \in AnyRequest /\ reqs[r].kind = "write" /\ reqs[r].offset \in Nat
      /\ results'[r].status = "OK"
  BY <1>0, RequestNumbers, RequestFields DEF PathOf, Acked, Result
<1>2. CASE Unlock(r) \/ Respond(r)
  <2>1. Acked(r)
    BY <1>0, <1>2 DEF Unlock, Respond, At, Acked
  <2> QED
    BY <1>0, <1>1, <1>2, <2>1 DEF Unlock, Respond, HoldsChunk
<1>3. CASE WriteBlocks(r)
  <2>1. PICK blocks \in Beginnings(reqs[r].data) : Put(r, blocks) /\ Found(r, Result("OK", blocks))
    BY <1>3 DEF WriteBlocks
  <2>2. blocks = reqs[r].data
    <3>1. results'[r] = Result("OK", blocks) /\ results'[r] = Result("OK", reqs[r].data)
      BY <1>0, <2>1, FoundFinds DEF Acked
    <3> QED
      BY <3>1 DEF Result
  <2>3. blocks \in Seq({r})
    <3>1. reqs[r].data \in {<<>>, Chunk(r)}
      BY <1>0 DEF OwnData, Request
    <3>2. Chunk(r) \in Seq({r})
      BY IsASeq DEF Chunk, TransferAssumption
    <3>3. <<>> \in Seq({r})
      OBVIOUS
    <3> QED
      BY <2>2, <3>1, <3>2, <3>3
  <2>4. PICK content \in Seq(Blocks) : content = files[PathOf(r)]
    <3>1. pc[r] \in {"opened", "truncated"}
      BY <1>3 DEF WriteBlocks, AtWrite, At
    <3> QED
      BY <1>0, <1>1, <3>1 DEF FileIsThere, TypeOK, Contents
  <2>5. PICK offset \in Nat : offset = reqs[r].offset
    BY <1>1
  <2>6. PICK after : after = Written(content, offset, blocks)
    OBVIOUS
  <2>7. /\ after \in Seq(Blocks)
        /\ \A i \in offset + 1..offset + Len(blocks) : i \in DOMAIN after /\ after[i] = r
    BY <2>3, <2>6, WrittenHolds
  <2>8. files'[PathOf(r)] = after
    BY <1>0, <1>1, <2>1, <2>4, <2>5, <2>6 DEF Put, TypeOK
  <2>9. \A i \in DOMAIN reqs[r].data : offset + i \in DOMAIN after /\ after[offset + i] = r
    <3>1. DOMAIN reqs[r].data = 1..Len(blocks) /\ Len(blocks) \in Nat
      BY <2>2, <2>3
    <3>2. \A i \in 1..Len(blocks) : offset + i \in offset + 1..offset + Len(blocks)
      BY <3>1
    <3> QED
      BY <2>7, <3>1, <3>2
  <2> QED
    BY <1>0, <1>1, <2>5, <2>7, <2>8, <2>9 DEF HoldsChunk
<1>4. ~Disturbed(r) /\ ~Begin(r)
  <2>1. \A status : Found(r, Refusal(status)) => results'[r].status = status
    BY <1>0, FoundFinds DEF Refusal, Result
  <2>2. Begin(r) => results'[r].status # "OK"
    <3>1. Begin(r) => results'[r] = Verdict(reqs[r])
      BY <1>0, FoundFinds DEF Begin
    <3> QED
      BY <3>1 DEF Verdict, Refusal, Unknown, Result
  <2>3. Disturbed(r) => results'[r].status = "IO_ERROR"
    BY <2>1 DEF Disturbed
  <2> QED
    BY <1>1, <2>2, <2>3
<1>5. ~Lock(r) /\ ~OpenFile(r) /\ ~Truncate(r)
  <2>1. Lock(r) \/ OpenFile(r) \/ Truncate(r)
          => \E place \in {"locked", "opened", "truncated"} : Goto(r, place)
    BY DEF Lock, OpenFile, Truncate
  <2>2. pc'[r] \notin {"locked", "opened", "truncated"}
    BY DEF Acked
  <2> QED
    BY <1>0, <2>1, <2>2, GotoMoves DEF Places, UnderLock
<1>6. ~Size(r) /\ ~ReadBlocks(r)
  BY <1>0, <1>1 DEF Size, ReadBlocks, At, Progress, Stands
<1> QED
  BY <1>2, <1>3, <1>4, <1>5, <1>6 DEF Work

\* Every step keeps the chunks in the file.
LEMMA NextChunkStays ==
  TransferInv /\ Progress /\ InTurn /\ OwnData /\ ChunkStays /\ [Next]_vars => ChunkStays'
<1> SUFFICES ASSUME TransferInv, Progress, InTurn, OwnData, ChunkStays, [Next]_vars
             PROVE  ChunkStays'
  OBVIOUS
<1>0. TypeOK /\ DOMAIN pc = DOMAIN reqs
  BY RequestNumbers DEF TransferInv
<1>1. ASSUME NEW op \in Request(Len(reqs) + 1), Submit(op) PROVE ChunkStays'
  <2>0. PICK new \in Nat : new = Len(reqs) + 1
    BY <1>0, RequestNumbers
  <2>1. /\ DOMAIN reqs' = DOMAIN reqs \cup {new} /\ new \notin DOMAIN reqs /\ pc'[new] = "queued"
        /\ \A s \in DOMAIN reqs : reqs'[s] = reqs[s] /\ pc'[s] = pc[s]
    BY <1>0, <1>1, <2>0, SubmitAppends
  <2>2. files' = files /\ results' = Append(results, Unknown)
    BY <1>1 DEF Submit
  <2>3. /\ results \in Seq([status : Statuses, chunk : Seq(Blocks)]) /\ Len(results) = Len(reqs)
        /\ Unknown \in [status : Statuses, chunk : Seq(Blocks)]
    BY <1>0 DEF TypeOK, Unknown, Result, Statuses
  <2>4. \A s \in DOMAIN reqs : results'[s] = results[s]
    BY <1>0, <2>2, <2>3, AppendProperties, RequestNumbers
  <2>5. ASSUME NEW t \in DOMAIN reqs', Acked(t)', \A s \in DOMAIN reqs' : ~Overwrites(s, t)'
        PROVE  HoldsChunk(t)'
    <3>1. t \in DOMAIN reqs /\ Acked(t) /\ PathOf(t)' = PathOf(t)
      BY <2>1, <2>4, <2>5 DEF Acked, PathOf
    <3>2. \A s \in DOMAIN reqs : ~Overwrites(s, t)
      BY <2>1, <2>5, <3>1 DEF Overwrites, PathOf
    <3>3. HoldsChunk(t)
      BY <3>1, <3>2 DEF ChunkStays
    <3> QED
      BY <2>1, <2>2, <3>1, <3>3 DEF HoldsChunk
  <2> QED
    BY <2>5 DEF ChunkStays
<1>2. CASE Shutdown \/ ShutdownNow \/ UNCHANGED vars
  <2>1. UNCHANGED <<files, reqs, results>>
    BY <1>2 DEF Shutdown, ShutdownNow, vars
  <2>2. \A s \in DOMAIN reqs : pc'[s] = pc[s] \/ pc'[s] = "dropped"
    BY <1>0, <1>2 DEF Shutdown, ShutdownNow, vars
  <2>3. \A t \in DOMAIN reqs : Acked(t)' => Acked(t)
    BY <2>1, <2>2 DEF Acked
  <2> QED
    BY <2>1, <2>3 DEF ChunkStays, Overwrites, HoldsChunk, PathOf
<1>3. ASSUME NEW r \in Requests, Work(r) \/ Disturbed(r) PROVE ChunkStays'
  <2>1. /\ r \in DOMAIN reqs /\ reqs' = reqs
        /\ \A s \in DOMAIN reqs : s # r => pc'[s] = pc[s] /\ results'[s] = results[s]
    BY <1>0, <1>3, WorkersKeepApart
  <2>2. ASSUME NEW t \in DOMAIN reqs, Acked(t)', \A s \in DOMAIN reqs : ~Overwrites(s, t)
        PROVE  HoldsChunk(t)'
    <3>1. CASE t # r
      <4>1. Acked(t)
        BY <2>1, <2>2, <3>1 DEF Acked
      <4>2. HoldsChunk(t)
        BY <2>2, <4>1 DEF ChunkStays
      <4> QED
        BY <1>3, <2>1, <2>2, <3>1, <4>1, <4>2, OtherChunksStay
    <3>2. CASE t = r
      <4>1. Acked(r) => HoldsChunk(r)
        BY <2>2, <3>2 DEF ChunkStays
      <4> QED
        BY <1>3, <2>2, <3>2, <4>1, OwnChunkStays
    <3> QED
      BY <3>1, <3>2
  <2> QED
    BY <2>1, <2>2 DEF ChunkStays, Overwrites, PathOf
<1> QED
  BY <1>1, <1>2, <1>3 DEF Next, Terminated

\* What the comment of writeChunk says holds of a chunk reported written to its
\* last byte as long as no two requests for one file are worked on at once: it
\* stays in the file until a request sent after it writes there or empties the
\* file.  So the loss MCFileTransfer_upload finds needs two of them, and the lock
\* is no remedy.  Of a chunk that one write() cut short, answered OK all the same,
\* nothing is said: what is missing of it was never in the file.
THEOREM ChunksStayOneByOne == Spec /\ []OneEach => []AcknowledgedChunkStays
<1>1. Init => ChunkInv
  <2>1. Init => TransferInv /\ Progress
    BY InitInv, InitRefines
  <2>2. Init => DOMAIN reqs = {}
    BY DEF Init, AtomicInit
  <2> QED
    BY <2>1, <2>2 DEF ChunkInv, InTurn, OwnData, ChunkStays
<1>2. ChunkInv /\ OneEach' /\ [Next]_vars => ChunkInv'
  <2>1. TransferInv /\ Progress /\ [Next]_vars => TransferInv' /\ Progress'
    BY NextInv, NextProgress
  <2> QED
    BY <2>1, NextInTurn, NextOwnData, NextChunkStays DEF ChunkInv, TransferInv
<1>3. ChunkInv => AcknowledgedChunkStays
  <2> SUFFICES ASSUME ChunkInv, NEW r \in DOMAIN reqs, pc[r] = "answered", Acked(r),
                      \A s \in DOMAIN reqs : ~Overwrites(s, r)
               PROVE  HoldsChunk(r)
    BY DEF AcknowledgedChunkStays, Acked, Overwrites, HoldsChunk, PathOf
  <2> QED
    BY DEF ChunkInv, ChunkStays
<1> QED
  BY <1>1, <1>2, <1>3, PTL DEF Spec

\* A client that waits for each answer, or a pool of one worker, leaves no two
\* requests at work.
Serial == PoolSize = 1 \/ Window = 1
SerialInv ==
  /\ Window = 1 => \A r, s \in Outstanding : r = s
  /\ PoolSize = 1 => \A r, s \in Working : r = s

\* A set of requests with fewer than one member is empty.
LEMMA NoneOfThem ==
  ASSUME TypeOK, NEW rs \in SUBSET DOMAIN reqs, Cardinality(rs) < 1
  PROVE  rs = {}
<1>1. DOMAIN reqs = 1..Len(reqs) /\ Len(reqs) \in Nat
  BY RequestNumbers
<1>2. IsFiniteSet(rs)
  <2>1. IsFiniteSet(1..Len(reqs))
    BY <1>1, FS_Interval
  <2> QED
    BY <1>1, <2>1, FS_Subset
<1>3. Cardinality(rs) \in Nat
  BY <1>2, FS_CardinalityType
<1>4. Cardinality(rs) = 0
  BY <1>3
<1> QED
  BY <1>2, <1>4, FS_EmptySet

\* Every step keeps SerialInv.
LEMMA NextSerial == TypeOK /\ SerialInv /\ [Next]_vars => SerialInv'
<1> SUFFICES ASSUME TypeOK, SerialInv, [Next]_vars PROVE SerialInv'
  OBVIOUS
<1>0. /\ Outstanding \in SUBSET DOMAIN reqs /\ Working \in SUBSET DOMAIN reqs
      /\ DOMAIN pc = DOMAIN reqs
  BY RequestNumbers DEF Outstanding, Working
<1>1. ASSUME NEW op \in Request(Len(reqs) + 1), Submit(op) PROVE SerialInv'
  <2>0. PICK new \in Nat : new = Len(reqs) + 1
    BY RequestNumbers
  <2>1. /\ DOMAIN reqs' = DOMAIN reqs \cup {new} /\ pc'[new] = "queued"
        /\ \A s \in DOMAIN reqs : pc'[s] = pc[s]
    BY <1>1, <2>0, SubmitAppends
  <2>2. gone' = gone /\ Cardinality(Outstanding) < Window
    BY <1>1 DEF Submit
  <2>3. Working' = Working
    BY <2>1 DEF Working
  <2>4. Window = 1 => Outstanding' \subseteq {new}
    <3>1. Window = 1 => Outstanding = {}
      BY <1>0, <2>2, NoneOfThem
    <3> QED
      BY <2>1, <2>2, <3>1 DEF Outstanding
  <2> QED
    BY <2>3, <2>4 DEF SerialInv
<1>2. CASE Shutdown \/ ShutdownNow \/ UNCHANGED vars
  <2>1. reqs' = reqs /\ gone \subseteq gone'
    BY <1>2 DEF Shutdown, ShutdownNow, vars
  <2>2. \A s \in DOMAIN reqs : pc'[s] = pc[s] \/ pc'[s] = "dropped"
    BY <1>0, <1>2 DEF Shutdown, ShutdownNow, vars
  <2>3. Outstanding' \subseteq Outstanding /\ Working' \subseteq Working
    BY <2>1, <2>2 DEF Outstanding, Working
  <2> QED
    BY <2>3 DEF SerialInv
<1>3. ASSUME NEW r \in Requests, Work(r) \/ Disturbed(r) PROVE SerialInv'
  <2>1. /\ r \in DOMAIN reqs /\ reqs' = reqs
        /\ \A s \in DOMAIN reqs : s # r => pc'[s] = pc[s]
    BY <1>3, WorkersKeepApart
  <2>2. gone \subseteq gone'
    BY <1>3 DEF Work, Begin, Lock, Unlock, Respond, Size, ReadBlocks, OpenFile, Truncate,
                WriteBlocks, Disturbed
  <2>3. Outstanding' \subseteq Outstanding
    BY <2>1, <2>2 DEF Outstanding
  <2>4. CASE pc[r] = "queued"
    <3>1. Cardinality(Working) < PoolSize
      BY <1>3, <2>4, WorkerMoves DEF Begin
    <3>2. PoolSize = 1 => Working = {}
      BY <1>0, <3>1, NoneOfThem
    <3>3. Working' \subseteq Working \cup {r}
      BY <2>1 DEF Working
    <3> QED
      BY <2>3, <3>2, <3>3 DEF SerialInv
  <2>5. CASE pc[r] # "queued"
    <3>1. Working' \subseteq Working
      BY <1>3, <2>1, <2>5, WorkerMoves DEF Working, Finished
    <3> QED
      BY <2>3, <3>1 DEF SerialInv
  <2> QED
    BY <2>4, <2>5
<1> QED
  BY <1>1, <1>2, <1>3 DEF Next, Terminated

\* So the client that waits for each answer before it sends the next chunk keeps
\* every chunk whose answer reports the whole of it, and so would a pool of one
\* worker.
THEOREM SerialUploadsKeepTheirChunks == Serial => (Spec => []AcknowledgedChunkStays)
<1>1. Init => TransferInv /\ SerialInv
  <2>1. Init => Outstanding = {} /\ Working = {}
    BY DEF Init, AtomicInit, Outstanding, Working
  <2> QED
    BY <2>1, InitInv DEF SerialInv
<1>2. TransferInv /\ SerialInv /\ [Next]_vars => TransferInv' /\ SerialInv'
  BY NextInv, NextSerial DEF TransferInv
<1>3. ASSUME Serial PROVE TransferInv /\ SerialInv => OneEach
  <2>1. TransferInv => Working \subseteq Outstanding
    BY DEF TransferInv, TypeOK, Working, Outstanding
  <2> QED
    BY <1>3, <2>1 DEF Serial, SerialInv, OneEach
<1>4. ASSUME Serial PROVE Spec => []OneEach
  <2>1. TransferInv /\ SerialInv => OneEach
    BY <1>3, <1>4
  <2> QED
    BY <1>1, <1>2, <2>1, PTL DEF Spec
<1>5. Serial => (Spec => []OneEach)
  BY <1>4
<1> QED
  BY <1>5, ChunksStayOneByOne, PTL
=============================================================================
