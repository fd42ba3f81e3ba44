----------------------------- MODULE AtomicFile -----------------------------
(***************************************************************************)
(* What the chunk transfers of the plugin promise the gateway: a file is   *)
(* read and written one request at a time.  A request is accepted, takes   *)
(* effect at one instant, and is answered with what that instant saw or    *)
(* wrote; or the service that accepted it goes away and it takes no        *)
(* effect.  One system call may move less than it was asked to: the effect *)
(* is of a beginning of the chunk, and an error says nothing about it.     *)
(***************************************************************************)
EXTENDS Integers, Sequences

CONSTANTS Paths, Refused, Offsets, ChunkLength, MaxRequests, NoFile, Hole

VARIABLES
  files,    \* the content of every path: a sequence of blocks, or NoFile
  reqs,     \* the requests accepted so far, in the order they arrived
  results,  \* what each request was found to answer, or Unknown
  gone      \* the requests answered, or dropped with the service

atomicVars == <<files, reqs, results, gone>>

-----------------------------------------------------------------------------
Result(status, chunk) == [status |-> status, chunk |-> chunk]
Unknown == Result("UNKNOWN", <<>>)
Refusal(status) == Result(status, <<>>)

\* The blocks a request writes bear its number, so that no two writes of a
\* behaviour leave the same content behind.
Requests == 1..MaxRequests
Chunk(r) == [i \in 1..ChunkLength |-> r]
Request(r) ==
  [kind : {"read"}, path : Paths, offset : Offsets, data : {<<>>}]
    \cup [kind : {"write"}, path : Paths, offset : Offsets, data : {<<>>, Chunk(r)}]

IsTruncating(op) == op.kind = "write" /\ op.offset = 0

Longest(m, n) == IF m > n THEN m ELSE n
Shortest(m, n) == IF m < n THEN m ELSE n

\* A chunk read from an open file stops at its end.
ChunkOf(content, offset) ==
  SubSeq(content, offset + 1, Shortest(offset + ChunkLength, Len(content)))

\* What one call of read() or write() may move of the bytes it is given.
Beginnings(data) == {SubSeq(data, 1, n) : n \in 0..Len(data)}

\* Seeded bug: nothing fills the gap before a chunk past the end.
WrittenUnpadded(content, offset, data) ==
  [i \in 1..Longest(Len(content), offset + Len(data)) |->
     IF i \in offset + 1..offset + Len(data) THEN data[i - offset]
     ELSE IF i \in 1..Len(content) THEN content[i] ELSE NoFile]

\* A chunk written past the end of the file leaves a hole before it.
Written(content, offset, data) ==
  IF data = <<>> THEN content
  ELSE [i \in 1..Longest(Len(content), offset + Len(data)) |->
          IF i \in offset + 1..offset + Len(data) THEN data[i - offset]
          ELSE IF i \in 1..Len(content) THEN content[i] ELSE Hole]

Base(op, content) == IF content = NoFile \/ IsTruncating(op) THEN <<>> ELSE content

-----------------------------------------------------------------------------
AtomicInit ==
  /\ files = [p \in Paths |-> NoFile]
  /\ reqs = <<>>
  /\ results = <<>>
  /\ gone = {}

Accept(op) ==
  /\ reqs' = Append(reqs, op)
  /\ results' = Append(results, Unknown)
  /\ UNCHANGED <<files, gone>>

Open(r) == r \in DOMAIN reqs \ gone /\ results[r] = Unknown
Found(r, result) == results' = [results EXCEPT ![r] = result]

\* A refused path, a missing file: nothing is touched.
Refuse(r) ==
  /\ Open(r)
  /\ \/ reqs[r].path \in Refused /\ Found(r, Refusal("REFUSED"))
     \/ reqs[r].kind = "read" /\ files[reqs[r].path] = NoFile /\ Found(r, Refusal("NOT_FOUND"))
  /\ UNCHANGED <<files, reqs, gone>>

ReadChunk(r) ==
  /\ Open(r) /\ reqs[r].kind = "read" /\ files[reqs[r].path] # NoFile
  /\ \E chunk \in Beginnings(ChunkOf(files[reqs[r].path], reqs[r].offset)) :
       Found(r, Result("OK", chunk))
  /\ UNCHANGED <<files, reqs, gone>>

\* The file of a write that has put these blocks of its chunk there.
WithBlocks(op, blocks) ==
  [files EXCEPT ![op.path] = Written(Base(op, @), op.offset, blocks)]

\* The answer tells how much was written, as bytesWritten does.
WriteChunk(r) ==
  LET op == reqs[r] IN
  /\ Open(r) /\ op.kind = "write" /\ op.path \notin Refused
  /\ \E blocks \in Beginnings(op.data) :
       files' = WithBlocks(op, blocks) /\ Found(r, Result("OK", blocks))
  /\ UNCHANGED <<reqs, gone>>

\* A disk that fails: a write may have touched nothing, have created or
\* emptied its file, or have written its chunk in part or even whole.
Fail(r) ==
  LET op == reqs[r] IN
  /\ Open(r) /\ op.path \notin Refused
  /\ \/ UNCHANGED files
     \/ op.kind = "write" /\ \E blocks \in Beginnings(op.data) : files' = WithBlocks(op, blocks)
  /\ Found(r, Refusal("IO_ERROR"))
  /\ UNCHANGED <<reqs, gone>>

Answer(r) ==
  /\ r \in DOMAIN reqs \ gone /\ results[r] # Unknown
  /\ gone' = gone \cup {r}
  /\ UNCHANGED <<files, reqs, results>>

\* The service ends with requests it never began.
Drop(rs) ==
  /\ \A r \in rs : Open(r)
  /\ gone' = gone \cup rs
  /\ UNCHANGED <<files, reqs, results>>

AtomicNext ==
  \/ \E op \in UNION {Request(r) : r \in Requests} : Accept(op)
  \/ \E r \in DOMAIN reqs : Refuse(r) \/ ReadChunk(r) \/ WriteChunk(r) \/ Fail(r) \/ Answer(r)
  \/ \E rs \in SUBSET DOMAIN reqs : Drop(rs)

AtomicSpec == AtomicInit /\ [][AtomicNext]_atomicVars
=============================================================================
