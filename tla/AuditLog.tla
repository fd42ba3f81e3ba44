------------------------------ MODULE AuditLog ------------------------------
(***************************************************************************)
(* The audit log of the gateway (AuditLogger): entries queue up while one  *)
(* append is under way, a full latest.log becomes an archive, archives are *)
(* compressed in the background and the oldest are deleted.  The process   *)
(* may exit or crash at any moment and start again.                        *)
(*                                                                         *)
(* An entry is its number in the order of the calls of log(); every entry  *)
(* has length one.  fate and begun are history variables.                  *)
(***************************************************************************)
EXTENDS Integers, FiniteSets, SequencesExt

CONSTANTS
  MaxEntries,    \* bound on the calls of log()
  MaxMinute,     \* bound on the clock that names archives
  Threshold,     \* SIZE_THRESHOLD_BYTES, in entries
  MaxArchives,   \* MAX_RETAINED_ARCHIVES
  Numbers,       \* the random numbers in the name of an archive
  Earlier        \* archives that earlier runs of the process have left

ASSUME AuditAssumption ==
  /\ MaxEntries \in Nat /\ MaxMinute \in Nat
  /\ Threshold \in Nat \ {0} /\ MaxArchives \in Nat \ {0}
  /\ "session" \notin Numbers
  /\ Earlier \in 0..MaxMinute /\ Earlier <= MaxArchives

VARIABLES
  up,        \* the process runs
  minute,    \* the clock, as formatDateForFilename shows it
  queue,     \* writeQueue
  appends,   \* the chunks handed to appendFile whose callback has not run
  size,      \* currentSizeBytes
  latest,    \* the content of latest.log
  plain,     \* archives not yet compressed (.log): name -> content
  zipped,    \* compressed archives (.log.gz), the oldest first
  jobs,      \* compressions under way: name -> scheduled, running or, when a
             \* cleaning has deleted the .gz that is being written, deleted
  fate,      \* history: what became of each entry
  begun      \* history: compressions begun since a cleaning without a failure

diskVars == <<latest, plain, zipped>>
auditVars == <<up, minute, queue, appends, size, diskVars, jobs, fate, begun>>

-----------------------------------------------------------------------------
Fates == {"pending", "appended", "failed", "dropped", "cleaned", "overwritten"}
Marked(fates, es, how) == [e \in DOMAIN fates |-> IF e \in es THEN how ELSE fates[e]]

Names == (0..MaxMinute) \X (Numbers \cup {"session"})
Without(f, x) == [y \in DOMAIN f \ {x} |-> f[y]]
With(f, x, v) == [y \in DOMAIN f \cup {x} |-> IF y = x THEN v ELSE f[y]]
Running == {n \in DOMAIN jobs : jobs[n] = "running"}

\* A .gz holds entries once its compression has finished.
Archive(n, content, whole) == [name |-> n, content |-> content, whole |-> whole]
EntriesOf(archives) == UNION {ToSet(a.content) : a \in {b \in archives : b.whole}}
ArchiveFiles == {plain[n] : n \in DOMAIN plain}
                  \cup {a.content : a \in {b \in ToSet(zipped) : b.whole}}
OnDisk == UNION {ToSet(file) : file \in ArchiveFiles \cup {latest}}

-----------------------------------------------------------------------------
\* Earlier runs have left an archive each, a minute apart; the entries in them
\* are not counted.
AuditInit ==
  /\ up = TRUE /\ minute = Earlier
  /\ queue = <<>> /\ appends = {} /\ size = 0
  /\ latest = <<>> /\ plain = <<>> /\ jobs = <<>>
  /\ zipped = [i \in 1..Earlier |-> Archive(<<i - 1, "session">>, <<>>, TRUE)]
  /\ fate = <<>> /\ begun = 0

\* Seeded bug: an append does not wait for the one before it.
WriteAtOnce(pending) == TRUE
\* isWriting guards appendFile.
MayWrite(pending) == pending = {}

\* Seeded bug: the queue is written and not emptied.
QueueKept(q) == q
AfterJoin(q) == <<>>

\* processQueue: everything that is queued goes into one append.
ProcessQueue(q, pending) ==
  IF q # <<>> /\ MayWrite(pending)
  THEN appends' = pending \cup {q} /\ queue' = AfterJoin(q)
  ELSE appends' = pending /\ queue' = q

\* Seeded bug: what queued up behind an append waits for the next log().
NoFollowUp(q, pending) == appends' = pending /\ queue' = q
\* The callback goes on with what queued up meanwhile.
FollowUp(q, pending) == ProcessQueue(q, pending)

Log ==
  /\ up /\ Len(fate) < MaxEntries
  /\ fate' = Append(fate, "pending")
  /\ ProcessQueue(Append(queue, Len(fate) + 1), appends)
  /\ UNCHANGED <<up, minute, size, diskVars, jobs, begun>>

-----------------------------------------------------------------------------
\* Seeded bug: one archive more than the limit stays.
RetainOneMore == MaxArchives + 1
Retain == MaxArchives

\* How many .gz files, finished or being written, there are beyond the limit.
Surplus ==
  LET n == Len(zipped) + Cardinality(Running) - Retain IN IF n > 0 THEN n ELSE 0

\* What is left of the files s when some of the first k are deleted.
Positions(s, k, m) ==
  {p \in [1..m -> DOMAIN s] :
     /\ \A i, j \in 1..m : i < j => p[i] < p[j]
     /\ \A i \in DOMAIN s : i > k => \E l \in 1..m : p[l] = i}
Thinned(s, k) ==
  UNION {{[i \in 1..m |-> s[p[i]]] : p \in Positions(s, k, m)} : m \in 0..Len(s)}

Deleted(js, open) == [n \in DOMAIN js |-> IF n \in open THEN "deleted" ELSE js[n]]

\* cleanOldArchives, with the compressions js.  The surplus with the oldest
\* mtimes goes, among it perhaps files still being written.  When a call throws
\* nothing is deleted, and every unlink may fail.
CleanOldArchives(js) ==
  \E open \in SUBSET Running :
    LET old == Surplus - Cardinality(open) IN
    /\ old >= 0
    /\ jobs' = Deleted(js, open)
    /\ \/ /\ old <= Len(zipped)
          /\ zipped' = SubSeq(zipped, old + 1, Len(zipped))
          /\ begun' = 0
       \/ /\ Surplus > 0
          /\ zipped' \in Thinned(zipped, old)
          /\ UNCHANGED begun
CleanedEntries == EntriesOf(ToSet(zipped)) \ EntriesOf(ToSet(zipped'))

\* The names a rotation may draw in this minute, used before or not.  A name
\* whose compression is under way is left out.
DrawnNames == ({minute} \X Numbers) \ DOMAIN jobs

\* The entries of the archive that a rename to this name overwrites.
Hit(name) == IF name \in DOMAIN plain THEN ToSet(plain[name]) ELSE {}

\* handleSizeRotation, with content in latest.log and bytes counted.
Rotate(content, bytes, fates) ==
  \/ \E name \in DrawnNames :
       /\ plain' = With(plain, name, content)
       /\ latest' = <<>> /\ size' = 0
       /\ CleanOldArchives(With(jobs, name, "scheduled"))
       /\ fate' = Marked(Marked(fates, CleanedEntries, "cleaned"), Hit(name), "overwritten")
  \/ \* renameSync throws
     /\ latest' = content /\ size' = bytes /\ fate' = fates
     /\ UNCHANGED <<plain, zipped, jobs, begun>>
  \/ \E name \in DrawnNames :  \* writeFileSync throws
       /\ plain' = With(plain, name, content)
       /\ latest' = <<>> /\ size' = bytes
       /\ fate' = Marked(fates, Hit(name), "overwritten")
       /\ UNCHANGED <<zipped, jobs, begun>>

\* The callback of appendFile, without an error.
AppendDone(chunk) ==
  LET content == latest \o chunk
      bytes   == size + Len(chunk)
      fates   == Marked(fate, ToSet(chunk), "appended")
  IN
  /\ up
  /\ IF bytes >= Threshold
     THEN Rotate(content, bytes, fates)
     ELSE /\ latest' = content /\ size' = bytes /\ fate' = fates
          /\ UNCHANGED <<plain, zipped, jobs, begun>>
  /\ FollowUp(queue, appends \ {chunk})
  /\ UNCHANGED <<up, minute>>

\* The callback with an error: a part may be in the file, none is counted.
AppendFails(chunk) ==
  /\ up
  /\ \E k \in 0..Len(chunk) : latest' = latest \o SubSeq(chunk, 1, k)
  /\ fate' = Marked(fate, ToSet(chunk), "failed")
  /\ FollowUp(queue, appends \ {chunk})
  /\ UNCHANGED <<up, minute, size, plain, zipped, jobs, begun>>

AppendReturns == \E chunk \in appends : AppendDone(chunk) \/ AppendFails(chunk)

-----------------------------------------------------------------------------
\* Seeded bug: the source is deleted as soon as it has been opened.
SourceTaken(n) == Without(plain, n)
SourceOpened(n) == plain

\* compressFileInBackground opens its streams: an old .gz of the name is lost.
JobBegins(n) ==
  LET same == {i \in DOMAIN zipped : zipped[i].name = n}
  IN
  /\ up /\ n \in DOMAIN jobs /\ jobs[n] = "scheduled"
  /\ jobs' = [jobs EXCEPT ![n] = "running"]
  /\ plain' = SourceOpened(n)
  /\ \/ /\ same = {}
        /\ begun' = begun + 1
        /\ UNCHANGED <<zipped, fate>>
     \/ \E i \in same :
          /\ zipped' = RemoveAt(zipped, i)
          /\ fate' = Marked(fate, EntriesOf({zipped[i]}), "overwritten")
          /\ UNCHANGED begun
  /\ UNCHANGED <<up, minute, queue, appends, size, latest>>

\* 'finish'; the unlink that follows may fail.  When a cleaning has deleted the
\* .gz, what is unlinked now is all there was.
JobFinishes(n) ==
  /\ up /\ n \in DOMAIN jobs
  /\ plain' \in {plain, Without(plain, n)}
  /\ \/ /\ jobs[n] = "running"
        /\ zipped' = Append(zipped, Archive(n, plain[n], TRUE))
        /\ UNCHANGED fate
     \/ /\ jobs[n] = "deleted"
        /\ fate' = Marked(fate, IF plain' = plain THEN {} ELSE ToSet(plain[n]), "cleaned")
        /\ UNCHANGED zipped
  /\ jobs' = Without(jobs, n)
  /\ UNCHANGED <<up, minute, queue, appends, size, latest, begun>>

\* 'error' of the write stream: half a .gz stays beside the archive.
JobFails(n) ==
  /\ up /\ n \in DOMAIN jobs
  /\ \/ /\ jobs[n] = "running"
        /\ zipped' = Append(zipped, Archive(n, <<>>, FALSE))
     \/ /\ jobs[n] = "deleted"
        /\ UNCHANGED zipped
  /\ jobs' = Without(jobs, n)
  /\ UNCHANGED <<up, minute, queue, appends, size, latest, plain, fate, begun>>

JobSteps == \E n \in DOMAIN jobs : JobBegins(n) \/ JobFinishes(n) \/ JobFails(n)

-----------------------------------------------------------------------------
\* process.exit or a crash: of an append under way any part is in the file.
Exit ==
  /\ up /\ up' = FALSE
  /\ \E chunk \in appends \cup {<<>>} : \E k \in 0..Len(chunk) :
        latest' = latest \o SubSeq(chunk, 1, k)
  /\ queue' = <<>> /\ appends' = {} /\ size' = 0 /\ jobs' = <<>>
  /\ zipped' = zipped \o [i \in 1..Cardinality(Running) |->
                            Archive(SetToSeq(Running)[i], <<>>, FALSE)]
  /\ fate' = Marked(fate, {e \in DOMAIN fate : fate[e] = "pending"}, "dropped")
  /\ UNCHANGED <<minute, plain, begun>>

\* The constructor: handleStartupRotation.  When the rename fails, latest.log
\* is emptied all the same.
Start ==
  LET name == <<minute, "session">> IN
  /\ ~up /\ up' = TRUE
  /\ latest' = <<>>
  /\ \/ /\ latest = <<>>
        /\ CleanOldArchives(jobs)
        /\ fate' = Marked(fate, CleanedEntries, "cleaned")
        /\ UNCHANGED plain
     \/ /\ latest # <<>>
        /\ plain' = With(plain, name, latest)
        /\ CleanOldArchives(With(jobs, name, "scheduled"))
        /\ fate' = Marked(Marked(fate, CleanedEntries, "cleaned"), Hit(name), "overwritten")
     \/ /\ latest # <<>>
        /\ CleanOldArchives(jobs)
        /\ fate' = Marked(Marked(fate, CleanedEntries, "cleaned"),
                          ToSet(latest), "overwritten")
        /\ UNCHANGED plain
  /\ UNCHANGED <<minute, queue, appends, size>>

Tick ==
  /\ minute < MaxMinute
  /\ minute' = minute + 1
  /\ UNCHANGED <<up, queue, appends, size, diskVars, jobs, fate, begun>>

AuditBackground == AppendReturns \/ JobSteps \/ Tick
AuditNext == Log \/ AuditBackground \/ Exit \/ Start
AuditSpec == AuditInit /\ [][AuditNext]_auditVars

\* libuv completes every append and every compression.
AuditFairness == WF_auditVars(AppendReturns) /\ WF_auditVars(JobSteps)

-----------------------------------------------------------------------------
AuditTypeOK ==
  /\ up \in BOOLEAN /\ minute \in 0..MaxMinute
  /\ fate \in Seq(Fates) /\ Len(fate) <= MaxEntries
  /\ ToSet(queue) \cup UNION {ToSet(c) : c \in appends} \subseteq DOMAIN fate
  /\ size \in Nat /\ begun \in Nat
  /\ DOMAIN plain \subseteq Names /\ DOMAIN jobs \subseteq Names
  /\ DOMAIN jobs \subseteq DOMAIN plain
  /\ \A n \in DOMAIN jobs : jobs[n] \in {"scheduled", "running", "deleted"}
  /\ \A i \in DOMAIN zipped : zipped[i].name \in Names /\ zipped[i].whole \in BOOLEAN

\* The files on disk hold the entries in the order of the calls of log(),
\* none of them twice: each file ascends, latest.log is newer than every
\* archive and two archives do not overlap.
Ascends(file) == \A i, j \in DOMAIN file : i < j => file[i] < file[j]
Before(f, g) == \A e \in ToSet(f), d \in ToSet(g) : e < d
TrailInOrder ==
  /\ \A file \in ArchiveFiles \cup {latest} : Ascends(file)
  /\ \A file \in ArchiveFiles : Before(file, latest)
  /\ \A f, g \in ArchiveFiles : f = g \/ Before(f, g) \/ Before(g, f)

\* An entry whose append was reported done stays readable, through rotation,
\* compression, crashes and restarts, until an archive that held it is
\* cleaned or its file is overwritten by one of the same name.
AppendedStays == \A e \in DOMAIN fate : fate[e] = "appended" => e \in OnDisk

\* What an exit can lose are the newest entries: none that was logged after an
\* entry still pending has been dealt with before it.
PendingAreNewest ==
  \A e, d \in DOMAIN fate : e < d /\ fate[e] = "pending" => fate[d] = "pending"

\* However often the process starts and rotates, and whatever fails meanwhile,
\* the .gz files exceed the limit by no more than the compressions begun since
\* the last cleaning in which nothing failed: such a cleaning makes up for all
\* that failed before it, and what crashes leave behind is counted.
ArchivesBounded == Len(zipped) + Cardinality(Running) <= MaxArchives + begun

\* The queue drains: every entry is appended, or its append fails or the
\* process ends, and none waits in the queue of a gateway that runs on.
QueueDrains ==
  (\E e \in DOMAIN fate : fate[e] = "pending") ~> (\A e \in DOMAIN fate : fate[e] # "pending")
=============================================================================
