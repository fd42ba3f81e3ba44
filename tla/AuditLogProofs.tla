--------------------------- MODULE AuditLogProofs ---------------------------
(***************************************************************************)
(* Proofs about AuditLog for every bound, threshold and number of archives *)
(* kept: which entries an exit can lose, that the files on disk are in     *)
(* order, that an appended entry stays readable, that an entry waiting has *)
(* an append under way, how many archives there may be, and that nothing   *)
(* but a cleaning touches an archive of an earlier minute.                 *)
(***************************************************************************)
EXTENDS AuditLog, TLAPS, FiniteSetTheorems, SequenceTheorems

USE AuditAssumption

-----------------------------------------------------------------------------
(* The inductive invariant.                                                *)

Zips == [name : Names, content : Seq(Nat), whole : BOOLEAN]

Types ==
  /\ up \in BOOLEAN /\ minute \in 0..MaxMinute
  /\ fate \in Seq(Fates) /\ Len(fate) <= MaxEntries
  /\ size \in Nat /\ begun \in Nat
  /\ latest \in Seq(Nat)
  /\ DOMAIN plain \subseteq Names /\ \A n \in DOMAIN plain : plain[n] \in Seq(Nat)
  /\ zipped \in Seq(Zips)
  /\ DOMAIN jobs \subseteq DOMAIN plain /\ IsFiniteSet(DOMAIN jobs)
  /\ \A n \in DOMAIN jobs : jobs[n] \in {"scheduled", "running", "deleted"}

\* The entries after a, up to b.
Stretch(a, b) == [i \in 1..(b - a) |-> a + i]

\* The first k entries have been dealt with, the next ones up to j are in the
\* append under way and the rest is in the queue.
Queued(k, j) ==
  /\ k <= j /\ j <= Len(fate)
  /\ queue = Stretch(j, Len(fate))
  /\ appends \subseteq {Stretch(k, j)}
  /\ appends = {} => k = Len(fate)
PendingAfter(k) == \A e \in DOMAIN fate : fate[e] = "pending" <=> e > k

\* The archives and the current file hold entries up to k, in order.
InOrder(files, last, k) ==
  /\ \A f \in files \cup {last} : f \in Seq(Nat) /\ Ascends(f) /\ ToSet(f) \subseteq 1..k
  /\ \A f \in files : Before(f, last)
  /\ \A f, g \in files : f = g \/ Before(f, g) \/ Before(g, f)

Standing(k, j) == Queued(k, j) /\ PendingAfter(k) /\ InOrder(ArchiveFiles, latest, k)

AuditInv == Types /\ (\E k, j \in Nat : Standing(k, j)) /\ AppendedStays

-----------------------------------------------------------------------------
(* Stretches of entries.                                                   *)

\* A stretch is a sequence of its entries, in order.
LEMMA StretchFacts ==
    ASSUME NEW a \in Nat, NEW b \in Nat, a <= b
    PROVE  /\ Stretch(a, b) \in Seq(Nat) /\ Len(Stretch(a, b)) = b - a
           /\ DOMAIN Stretch(a, b) = 1..(b - a)
           /\ \A i \in 1..(b - a) : Stretch(a, b)[i] = a + i
           /\ ToSet(Stretch(a, b)) = (a + 1)..b
           /\ Stretch(a, b) = <<>> <=> a = b
<1>1. DOMAIN Stretch(a, b) = 1..(b - a)
      /\ \A i \in 1..(b - a) : Stretch(a, b)[i] = a + i
  BY DEF Stretch
<1>2. Stretch(a, b) \in Seq(Nat) /\ Len(Stretch(a, b)) = b - a
  BY DEF Stretch
<1>3. ToSet(Stretch(a, b)) = (a + 1)..b
  <2>1. ASSUME NEW e \in (a + 1)..b PROVE e \in ToSet(Stretch(a, b))
    <3>1. e - a \in 1..(b - a) /\ a + (e - a) = e
      OBVIOUS
    <3> QED
      BY <1>1, <3>1 DEF ToSet
  <2>2. ASSUME NEW e \in ToSet(Stretch(a, b)) PROVE e \in (a + 1)..b
    <3>1. PICK i \in 1..(b - a) : e = a + i
      BY <1>1, <2>2 DEF ToSet
    <3> QED
      BY <3>1
  <2> QED
    BY <2>1, <2>2
<1>4. Stretch(a, b) = <<>> <=> a = b
  BY <1>2, EmptySeq
<1> QED
  BY <1>1, <1>2, <1>3, <1>4

\* One more entry is queued.
LEMMA StretchGrows ==
    ASSUME NEW a \in Nat, NEW b \in Nat, a <= b
    PROVE  Append(Stretch(a, b), b + 1) = Stretch(a, b + 1)
<1> DEFINE s == Stretch(a, b)
           t == Stretch(a, b + 1)
<1>1. s \in Seq(Nat) /\ Len(s) = b - a /\ \A i \in 1..(b - a) : s[i] = a + i
  BY StretchFacts
<1>2. t \in Seq(Nat) /\ Len(t) = b + 1 - a /\ \A i \in 1..(b + 1 - a) : t[i] = a + i
  BY StretchFacts
<1>3. /\ Append(s, b + 1) \in Seq(Nat) /\ Len(Append(s, b + 1)) = b - a + 1
      /\ \A i \in 1..(b - a) : Append(s, b + 1)[i] = s[i]
      /\ Append(s, b + 1)[b - a + 1] = b + 1
  BY <1>1, AppendProperties
<1> HIDE DEF s, t
<1>4. \A i \in 1..Len(t) : Append(s, b + 1)[i] = t[i]
  BY <1>1, <1>2, <1>3
<1>5. Append(s, b + 1) = t
  BY <1>2, <1>3, <1>4, SeqEqual
<1> QED
  BY <1>5 DEF s, t

\* processQueue hands on the whole queue or nothing of it.
LEMMA ProcessQueueStands ==
    ASSUME NEW k \in Nat, NEW j \in Nat, NEW n \in Nat, k <= j, j <= n,
           NEW pending, pending \subseteq {Stretch(k, j)}, pending = {} => k = j,
           ProcessQueue(Stretch(j, n), pending)
    PROVE  \E i \in Nat : /\ k <= i /\ i <= n
                          /\ queue' = Stretch(i, n)
                          /\ appends' \subseteq {Stretch(k, i)}
                          /\ appends' = {} => k = n
<1>1. CASE Stretch(j, n) # <<>> /\ pending = {}
  <2>1. appends' = {Stretch(k, n)} /\ queue' = <<>>
    BY <1>1 DEF ProcessQueue, MayWrite, AfterJoin
  <2>2. Stretch(n, n) = <<>>
    BY StretchFacts
  <2> QED
    BY <2>1, <2>2
<1>2. CASE Stretch(j, n) # <<>> /\ pending # {}
  BY <1>2 DEF ProcessQueue, MayWrite
<1>3. CASE Stretch(j, n) = <<>>
  <2>1. j = n
    BY <1>3, StretchFacts
  <2> QED
    BY <1>3, <2>1 DEF ProcessQueue
<1> QED
  BY <1>1, <1>2, <1>3

-----------------------------------------------------------------------------
(* Files.                                                                  *)

PlainFiles(p) == {p[n] : n \in DOMAIN p}
ZippedFiles(z) == {z[i].content : i \in {l \in DOMAIN z : z[l].whole}}

\* The files of the log, by their directories.
LEMMA ArchiveFilesSplit ==
    /\ ArchiveFiles = PlainFiles(plain) \cup ZippedFiles(zipped)
    /\ ArchiveFiles' = PlainFiles(plain') \cup ZippedFiles(zipped')
<1>1. \A z : {a.content : a \in {b \in ToSet(z) : b.whole}} = ZippedFiles(z)
  BY DEF ZippedFiles, ToSet
<1> QED
  BY <1>1 DEF ArchiveFiles, PlainFiles

\* What is readable of the log.
Readable(files) == UNION {ToSet(f) : f \in files}

\* What is on disk is what is readable of the files.
LEMMA OnDiskIsReadable ==
    /\ OnDisk = Readable(ArchiveFiles \cup {latest})
    /\ OnDisk' = Readable(ArchiveFiles' \cup {latest'})
  BY DEF OnDisk, Readable

\* An archive is added under a name of its own, or over an old one.
LEMMA PlainAdded ==
    ASSUME NEW p, NEW n, NEW f
    PROVE  /\ PlainFiles(With(p, n, f)) \subseteq PlainFiles(p) \cup {f}
           /\ f \in PlainFiles(With(p, n, f))
           /\ \A g \in PlainFiles(p) :
                g \in PlainFiles(With(p, n, f)) \/ (n \in DOMAIN p /\ g = p[n])
           /\ DOMAIN With(p, n, f) = DOMAIN p \cup {n}
  BY DEF PlainFiles, With

\* An archive is removed.
LEMMA PlainRemoved ==
    ASSUME NEW p, NEW n \in DOMAIN p
    PROVE  /\ PlainFiles(Without(p, n)) \subseteq PlainFiles(p)
           /\ PlainFiles(p) \subseteq PlainFiles(Without(p, n)) \cup {p[n]}
           /\ DOMAIN Without(p, n) = DOMAIN p \ {n}
  BY DEF PlainFiles, Without

\* A compressed archive is added.
LEMMA ZippedAdded ==
    ASSUME NEW z \in Seq(Zips), NEW a \in Zips
    PROVE  /\ Append(z, a) \in Seq(Zips) /\ Len(Append(z, a)) = Len(z) + 1
           /\ ZippedFiles(Append(z, a)) =
                ZippedFiles(z) \cup (IF a.whole THEN {a.content} ELSE {})
<1> DEFINE y == Append(z, a)
<1>1. /\ y \in Seq(Zips) /\ Len(y) = Len(z) + 1
      /\ \A i \in 1..Len(z) : y[i] = z[i]
      /\ y[Len(z) + 1] = a
  BY AppendProperties
<1>2. DOMAIN z = 1..Len(z) /\ DOMAIN y = 1..(Len(z) + 1) /\ Len(z) \in Nat
  BY <1>1, LenProperties
<1> HIDE DEF y
<1>3. ZippedFiles(z) \subseteq ZippedFiles(y)
  BY <1>1, <1>2 DEF ZippedFiles
<1>4. a.whole => a.content \in ZippedFiles(y)
  BY <1>1, <1>2 DEF ZippedFiles
<1>5. ASSUME NEW f \in ZippedFiles(y)
      PROVE  f \in ZippedFiles(z) \cup (IF a.whole THEN {a.content} ELSE {})
  <2>1. PICK i \in DOMAIN y : y[i].whole /\ f = y[i].content
    BY <1>5 DEF ZippedFiles
  <2>2. CASE i = Len(z) + 1
    BY <1>1, <2>1, <2>2
  <2>3. CASE i # Len(z) + 1
    <3>1. i \in 1..Len(z)
      BY <1>2, <2>1, <2>3
    <3> QED
      BY <1>1, <1>2, <2>1, <3>1 DEF ZippedFiles
  <2> QED
    BY <2>2, <2>3
<1>6. ZippedFiles(y) = ZippedFiles(z) \cup (IF a.whole THEN {a.content} ELSE {})
  BY <1>3, <1>4, <1>5
<1> QED
  BY <1>1, <1>6 DEF y

\* The oldest compressed archives are removed.
LEMMA ZippedCleaned ==
    ASSUME NEW z \in Seq(Zips), NEW n \in Nat \ {0}
    PROVE  LET y == SubSeq(z, n, Len(z))
           IN /\ y \in Seq(Zips) /\ Len(y) = IF n <= Len(z) THEN Len(z) - n + 1 ELSE 0
              /\ ZippedFiles(y) \subseteq ZippedFiles(z)
              /\ \A i \in DOMAIN z : i >= n => z[i] \in ToSet(y)
<1> DEFINE y == SubSeq(z, n, Len(z))
<1>1. DOMAIN z = 1..Len(z) /\ Len(z) \in Nat /\ \A i \in 1..Len(z) : z[i] \in Zips
  BY LenProperties
<1>2. /\ y \in Seq(Zips) /\ Len(y) = IF n <= Len(z) THEN Len(z) - n + 1 ELSE 0
      /\ \A i \in 1..(Len(z) - n + 1) : y[i] = z[n + i - 1]
  BY <1>1, SubSeqProperties
<1>3. DOMAIN y = 1..Len(y) /\ Len(y) \in Nat
  BY <1>2, LenProperties
<1> HIDE DEF y
<1>4. \A i \in DOMAIN y : n + i - 1 \in DOMAIN z /\ y[i] = z[n + i - 1]
  BY <1>1, <1>2, <1>3
<1>5. ZippedFiles(y) \subseteq ZippedFiles(z)
  BY <1>4 DEF ZippedFiles
<1>6. ASSUME NEW i \in DOMAIN z, i >= n PROVE z[i] \in ToSet(y)
  <2>1. i - n + 1 \in 1..(Len(z) - n + 1) /\ n + (i - n + 1) - 1 = i /\ n <= Len(z)
    BY <1>1, <1>6
  <2>2. i - n + 1 \in DOMAIN y /\ y[i - n + 1] = z[i]
    BY <1>2, <1>3, <2>1
  <2> QED
    BY <2>2 DEF ToSet
<1> QED
  BY <1>2, <1>5, <1>6 DEF y

\* Some of the oldest compressed archives are removed.
LEMMA ZippedThinned ==
    ASSUME NEW z \in Seq(Zips), NEW k \in Nat, NEW y \in Thinned(z, k)
    PROVE  /\ y \in Seq(Zips) /\ Len(y) <= Len(z)
           /\ ZippedFiles(y) \subseteq ZippedFiles(z)
           /\ \A i \in DOMAIN z : i > k => z[i] \in ToSet(y)
<1>0. PICK m \in 0..Len(z) : \E p \in Positions(z, k, m) : y = [i \in 1..m |-> z[p[i]]]
  BY DEF Thinned
<1>1. PICK p \in Positions(z, k, m) : y = [i \in 1..m |-> z[p[i]]]
  BY <1>0
<1>2. p \in [1..m -> DOMAIN z] /\ \A i \in DOMAIN z : i > k => \E l \in 1..m : p[l] = i
  BY DEF Positions
<1>3. Len(z) \in Nat /\ \A i \in DOMAIN z : z[i] \in Zips
  BY LenProperties
<1>4. DOMAIN y = 1..m /\ \A i \in 1..m : p[i] \in DOMAIN z /\ y[i] = z[p[i]]
  BY <1>1, <1>2
<1>5. y \in Seq(Zips) /\ Len(y) = m
  <2>1. y \in [1..m -> Zips] /\ m \in Nat
    BY <1>1, <1>2, <1>3
  <2> QED
    BY <1>4, <2>1
<1>6. ZippedFiles(y) \subseteq ZippedFiles(z)
  BY <1>4 DEF ZippedFiles
<1>7. \A i \in DOMAIN z : i > k => z[i] \in ToSet(y)
  BY <1>2, <1>4 DEF ToSet
<1> QED
  BY <1>3, <1>5, <1>6, <1>7

\* One compressed archive is removed.
LEMMA ZippedRemoved ==
    ASSUME NEW z \in Seq(Zips), NEW i \in DOMAIN z
    PROVE  /\ RemoveAt(z, i) \in Seq(Zips) /\ Len(RemoveAt(z, i)) = Len(z) - 1
           /\ ZippedFiles(RemoveAt(z, i)) \subseteq ZippedFiles(z)
           /\ \A f \in ZippedFiles(z) :
                \/ f \in ZippedFiles(RemoveAt(z, i))
                \/ f = z[i].content /\ z[i].whole
           /\ \A l \in DOMAIN z : l # i => z[l] \in ToSet(RemoveAt(z, i))
<1> DEFINE u == SubSeq(z, 1, i - 1)
           v == SubSeq(z, i + 1, Len(z))
           y == u \o v
<1>1. DOMAIN z = 1..Len(z) /\ Len(z) \in Nat /\ \A l \in 1..Len(z) : z[l] \in Zips
  BY LenProperties
<1>2. /\ u \in Seq(Zips) /\ Len(u) = i - 1
      /\ \A l \in 1..(i - 1) : u[l] = z[l]
  <2>1. /\ u \in Seq(Zips) /\ Len(u) = IF 1 <= i - 1 THEN i - 1 - 1 + 1 ELSE 0
        /\ \A l \in 1..(i - 1 - 1 + 1) : u[l] = z[1 + l - 1]
    BY <1>1, SubSeqProperties
  <2> HIDE DEF u
  <2>2. \A l \in 1..(i - 1) : u[l] = z[l]
    <3> TAKE l \in 1..(i - 1)
    <3>1. l \in 1..(i - 1 - 1 + 1) /\ 1 + l - 1 = l
      BY <1>1
    <3> QED
      BY <2>1, <3>1
  <2> QED
    BY <1>1, <2>1, <2>2
<1>3. /\ v \in Seq(Zips) /\ Len(v) = Len(z) - i
      /\ \A l \in 1..(Len(z) - i) : v[l] = z[i + l]
  <2>1. /\ v \in Seq(Zips)
        /\ Len(v) = IF i + 1 <= Len(z) THEN Len(z) - (i + 1) + 1 ELSE 0
        /\ \A l \in 1..(Len(z) - (i + 1) + 1) : v[l] = z[(i + 1) + l - 1]
    BY <1>1, SubSeqProperties
  <2> HIDE DEF v
  <2>2. \A l \in 1..(Len(z) - i) : v[l] = z[i + l]
    <3> TAKE l \in 1..(Len(z) - i)
    <3>1. l \in 1..(Len(z) - (i + 1) + 1) /\ (i + 1) + l - 1 = i + l
      BY <1>1
    <3> QED
      BY <2>1, <3>1
  <2> QED
    BY <1>1, <2>1, <2>2
<1> HIDE DEF u, v
<1>4. /\ y \in Seq(Zips) /\ Len(y) = Len(z) - 1
      /\ \A l \in 1..(i - 1) : y[l] = z[l]
      /\ \A l \in i..(Len(z) - 1) : y[l] = z[l + 1]
  <2>1. /\ y \in Seq(Zips) /\ Len(y) = Len(u) + Len(v)
        /\ \A l \in 1..(Len(u) + Len(v)) :
             y[l] = IF l <= Len(u) THEN u[l] ELSE v[l - Len(u)]
    BY <1>2, <1>3, ConcatProperties
  <2> HIDE DEF y
  <2>2. \A l \in 1..(i - 1) : y[l] = z[l]
    BY <1>1, <1>2, <1>3, <2>1
  <2>3. \A l \in i..(Len(z) - 1) : y[l] = z[l + 1]
    <3> TAKE l \in i..(Len(z) - 1)
    <3>1. y[l] = v[l - (i - 1)]
      BY <1>1, <1>2, <1>3, <2>1
    <3>2. l - (i - 1) \in 1..(Len(z) - i) /\ i + (l - (i - 1)) = l + 1
      BY <1>1
    <3> QED
      BY <1>3, <3>1, <3>2
  <2> QED
    BY <1>1, <1>2, <1>3, <2>1, <2>2, <2>3
<1>5. y = RemoveAt(z, i)
  BY DEF RemoveAt, u, v
<1>6. DOMAIN y = 1..(Len(z) - 1)
  BY <1>4, LenProperties
<1> HIDE DEF y
<1>7. ZippedFiles(y) \subseteq ZippedFiles(z)
  <2>1. ASSUME NEW l \in DOMAIN y PROVE \E m \in DOMAIN z : y[l] = z[m]
    <3>1. CASE l < i
      BY <1>1, <1>4, <1>6, <3>1
    <3>2. CASE ~(l < i)
      <4>1. l \in i..(Len(z) - 1) /\ l + 1 \in DOMAIN z
        BY <1>1, <1>6, <3>2
      <4> QED
        BY <1>4, <4>1
    <3> QED
      BY <3>1, <3>2
  <2> QED
    BY <2>1 DEF ZippedFiles
<1>8. ASSUME NEW l \in DOMAIN z, l # i PROVE \E m \in DOMAIN y : y[m] = z[l]
  <2>1. CASE l < i
    <3>1. l \in DOMAIN y /\ y[l] = z[l]
      BY <1>1, <1>4, <1>6, <2>1
    <3> QED
      BY <3>1
  <2>2. CASE l > i
    <3>1. l - 1 \in i..(Len(z) - 1) /\ (l - 1) + 1 = l /\ l - 1 \in DOMAIN y
      BY <1>1, <1>6, <2>2
    <3>2. y[l - 1] = z[l]
      BY <1>4, <3>1
    <3> QED
      BY <3>1, <3>2
  <2> QED
    BY <1>1, <1>8, <2>1, <2>2
<1>9. \A f \in ZippedFiles(z) : f \in ZippedFiles(y) \/ (f = z[i].content /\ z[i].whole)
  BY <1>8 DEF ZippedFiles
<1>10. \A l \in DOMAIN z : l # i => z[l] \in ToSet(y)
  BY <1>8 DEF ToSet
<1> QED
  BY <1>4, <1>5, <1>7, <1>9, <1>10

-----------------------------------------------------------------------------
(* Marks and cleaning.                                                     *)

\* Marking entries changes nothing but their fate.
LEMMA MarkedFacts ==
    ASSUME NEW fates \in Seq(Fates), NEW es, NEW how \in Fates
    PROVE  /\ Marked(fates, es, how) \in Seq(Fates)
           /\ Len(Marked(fates, es, how)) = Len(fates)
           /\ DOMAIN Marked(fates, es, how) = DOMAIN fates
           /\ \A e \in DOMAIN fates :
                Marked(fates, es, how)[e] = IF e \in es THEN how ELSE fates[e]
<1>1. DOMAIN fates = 1..Len(fates) /\ Len(fates) \in Nat
      /\ \A e \in 1..Len(fates) : fates[e] \in Fates
  BY LenProperties
<1> QED
  BY <1>1 DEF Marked

\* Marking no entry changes nothing.
LEMMA MarkedNothing ==
    ASSUME NEW fates \in Seq(Fates), NEW how
    PROVE  Marked(fates, {}, how) = fates
<1>1. fates = [e \in DOMAIN fates |-> fates[e]]
  <2>1. fates \in [1..Len(fates) -> Fates]
    BY LenProperties
  <2> QED
    BY <2>1
<1> QED
  BY <1>1 DEF Marked

\* The compressions under way can be counted.
LEMMA RunningIsFinite ==
    ASSUME Types
    PROVE  IsFiniteSet(Running) /\ Cardinality(Running) \in Nat
<1>1. Running \in SUBSET DOMAIN jobs
  BY DEF Running
<1> QED
  BY <1>1, FS_Subset, FS_CardinalityType DEF Types

\* What is beyond the limit.
LEMMA SurplusFacts ==
    ASSUME Types
    PROVE  /\ Surplus \in Nat
           /\ Len(zipped) + Cardinality(Running) - Surplus <= MaxArchives
  BY RunningIsFinite, LenProperties DEF Surplus, Retain, Types

\* A cleaning keeps a part of the compressed archives, in any case those that
\* are not among the surplus, and the compressions but for their state.
LEMMA CleaningFacts ==
    ASSUME Types, NEW js, CleanOldArchives(js)
    PROVE  /\ zipped' \in Seq(Zips) /\ begun' \in Nat
           /\ ZippedFiles(zipped') \subseteq ZippedFiles(zipped)
           /\ \A i \in DOMAIN zipped : i > Surplus => zipped[i] \in ToSet(zipped')
           /\ CleanedEntries =
                Readable(ZippedFiles(zipped)) \ Readable(ZippedFiles(zipped'))
           /\ DOMAIN jobs' = DOMAIN js
           /\ \A n \in DOMAIN js : jobs'[n] \in {js[n], "deleted"}
<1>1. PICK open \in SUBSET Running :
        LET old == Surplus - Cardinality(open) IN
        /\ old >= 0
        /\ jobs' = Deleted(js, open)
        /\ \/ /\ old <= Len(zipped)
              /\ zipped' = SubSeq(zipped, old + 1, Len(zipped))
              /\ begun' = 0
           \/ /\ Surplus > 0
              /\ zipped' \in Thinned(zipped, old)
              /\ UNCHANGED begun
  BY DEF CleanOldArchives
<1>2. /\ zipped \in Seq(Zips) /\ Len(zipped) \in Nat /\ DOMAIN zipped = 1..Len(zipped)
      /\ begun \in Nat
  BY LenProperties DEF Types
<1>3. Surplus \in Nat /\ Cardinality(open) \in Nat
  BY SurplusFacts, RunningIsFinite, FS_Subset, FS_CardinalityType
<1> DEFINE old == Surplus - Cardinality(open)
<1>4. /\ old \in Nat /\ old <= Surplus
      /\ \/ zipped' = SubSeq(zipped, old + 1, Len(zipped)) /\ begun' = 0
         \/ zipped' \in Thinned(zipped, old) /\ begun' = begun
  BY <1>1, <1>3
<1> HIDE DEF old
<1>5. /\ zipped' \in Seq(Zips) /\ ZippedFiles(zipped') \subseteq ZippedFiles(zipped)
      /\ \A i \in DOMAIN zipped : i > old => zipped[i] \in ToSet(zipped')
  <2>1. CASE zipped' = SubSeq(zipped, old + 1, Len(zipped))
    <3>1. old + 1 \in Nat \ {0}
      BY <1>4
    <3>2. LET y == SubSeq(zipped, old + 1, Len(zipped))
          IN /\ y \in Seq(Zips) /\ ZippedFiles(y) \subseteq ZippedFiles(zipped)
             /\ \A i \in DOMAIN zipped : i >= old + 1 => zipped[i] \in ToSet(y)
      BY <1>2, <3>1, ZippedCleaned
    <3>3. \A i \in DOMAIN zipped : i > old => i >= old + 1
      BY <1>2, <1>4
    <3> QED
      BY <2>1, <3>2, <3>3
  <2>2. CASE zipped' \in Thinned(zipped, old)
    BY <1>2, <1>4, <2>2, ZippedThinned
  <2> QED
    BY <1>4, <2>1, <2>2
<1>6. \A i \in DOMAIN zipped : i > Surplus => i > old
  BY <1>2, <1>3, <1>4
<1>7. \A z : EntriesOf(ToSet(z)) = Readable(ZippedFiles(z))
  BY DEF EntriesOf, Readable, ZippedFiles, ToSet
<1>8. DOMAIN jobs' = DOMAIN js /\ \A n \in DOMAIN js : jobs'[n] \in {js[n], "deleted"}
  BY <1>1 DEF Deleted
<1> QED
  BY <1>2, <1>4, <1>5, <1>6, <1>7, <1>8 DEF CleanedEntries

-----------------------------------------------------------------------------
(* The order of the files.                                                 *)

\* Fewer archives are in order, and further entries do not disturb it.
LEMMA FewerInOrder ==
    ASSUME NEW files, NEW last, NEW k \in Nat, InOrder(files, last, k),
           NEW fewer, fewer \subseteq files, NEW j \in Nat, k <= j
    PROVE  InOrder(fewer, last, j)
<1>1. 1..k \subseteq 1..j
  OBVIOUS
<1> QED
  BY <1>1 DEF InOrder

\* The current file may become an archive, and a new one begin.
LEMMA RotatedInOrder ==
    ASSUME NEW files, NEW last, NEW k \in Nat, InOrder(files, last, k),
           NEW rotated, rotated \subseteq files \cup {last}
    PROVE  InOrder(rotated, <<>>, k)
<1>1. <<>> \in Seq(Nat) /\ Ascends(<<>>) /\ ToSet(<<>>) = {}
  BY DEF Ascends, ToSet
<1>2. \A f \in rotated : Before(f, <<>>)
  BY <1>1 DEF Before
<1>3. \A f, g \in files \cup {last} : f = g \/ Before(f, g) \/ Before(g, f)
  BY DEF InOrder
<1> QED
  BY <1>1, <1>2, <1>3 DEF InOrder

\* What a concatenation holds.
LEMMA ConcatFacts ==
    ASSUME NEW f \in Seq(Nat), NEW g \in Seq(Nat)
    PROVE  /\ f \o g \in Seq(Nat) /\ ToSet(f \o g) = ToSet(f) \cup ToSet(g)
           /\ Ascends(f) /\ Ascends(g) /\ Before(f, g) => Ascends(f \o g)
<1> DEFINE h == f \o g
<1>1. /\ h \in Seq(Nat) /\ Len(h) = Len(f) + Len(g)
      /\ \A i \in 1..(Len(f) + Len(g)) :
           h[i] = IF i <= Len(f) THEN f[i] ELSE g[i - Len(f)]
  BY ConcatProperties
<1>2. /\ DOMAIN f = 1..Len(f) /\ DOMAIN g = 1..Len(g) /\ DOMAIN h = 1..Len(h)
      /\ Len(f) \in Nat /\ Len(g) \in Nat
  BY <1>1, LenProperties
<1> HIDE DEF h
<1>3. \A i \in DOMAIN h : \/ i \in DOMAIN f /\ h[i] = f[i]
                         \/ /\ i - Len(f) \in DOMAIN g /\ i > Len(f)
                            /\ h[i] = g[i - Len(f)]
  <2> TAKE i \in DOMAIN h
  <2>1. i \in 1..(Len(f) + Len(g)) /\ i \in Nat
    BY <1>1, <1>2
  <2>2. CASE i <= Len(f)
    BY <1>1, <1>2, <2>1, <2>2
  <2>3. CASE i > Len(f)
    <3>1. i - Len(f) \in 1..Len(g)
      BY <1>2, <2>1, <2>3
    <3> QED
      BY <1>1, <1>2, <2>1, <2>3, <3>1
  <2> QED
    BY <1>2, <2>1, <2>2, <2>3
<1>4. ToSet(h) \subseteq ToSet(f) \cup ToSet(g)
  BY <1>3 DEF ToSet
<1>5. ToSet(f) \subseteq ToSet(h)
  <2>1. \A i \in DOMAIN f : i \in DOMAIN h /\ h[i] = f[i]
    BY <1>1, <1>2
  <2> QED
    BY <2>1 DEF ToSet
<1>6. ToSet(g) \subseteq ToSet(h)
  <2>1. ASSUME NEW i \in DOMAIN g PROVE i + Len(f) \in DOMAIN h /\ h[i + Len(f)] = g[i]
    <3>1. i \in 1..Len(g) /\ i \in Nat
      BY <1>2
    <3>2. /\ i + Len(f) \in 1..(Len(f) + Len(g)) /\ ~(i + Len(f) <= Len(f))
          /\ (i + Len(f)) - Len(f) = i
      BY <1>2, <3>1
    <3> QED
      BY <1>1, <1>2, <3>2
  <2> QED
    BY <2>1 DEF ToSet
<1>7. ASSUME Ascends(f), Ascends(g), Before(f, g) PROVE Ascends(h)
  <2> SUFFICES ASSUME NEW i \in DOMAIN h, NEW l \in DOMAIN h, i < l
               PROVE  h[i] < h[l]
    BY DEF Ascends
  <2>1. CASE l <= Len(f)
    <3>1. i \in DOMAIN f /\ l \in DOMAIN f /\ h[i] = f[i] /\ h[l] = f[l]
      BY <1>1, <1>2, <2>1
    <3> QED
      BY <1>7, <3>1 DEF Ascends
  <2>2. CASE i <= Len(f) /\ l > Len(f)
    <3>1. i \in DOMAIN f /\ l - Len(f) \in DOMAIN g /\ h[i] = f[i] /\ h[l] = g[l - Len(f)]
      BY <1>1, <1>2, <2>2
    <3>2. h[i] \in ToSet(f) /\ h[l] \in ToSet(g)
      BY <3>1 DEF ToSet
    <3> QED
      BY <1>7, <3>2 DEF Before
  <2>3. CASE i > Len(f)
    <3>1. /\ i - Len(f) \in DOMAIN g /\ l - Len(f) \in DOMAIN g
          /\ i - Len(f) < l - Len(f)
          /\ h[i] = g[i - Len(f)] /\ h[l] = g[l - Len(f)]
      <4>1. i \in 1..(Len(f) + Len(g)) /\ l \in 1..(Len(f) + Len(g)) /\ l > Len(f)
        BY <1>1, <1>2, <2>3
      <4>2. /\ i - Len(f) \in 1..Len(g) /\ l - Len(f) \in 1..Len(g)
            /\ i - Len(f) < l - Len(f) /\ ~(i <= Len(f)) /\ ~(l <= Len(f))
        BY <1>2, <2>3, <4>1
      <4> QED
        BY <1>1, <1>2, <4>1, <4>2
    <3> QED
      BY <1>7, <3>1 DEF Ascends
  <2> QED
    BY <1>2, <2>1, <2>2, <2>3
<1> QED
  BY <1>1, <1>4, <1>5, <1>6, <1>7 DEF h

\* Any beginning of the next stretch may be added to the current file.
LEMMA ExtendedInOrder ==
    ASSUME NEW files, NEW last, NEW k \in Nat, InOrder(files, last, k),
           NEW i \in Nat, NEW j \in Nat, k <= i, i <= j
    PROVE  InOrder(files, last \o Stretch(k, i), j)
<1> DEFINE s == Stretch(k, i)
<1>1. s \in Seq(Nat) /\ ToSet(s) = (k + 1)..i /\ Ascends(s)
  <2>1. /\ s \in Seq(Nat) /\ ToSet(s) = (k + 1)..i /\ DOMAIN s = 1..(i - k)
        /\ \A l \in 1..(i - k) : s[l] = k + l
    BY StretchFacts
  <2> QED
    BY <2>1 DEF Ascends
<1>2. last \in Seq(Nat) /\ Ascends(last) /\ ToSet(last) \subseteq 1..k
  BY DEF InOrder
<1> HIDE DEF s
<1>3. \A f : ToSet(f) \subseteq 1..k => Before(f, s)
  BY <1>1 DEF Before
<1>4. /\ last \o s \in Seq(Nat) /\ ToSet(last \o s) = ToSet(last) \cup ToSet(s)
      /\ Ascends(last \o s)
  BY <1>1, <1>2, <1>3, ConcatFacts
<1>5. ToSet(last \o s) \subseteq 1..j
  BY <1>1, <1>2, <1>4
<1>6. \A f \in files : f \in Seq(Nat) /\ Ascends(f) /\ ToSet(f) \subseteq 1..k /\ Before(f, last)
  BY DEF InOrder
<1>7. \A f \in files : Before(f, last \o s)
  BY <1>3, <1>4, <1>6 DEF Before
<1>8. 1..k \subseteq 1..j
  OBVIOUS
<1>9. InOrder(files, last \o s, j)
  BY <1>4, <1>5, <1>6, <1>7, <1>8 DEF InOrder
<1> QED
  BY <1>9 DEF s

\* The beginnings of a stretch are stretches.
LEMMA BeginningOfStretch ==
    ASSUME NEW k \in Nat, NEW j \in Nat, k <= j, NEW m \in 0..(j - k)
    PROVE  SubSeq(Stretch(k, j), 1, m) = Stretch(k, k + m)
<1> DEFINE s == Stretch(k, j)
           t == Stretch(k, k + m)
           b == SubSeq(s, 1, m)
<1>1. s \in Seq(Nat) /\ Len(s) = j - k /\ \A i \in 1..(j - k) : s[i] = k + i
  BY StretchFacts
<1>2. t \in Seq(Nat) /\ Len(t) = k + m - k /\ \A i \in 1..(k + m - k) : t[i] = k + i
  <2>1. k + m \in Nat /\ k <= k + m
    OBVIOUS
  <2> QED
    BY <2>1, StretchFacts
<1> HIDE DEF s, t
<1>3. /\ b \in Seq(Nat) /\ Len(b) = IF 1 <= m THEN m - 1 + 1 ELSE 0
      /\ \A i \in 1..(m - 1 + 1) : b[i] = s[1 + i - 1]
  BY <1>1, SubSeqProperties
<1> HIDE DEF b
<1>4. Len(b) = Len(t) /\ Len(t) = m
  BY <1>2, <1>3
<1>5. \A i \in 1..Len(b) : b[i] = t[i]
  <2> TAKE i \in 1..Len(b)
  <2>1. i \in 1..(m - 1 + 1) /\ 1 + i - 1 = i /\ i \in 1..(j - k) /\ i \in 1..(k + m - k)
    BY <1>4
  <2> QED
    BY <1>1, <1>2, <1>3, <2>1
<1>6. b = t
  BY <1>2, <1>3, <1>4, <1>5, SeqEqual
<1> QED
  BY <1>6 DEF b, s, t

-----------------------------------------------------------------------------
(* Steps.                                                                  *)

Gone == {"cleaned", "overwritten"}

\* What a step does to the entries: a fate that is decided stays unless the
\* entry goes with its file, no other entry leaves the disk, no entry comes
\* to it after its fate was decided, and an appended one is on it.
DiskStep ==
  /\ DOMAIN fate \subseteq DOMAIN fate'
  /\ \A e \in DOMAIN fate' \ DOMAIN fate : fate'[e] = "pending"
  /\ \A e \in DOMAIN fate :
       /\ \/ fate[e] = "pending"
          \/ fate'[e] = fate[e]
          \/ e \in OnDisk /\ fate'[e] \in Gone
       /\ e \in OnDisk => e \in OnDisk' \/ fate'[e] \in Gone
       /\ e \in OnDisk' => e \in OnDisk \/ fate[e] = "pending"
       /\ fate[e] = "pending" /\ fate'[e] = "appended" => e \in OnDisk'

\* An entry that is appended stays through such a step.
LEMMA DiskStepKeeps == ASSUME AppendedStays, DiskStep PROVE AppendedStays'
  BY DEF AppendedStays, DiskStep, Gone

\* Entries on disk have been dealt with.
LEMMA OnDiskIsDealtWith ==
    ASSUME NEW k \in Nat, InOrder(ArchiveFiles, latest, k), PendingAfter(k),
           NEW e \in OnDisk
    PROVE  e \in 1..k /\ (e \in DOMAIN fate => fate[e] # "pending")
<1>1. e \in 1..k
  BY DEF OnDisk, InOrder
<1> QED
  BY <1>1 DEF PendingAfter

\* log() queues one entry.
LEMMA LogStands ==
    ASSUME Types, NEW k \in Nat, NEW j \in Nat, Standing(k, j), Log
    PROVE  Types' /\ (\E i \in Nat : Standing(k, i)') /\ DiskStep
<1> DEFINE n == Len(fate)
<1>1. /\ fate' = Append(fate, "pending") /\ n < MaxEntries
      /\ ProcessQueue(Append(queue, n + 1), appends)
      /\ UNCHANGED <<up, minute, size, latest, plain, zipped, jobs, begun>>
  BY DEF Log, diskVars
<1>2. "pending" \in Fates /\ fate \in Seq(Fates) /\ n \in Nat /\ DOMAIN fate = 1..n
  BY LenProperties DEF Types, Fates
<1>3. /\ fate' \in Seq(Fates) /\ Len(fate') = n + 1 /\ DOMAIN fate' = 1..(n + 1)
      /\ \A e \in 1..n : fate'[e] = fate[e]
      /\ fate'[n + 1] = "pending"
  BY <1>1, <1>2, AppendProperties, LenProperties
<1>4. Types'
  BY <1>1, <1>2, <1>3 DEF Types
<1>0. k <= j /\ j <= n
  BY DEF Standing, Queued
<1>5. queue = Stretch(j, n) /\ appends \subseteq {Stretch(k, j)} /\ (appends = {} => k = n)
  BY DEF Standing, Queued
<1>6. Append(queue, n + 1) = Stretch(j, n + 1)
  BY <1>0, <1>2, <1>5, StretchGrows
<1>7. PICK i \in Nat : /\ k <= i /\ i <= n + 1
                       /\ queue' = Stretch(i, n + 1)
                       /\ appends' \subseteq {Stretch(k, i)}
                       /\ appends' = {} => k = n + 1
  <2>1. ProcessQueue(Stretch(j, n + 1), appends)
    BY <1>1, <1>6
  <2>2. n + 1 \in Nat /\ j <= n + 1
    BY <1>0, <1>2
  <2>3. n \in Nat
    BY <1>2
  <2> HIDE DEF n
  <2>4. ASSUME appends = {} PROVE k = j
    <3>1. k = n
      BY <1>5, <2>4
    <3> QED
      BY <1>0, <2>3, <3>1
  <2> QED
    BY <1>0, <1>5, <2>1, <2>2, <2>4, ProcessQueueStands
<1>8. Queued(k, i)'
  BY <1>3, <1>7 DEF Queued
<1>9. PendingAfter(k)'
  <2> SUFFICES ASSUME NEW e \in 1..(n + 1) PROVE fate'[e] = "pending" <=> e > k
    BY <1>3 DEF PendingAfter
  <2>1. CASE e = n + 1
    <3>1. e > k /\ fate'[e] = "pending"
      BY <1>0, <1>2, <1>3, <2>1
    <3> QED
      BY <3>1
  <2>2. CASE e \in 1..n
    BY <1>2, <1>3, <2>2 DEF PendingAfter, Standing
  <2> QED
    BY <1>2, <2>1, <2>2
<1>10. OnDisk' = OnDisk /\ ArchiveFiles' = ArchiveFiles
  BY <1>1 DEF OnDisk, ArchiveFiles
<1>11. InOrder(ArchiveFiles, latest, k)'
  BY <1>1, <1>10 DEF Standing, InOrder
<1>12. DiskStep
  BY <1>2, <1>3, <1>10 DEF DiskStep
<1> QED
  BY <1>4, <1>7, <1>8, <1>9, <1>11, <1>12 DEF Standing

\* An archive is added, over an old one of its name if there is one, and perhaps
\* compressed archives are cleaned.
LEMMA ArchiveAdded ==
    ASSUME Types, NEW name \in Names, NEW f \in Seq(Nat), plain' = With(plain, name, f),
           ZippedFiles(zipped') \subseteq ZippedFiles(zipped)
    PROVE  /\ DOMAIN plain' = DOMAIN plain \cup {name}
           /\ DOMAIN plain' \subseteq Names /\ \A n \in DOMAIN plain' : plain'[n] \in Seq(Nat)
           /\ ArchiveFiles' \subseteq ArchiveFiles \cup {f}
           /\ Hit(name) \subseteq Readable(ArchiveFiles)
           /\ \A e \in Readable(ArchiveFiles \cup {f}) :
                \/ e \in OnDisk' \cup Hit(name)
                \/ e \in Readable(ZippedFiles(zipped)) \ Readable(ZippedFiles(zipped'))
<1>1. /\ PlainFiles(plain') \subseteq PlainFiles(plain) \cup {f}
      /\ f \in PlainFiles(plain')
      /\ \A g \in PlainFiles(plain) :
           g \in PlainFiles(plain') \/ (name \in DOMAIN plain /\ g = plain[name])
      /\ DOMAIN plain' = DOMAIN plain \cup {name}
  BY PlainAdded
<1>2. /\ ArchiveFiles = PlainFiles(plain) \cup ZippedFiles(zipped)
      /\ ArchiveFiles' = PlainFiles(plain') \cup ZippedFiles(zipped')
      /\ OnDisk' = Readable(ArchiveFiles' \cup {latest'})
  BY ArchiveFilesSplit, OnDiskIsReadable
<1>3. DOMAIN plain' \subseteq Names /\ \A n \in DOMAIN plain' : plain'[n] \in Seq(Nat)
  BY DEF With, Types
<1>4. ArchiveFiles' \subseteq ArchiveFiles \cup {f}
  BY <1>1, <1>2
<1>5. Hit(name) \subseteq Readable(ArchiveFiles)
  <2>1. name \in DOMAIN plain => plain[name] \in PlainFiles(plain)
    BY DEF PlainFiles
  <2> QED
    BY <1>2, <2>1 DEF Readable, Hit
<1>6. ASSUME NEW e \in Readable(ArchiveFiles \cup {f})
      PROVE  \/ e \in OnDisk' \cup Hit(name)
             \/ e \in Readable(ZippedFiles(zipped)) \ Readable(ZippedFiles(zipped'))
  <2>1. PICK g \in PlainFiles(plain) \cup ZippedFiles(zipped) \cup {f} : e \in ToSet(g)
    BY <1>2, <1>6 DEF Readable
  <2>2. CASE g \in PlainFiles(plain')
    BY <1>2, <2>1, <2>2 DEF Readable
  <2>3. CASE name \in DOMAIN plain /\ g = plain[name]
    BY <2>1, <2>3 DEF Hit
  <2>4. CASE g \in ZippedFiles(zipped)
    BY <1>2, <2>1, <2>4 DEF Readable
  <2> QED
    BY <1>1, <2>1, <2>2, <2>3, <2>4
<1> QED
  BY <1>1, <1>3, <1>4, <1>5, <1>6

\* A compression is scheduled, and a cleaning may touch the others.
LEMMA JobScheduled ==
    ASSUME Types, NEW name, DOMAIN jobs' = DOMAIN With(jobs, name, "scheduled"),
           \A n \in DOMAIN jobs' : jobs'[n] \in {With(jobs, name, "scheduled")[n], "deleted"}
    PROVE  /\ DOMAIN jobs' = DOMAIN jobs \cup {name} /\ IsFiniteSet(DOMAIN jobs')
           /\ \A n \in DOMAIN jobs' : jobs'[n] \in {"scheduled", "running", "deleted"}
<1>1. DOMAIN jobs' = DOMAIN jobs \cup {name}
  BY PlainAdded
<1>2. \A n \in DOMAIN jobs' : With(jobs, name, "scheduled")[n] =
                                IF n = name THEN "scheduled" ELSE jobs[n]
  BY DEF With
<1>3. /\ IsFiniteSet(DOMAIN jobs)
      /\ \A n \in DOMAIN jobs : jobs[n] \in {"scheduled", "running", "deleted"}
  BY DEF Types
<1>4. IsFiniteSet(DOMAIN jobs \cup {name})
  BY <1>3, FS_AddElement
<1>5. ASSUME NEW n \in DOMAIN jobs'
      PROVE  jobs'[n] \in {"scheduled", "running", "deleted"}
  <2>1. CASE n = name
    BY <1>2, <2>1
  <2>2. CASE n # name
    BY <1>1, <1>2, <1>3, <2>2
  <2> QED
    BY <2>1, <2>2
<1> QED
  BY <1>1, <1>4, <1>5

\* Entries are marked as cleaned and others as overwritten.
LEMMA MarkedTwice ==
    ASSUME NEW fates \in Seq(Fates), NEW es, NEW ds
    PROVE  LET twice == Marked(Marked(fates, es, "cleaned"), ds, "overwritten")
           IN /\ twice \in Seq(Fates) /\ Len(twice) = Len(fates)
              /\ DOMAIN twice = DOMAIN fates
              /\ \A e \in DOMAIN fates :
                   twice[e] = IF e \in ds THEN "overwritten"
                              ELSE IF e \in es THEN "cleaned" ELSE fates[e]
<1> DEFINE once  == Marked(fates, es, "cleaned")
           twice == Marked(once, ds, "overwritten")
<1>1. "cleaned" \in Fates /\ "overwritten" \in Fates
  BY DEF Fates
<1>2. /\ once \in Seq(Fates) /\ Len(once) = Len(fates) /\ DOMAIN once = DOMAIN fates
      /\ \A e \in DOMAIN fates : once[e] = IF e \in es THEN "cleaned" ELSE fates[e]
  BY <1>1, MarkedFacts
<1> HIDE DEF once
<1>3. /\ twice \in Seq(Fates) /\ Len(twice) = Len(once) /\ DOMAIN twice = DOMAIN once
      /\ \A e \in DOMAIN once : twice[e] = IF e \in ds THEN "overwritten" ELSE once[e]
  BY <1>1, <1>2, MarkedFacts
<1> HIDE DEF twice
<1>4. \A e \in DOMAIN fates : twice[e] = IF e \in ds THEN "overwritten"
                                         ELSE IF e \in es THEN "cleaned" ELSE fates[e]
  BY <1>2, <1>3
<1> QED
  BY <1>2, <1>3, <1>4 DEF twice, once

\* A rotation makes the content an archive, or leaves it where it is; the entries
\* that leave the disk are cleaned, or were in a file of the same name.
LEMMA RotateMoves ==
    ASSUME Types, NEW content \in Seq(Nat), NEW bytes \in Nat, NEW fates \in Seq(Fates),
           Rotate(content, bytes, fates)
    PROVE  /\ DOMAIN plain' \subseteq Names /\ \A n \in DOMAIN plain' : plain'[n] \in Seq(Nat)
           /\ zipped' \in Seq(Zips) /\ begun' \in Nat
           /\ DOMAIN jobs' \subseteq DOMAIN plain' /\ IsFiniteSet(DOMAIN jobs')
           /\ \A n \in DOMAIN jobs' : jobs'[n] \in {"scheduled", "running", "deleted"}
           /\ size' \in Nat /\ fate' \in Seq(Fates) /\ Len(fate') = Len(fates)
           /\ \/ ArchiveFiles' \subseteq ArchiveFiles \cup {content} /\ latest' = <<>>
              \/ ArchiveFiles' = ArchiveFiles /\ latest' = content
           /\ \A e \in DOMAIN fates :
                \/ fate'[e] = fates[e]
                \/ e \in Readable(ArchiveFiles) /\ fate'[e] \in Gone
           /\ \A e \in Readable(ArchiveFiles \cup {content}) :
                e \in OnDisk' \/ (e \in DOMAIN fates => fate'[e] \in Gone)
<1>1. DrawnNames \subseteq Names
  BY DEF DrawnNames, Names, Types
<1>2. /\ ArchiveFiles = PlainFiles(plain) \cup ZippedFiles(zipped)
      /\ ArchiveFiles' = PlainFiles(plain') \cup ZippedFiles(zipped')
      /\ OnDisk' = Readable(ArchiveFiles' \cup {latest'})
  BY ArchiveFilesSplit, OnDiskIsReadable
<1>3. ASSUME NEW name \in DrawnNames,
             plain' = With(plain, name, content), latest' = <<>>, size' = 0,
             CleanOldArchives(With(jobs, name, "scheduled")),
             fate' = Marked(Marked(fates, CleanedEntries, "cleaned"),
                            Hit(name), "overwritten")
      PROVE  /\ DOMAIN plain' \subseteq Names /\ \A n \in DOMAIN plain' : plain'[n] \in Seq(Nat)
             /\ zipped' \in Seq(Zips) /\ begun' \in Nat
             /\ DOMAIN jobs' \subseteq DOMAIN plain' /\ IsFiniteSet(DOMAIN jobs')
             /\ \A n \in DOMAIN jobs' : jobs'[n] \in {"scheduled", "running", "deleted"}
             /\ size' \in Nat /\ fate' \in Seq(Fates) /\ Len(fate') = Len(fates)
             /\ ArchiveFiles' \subseteq ArchiveFiles \cup {content} /\ latest' = <<>>
             /\ \A e \in DOMAIN fates :
                  \/ fate'[e] = fates[e]
                  \/ e \in Readable(ArchiveFiles) /\ fate'[e] \in Gone
             /\ \A e \in Readable(ArchiveFiles \cup {content}) :
                  e \in OnDisk' \/ (e \in DOMAIN fates => fate'[e] \in Gone)
  <2>1. /\ zipped' \in Seq(Zips) /\ begun' \in Nat
        /\ ZippedFiles(zipped') \subseteq ZippedFiles(zipped)
        /\ CleanedEntries =
             Readable(ZippedFiles(zipped)) \ Readable(ZippedFiles(zipped'))
        /\ DOMAIN jobs' = DOMAIN With(jobs, name, "scheduled")
        /\ \A n \in DOMAIN jobs' : jobs'[n] \in {With(jobs, name, "scheduled")[n], "deleted"}
    BY <1>3, CleaningFacts
  <2>2. /\ DOMAIN plain' = DOMAIN plain \cup {name}
        /\ DOMAIN plain' \subseteq Names /\ \A n \in DOMAIN plain' : plain'[n] \in Seq(Nat)
        /\ ArchiveFiles' \subseteq ArchiveFiles \cup {content}
        /\ Hit(name) \subseteq Readable(ArchiveFiles)
        /\ \A e \in Readable(ArchiveFiles \cup {content}) :
             e \in OnDisk' \cup Hit(name) \/ e \in CleanedEntries
    BY <1>1, <1>3, <2>1, ArchiveAdded
  <2>3. /\ DOMAIN jobs' = DOMAIN jobs \cup {name} /\ IsFiniteSet(DOMAIN jobs')
        /\ \A n \in DOMAIN jobs' : jobs'[n] \in {"scheduled", "running", "deleted"}
    BY <2>1, JobScheduled
  <2>4. /\ fate' \in Seq(Fates) /\ Len(fate') = Len(fates)
        /\ \A e \in DOMAIN fates :
             fate'[e] = IF e \in Hit(name) THEN "overwritten"
                        ELSE IF e \in CleanedEntries THEN "cleaned" ELSE fates[e]
    BY <1>3, MarkedTwice
  <2>5. CleanedEntries \subseteq Readable(ArchiveFiles)
    BY <1>2, <2>1 DEF Readable
  <2>6. DOMAIN jobs' \subseteq DOMAIN plain'
    BY <2>2, <2>3 DEF Types
  <2> QED
    BY <1>3, <2>1, <2>2, <2>3, <2>4, <2>5, <2>6 DEF Gone
<1>4. CASE /\ latest' = content /\ size' = bytes /\ fate' = fates
           /\ UNCHANGED <<plain, zipped, jobs, begun>>
  <2>1. ArchiveFiles' = ArchiveFiles /\ OnDisk' = Readable(ArchiveFiles \cup {content})
    BY <1>2, <1>4
  <2> QED
    BY <1>4, <2>1 DEF Types
<1>5. ASSUME NEW name \in DrawnNames,
             plain' = With(plain, name, content), latest' = <<>>, size' = bytes,
             fate' = Marked(fates, Hit(name), "overwritten"),
             UNCHANGED <<zipped, jobs, begun>>
      PROVE  /\ DOMAIN plain' \subseteq Names /\ \A n \in DOMAIN plain' : plain'[n] \in Seq(Nat)
             /\ zipped' \in Seq(Zips) /\ begun' \in Nat
             /\ DOMAIN jobs' \subseteq DOMAIN plain' /\ IsFiniteSet(DOMAIN jobs')
             /\ \A n \in DOMAIN jobs' : jobs'[n] \in {"scheduled", "running", "deleted"}
             /\ size' \in Nat /\ fate' \in Seq(Fates) /\ Len(fate') = Len(fates)
             /\ ArchiveFiles' \subseteq ArchiveFiles \cup {content} /\ latest' = <<>>
             /\ \A e \in DOMAIN fates :
                  \/ fate'[e] = fates[e]
                  \/ e \in Readable(ArchiveFiles) /\ fate'[e] \in Gone
             /\ \A e \in Readable(ArchiveFiles \cup {content}) :
                  e \in OnDisk' \/ (e \in DOMAIN fates => fate'[e] \in Gone)
  <2>1. ZippedFiles(zipped') = ZippedFiles(zipped)
    BY <1>5
  <2>2. /\ DOMAIN plain' = DOMAIN plain \cup {name}
        /\ DOMAIN plain' \subseteq Names /\ \A n \in DOMAIN plain' : plain'[n] \in Seq(Nat)
        /\ ArchiveFiles' \subseteq ArchiveFiles \cup {content}
        /\ Hit(name) \subseteq Readable(ArchiveFiles)
        /\ \A e \in Readable(ArchiveFiles \cup {content}) : e \in OnDisk' \cup Hit(name)
    BY <1>1, <1>5, <2>1, ArchiveAdded
  <2>3. "overwritten" \in Fates
    BY DEF Fates
  <2>4. /\ fate' \in Seq(Fates) /\ Len(fate') = Len(fates)
        /\ \A e \in DOMAIN fates :
             fate'[e] = IF e \in Hit(name) THEN "overwritten" ELSE fates[e]
    BY <1>5, <2>3, MarkedFacts
  <2>5. /\ DOMAIN jobs' \subseteq DOMAIN plain' /\ IsFiniteSet(DOMAIN jobs')
        /\ \A n \in DOMAIN jobs' : jobs'[n] \in {"scheduled", "running", "deleted"}
        /\ zipped' \in Seq(Zips) /\ begun' \in Nat
    BY <1>5, <2>2 DEF Types
  <2> QED
    BY <1>5, <2>2, <2>4, <2>5 DEF Gone
<1> QED
  BY <1>3, <1>4, <1>5 DEF Rotate

\* When an append returns, what queued up goes into the next one.
LEMMA QueueFollows ==
    ASSUME Types, NEW k \in Nat, NEW j \in Nat, Queued(k, j), NEW chunk \in appends,
           FollowUp(queue, appends \ {chunk}), Len(fate') = Len(fate)
    PROVE  /\ chunk = Stretch(k, j)
           /\ \E i \in Nat : Queued(j, i)'
<1> DEFINE n == Len(fate)
<1>1. n \in Nat
  BY LenProperties DEF Types
<1>2. k <= j /\ j <= n
  BY DEF Queued
<1>3. queue = Stretch(j, n) /\ appends \subseteq {Stretch(k, j)}
  BY DEF Queued
<1>4. chunk = Stretch(k, j) /\ appends \ {chunk} = {}
  BY <1>3
<1>5. ProcessQueue(Stretch(j, n), {})
  BY <1>3, <1>4 DEF FollowUp
<1>6. Len(fate') = n
  OBVIOUS
<1> HIDE DEF n
<1>7. PICK i \in Nat : /\ j <= i /\ i <= n
                       /\ queue' = Stretch(i, n)
                       /\ appends' \subseteq {Stretch(j, i)}
                       /\ appends' = {} => j = n
  <2>1. {} \subseteq {Stretch(j, j)} /\ j <= j
    OBVIOUS
  <2> QED
    BY <1>1, <1>2, <1>5, <2>1, ProcessQueueStands
<1>8. Queued(j, i)'
  BY <1>6, <1>7 DEF Queued
<1> QED
  BY <1>4, <1>8

\* A stretch that has been dealt with is no longer pending.
LEMMA StretchMarked ==
    ASSUME Types, NEW k \in Nat, NEW j \in Nat, k <= j, PendingAfter(k),
           NEW how \in Fates, how # "pending"
    PROVE  LET fates == Marked(fate, ToSet(Stretch(k, j)), how)
           IN /\ fates \in Seq(Fates) /\ Len(fates) = Len(fate)
              /\ DOMAIN fates = DOMAIN fate
              /\ \A e \in DOMAIN fate : fates[e] = "pending" <=> e > j
              /\ \A e \in DOMAIN fate :
                   \/ fate[e] = "pending" /\ e \in (k + 1)..j /\ fates[e] = how
                   \/ e \notin (k + 1)..j /\ fates[e] = fate[e]
<1> DEFINE fates == Marked(fate, ToSet(Stretch(k, j)), how)
<1>1. ToSet(Stretch(k, j)) = (k + 1)..j
  BY StretchFacts
<1>2. fate \in Seq(Fates) /\ DOMAIN fate = 1..Len(fate) /\ Len(fate) \in Nat
  BY LenProperties DEF Types
<1>3. /\ fates \in Seq(Fates) /\ Len(fates) = Len(fate) /\ DOMAIN fates = DOMAIN fate
      /\ \A e \in DOMAIN fate : fates[e] = IF e \in (k + 1)..j THEN how ELSE fate[e]
  BY <1>1, <1>2, MarkedFacts
<1> HIDE DEF fates
<1>4. ASSUME NEW e \in DOMAIN fate
      PROVE  /\ fates[e] = "pending" <=> e > j
             /\ \/ fate[e] = "pending" /\ e \in (k + 1)..j /\ fates[e] = how
                \/ e \notin (k + 1)..j /\ fates[e] = fate[e]
  <2>1. e \in Nat
    BY <1>2
  <2>2. CASE e \in (k + 1)..j
    <3>1. e > k /\ ~(e > j)
      BY <2>1, <2>2
    <3>2. fate[e] = "pending" /\ fates[e] = how
      BY <1>3, <2>2, <3>1 DEF PendingAfter
    <3> QED
      BY <2>2, <3>1, <3>2
  <2>3. CASE e \notin (k + 1)..j
    <3>1. e > j <=> e > k
      BY <2>1, <2>3
    <3>2. fates[e] = fate[e] /\ (fate[e] = "pending" <=> e > k)
      BY <1>3, <2>3 DEF PendingAfter
    <3> QED
      BY <2>3, <3>1, <3>2
  <2> QED
    BY <2>2, <2>3
<1> QED
  BY <1>3, <1>4 DEF fates

\* The callback of an append without an error.
LEMMA AppendDoneStands ==
    ASSUME Types, NEW k \in Nat, NEW j \in Nat, Standing(k, j),
           NEW chunk \in appends, AppendDone(chunk)
    PROVE  Types' /\ (\E i \in Nat : Standing(j, i)') /\ DiskStep
<1> DEFINE content == latest \o chunk
           bytes   == size + Len(chunk)
           fates   == Marked(fate, ToSet(chunk), "appended")
<1>1. k <= j /\ Queued(k, j) /\ PendingAfter(k) /\ InOrder(ArchiveFiles, latest, k)
  BY DEF Standing, Queued
<1>2. chunk = Stretch(k, j)
  BY <1>1 DEF Queued
<1>3. /\ chunk \in Seq(Nat) /\ ToSet(chunk) = (k + 1)..j /\ Len(chunk) \in Nat
  <2>1. chunk \in Seq(Nat) /\ ToSet(chunk) = (k + 1)..j
    BY <1>1, <1>2, StretchFacts
  <2> QED
    BY <2>1, LenProperties
<1>4. /\ content \in Seq(Nat) /\ ToSet(content) = ToSet(latest) \cup ToSet(chunk)
      /\ InOrder(ArchiveFiles, content, j)
  <2>1. content \in Seq(Nat) /\ ToSet(content) = ToSet(latest) \cup ToSet(chunk)
    BY <1>3, ConcatFacts DEF Types
  <2>2. InOrder(ArchiveFiles, content, j)
    BY <1>1, <1>2, ExtendedInOrder
  <2> QED
    BY <2>1, <2>2
<1>5. /\ fates \in Seq(Fates) /\ Len(fates) = Len(fate) /\ DOMAIN fates = DOMAIN fate
      /\ \A e \in DOMAIN fate : fates[e] = "pending" <=> e > j
      /\ \A e \in DOMAIN fate :
           \/ fate[e] = "pending" /\ e \in (k + 1)..j /\ fates[e] = "appended"
           \/ e \notin (k + 1)..j /\ fates[e] = fate[e]
  <2>1. "appended" \in Fates /\ "appended" # "pending"
    BY DEF Fates
  <2> QED
    BY <1>1, <1>2, <2>1, StretchMarked
<1>6. bytes \in Nat
  BY <1>3 DEF Types
<1> HIDE DEF content, bytes, fates
<1>7. /\ DOMAIN plain' \subseteq Names /\ \A n \in DOMAIN plain' : plain'[n] \in Seq(Nat)
      /\ zipped' \in Seq(Zips) /\ begun' \in Nat
      /\ DOMAIN jobs' \subseteq DOMAIN plain' /\ IsFiniteSet(DOMAIN jobs')
      /\ \A n \in DOMAIN jobs' : jobs'[n] \in {"scheduled", "running", "deleted"}
      /\ size' \in Nat /\ fate' \in Seq(Fates) /\ Len(fate') = Len(fates)
      /\ \/ ArchiveFiles' \subseteq ArchiveFiles \cup {content} /\ latest' = <<>>
         \/ ArchiveFiles' = ArchiveFiles /\ latest' = content
      /\ \A e \in DOMAIN fates :
           \/ fate'[e] = fates[e]
           \/ e \in Readable(ArchiveFiles) /\ fate'[e] \in Gone
      /\ \A e \in Readable(ArchiveFiles \cup {content}) :
           e \in OnDisk' \/ (e \in DOMAIN fates => fate'[e] \in Gone)
  <2>1. CASE bytes >= Threshold
    <3>1. Rotate(content, bytes, fates)
      BY <2>1 DEF AppendDone, content, bytes, fates
    <3> QED
      BY <1>4, <1>5, <1>6, <3>1, RotateMoves
  <2>2. CASE ~(bytes >= Threshold)
    <3>1. /\ latest' = content /\ size' = bytes /\ fate' = fates
          /\ UNCHANGED <<plain, zipped, jobs, begun>>
      BY <2>2 DEF AppendDone, content, bytes, fates
    <3>2. ArchiveFiles' = ArchiveFiles /\ OnDisk' = Readable(ArchiveFiles \cup {content})
      BY <3>1, OnDiskIsReadable DEF ArchiveFiles
    <3> QED
      BY <1>5, <1>6, <3>1, <3>2 DEF Types
  <2> QED
    BY <2>1, <2>2
<1>8. /\ UNCHANGED <<up, minute>> /\ FollowUp(queue, appends \ {chunk})
      /\ Len(fate') = Len(fate) /\ DOMAIN fate' = DOMAIN fate
  <2>1. UNCHANGED <<up, minute>> /\ FollowUp(queue, appends \ {chunk})
    BY DEF AppendDone
  <2>2. Len(fate') = Len(fate) /\ fate' \in Seq(Fates) /\ fate \in Seq(Fates)
    BY <1>5, <1>7 DEF Types
  <2>3. DOMAIN fate' = DOMAIN fate
    BY <2>2, LenProperties
  <2> QED
    BY <2>1, <2>2, <2>3
<1>9. latest' \in Seq(Nat)
  BY <1>4, <1>7, EmptySeq
<1>10. Types'
  BY <1>7, <1>8, <1>9 DEF Types
<1>11. InOrder(ArchiveFiles, latest, j)'
  <2>1. CASE ArchiveFiles' \subseteq ArchiveFiles \cup {content} /\ latest' = <<>>
    <3>1. InOrder(ArchiveFiles', <<>>, j)
      BY <1>4, <2>1, RotatedInOrder
    <3> QED
      BY <2>1, <3>1 DEF InOrder
  <2>2. CASE ArchiveFiles' = ArchiveFiles /\ latest' = content
    BY <1>4, <2>2 DEF InOrder
  <2> QED
    BY <1>7, <2>1, <2>2
<1>12. \A e \in Readable(ArchiveFiles) : e \in 1..k
  BY <1>1 DEF InOrder, Readable
<1>13. PendingAfter(j)'
  <2> SUFFICES ASSUME NEW e \in DOMAIN fate PROVE fate'[e] = "pending" <=> e > j
    BY <1>8 DEF PendingAfter
  <2>1. CASE fate'[e] = fates[e]
    BY <1>5, <2>1
  <2>2. CASE e \in Readable(ArchiveFiles) /\ fate'[e] \in Gone
    <3>1. e \in 1..k
      BY <1>12, <2>2
    <3>2. ~(e > j)
      BY <1>1, <3>1
    <3> QED
      BY <2>2, <3>2 DEF Gone
  <2> QED
    BY <1>5, <1>7, <2>1, <2>2
<1>14. PICK i \in Nat : Queued(j, i)'
  BY <1>1, <1>8, QueueFollows
<1>15. /\ OnDisk = Readable(ArchiveFiles \cup {latest})
       /\ OnDisk' = Readable(ArchiveFiles' \cup {latest'})
  BY OnDiskIsReadable
<1>16. Readable(ArchiveFiles \cup {content}) = OnDisk \cup (k + 1)..j
  BY <1>3, <1>4, <1>15 DEF Readable
<1>17. \A e \in OnDisk' : e \in OnDisk \cup (k + 1)..j
  <2>1. \A e \in OnDisk' : e \in Readable(ArchiveFiles \cup {content})
    <3>1. ToSet(<<>>) = {}
      BY DEF ToSet
    <3> QED
      BY <1>7, <1>15, <3>1 DEF Readable
  <2> QED
    BY <1>16, <2>1
<1>18. DiskStep
  <2> SUFFICES ASSUME NEW e \in DOMAIN fate
               PROVE  /\ \/ fate[e] = "pending"
                         \/ fate'[e] = fate[e]
                         \/ e \in OnDisk /\ fate'[e] \in Gone
                      /\ e \in OnDisk => e \in OnDisk' \/ fate'[e] \in Gone
                      /\ e \in OnDisk' => e \in OnDisk \/ fate[e] = "pending"
                      /\ fate[e] = "pending" /\ fate'[e] = "appended" => e \in OnDisk'
    BY <1>8 DEF DiskStep
  <2>1. e \in DOMAIN fates
    BY <1>5
  <2>2. \/ fate[e] = "pending"
        \/ fate'[e] = fate[e]
        \/ e \in OnDisk /\ fate'[e] \in Gone
    <3>1. e \in Readable(ArchiveFiles) => e \in OnDisk
      BY <1>15 DEF Readable
    <3> QED
      BY <1>5, <1>7, <2>1, <3>1
  <2>3. e \in OnDisk => e \in OnDisk' \/ fate'[e] \in Gone
    BY <1>7, <1>16, <2>1
  <2>4. e \in OnDisk' => e \in OnDisk \/ fate[e] = "pending"
    BY <1>5, <1>17
  <2>5. ASSUME fate[e] = "pending", fate'[e] = "appended" PROVE e \in OnDisk'
    <3>1. fate'[e] = fates[e] /\ fate'[e] \notin Gone
      BY <1>7, <2>1, <2>5 DEF Gone
    <3>2. e \in (k + 1)..j
      BY <1>5, <2>5, <3>1
    <3> QED
      BY <1>7, <1>16, <2>1, <3>1, <3>2
  <2> QED
    BY <2>2, <2>3, <2>4, <2>5
<1> QED
  BY <1>10, <1>11, <1>13, <1>14, <1>18 DEF Standing

\* Of an append that did not return without an error, a beginning is in the file.
LEMMA PartExtends ==
    ASSUME Types, NEW k \in Nat, NEW j \in Nat, Standing(k, j),
           NEW chunk \in appends, NEW m \in 0..Len(chunk),
           latest' = latest \o SubSeq(chunk, 1, m), ArchiveFiles' = ArchiveFiles
    PROVE  /\ latest' \in Seq(Nat)
           /\ InOrder(ArchiveFiles, latest, j)'
           /\ OnDisk' = OnDisk \cup (k + 1)..(k + m)
           /\ k + m \in Nat /\ k + m <= j
<1>1. k <= j /\ InOrder(ArchiveFiles, latest, k)
  BY DEF Standing, Queued
<1>2. chunk = Stretch(k, j)
  BY DEF Standing, Queued
<1>3. m \in 0..(j - k)
  <2>1. Len(chunk) = j - k
    BY <1>1, <1>2, StretchFacts
  <2> QED
    BY <2>1
<1>4. latest' = latest \o Stretch(k, k + m)
  BY <1>1, <1>2, <1>3, BeginningOfStretch
<1>5. k + m \in Nat /\ k <= k + m /\ k + m <= j
  BY <1>1, <1>3
<1>6. InOrder(ArchiveFiles, latest', j)
  BY <1>1, <1>4, <1>5, ExtendedInOrder
<1>7. /\ Stretch(k, k + m) \in Seq(Nat)
      /\ ToSet(Stretch(k, k + m)) = (k + 1)..(k + m)
  BY <1>5, StretchFacts
<1>8. latest' \in Seq(Nat) /\ ToSet(latest') = ToSet(latest) \cup (k + 1)..(k + m)
  <2> DEFINE part == Stretch(k, k + m)
  <2>1. latest \in Seq(Nat) /\ part \in Seq(Nat) /\ latest' = latest \o part
    BY <1>4, <1>7 DEF Types
  <2>2. ToSet(part) = (k + 1)..(k + m)
    BY <1>7
  <2> HIDE DEF part
  <2>3. latest \o part \in Seq(Nat) /\ ToSet(latest \o part) = ToSet(latest) \cup ToSet(part)
    BY <2>1, ConcatFacts
  <2> QED
    BY <2>1, <2>2, <2>3
<1>9. /\ OnDisk = Readable(ArchiveFiles \cup {latest})
      /\ OnDisk' = Readable(ArchiveFiles' \cup {latest'})
  BY OnDiskIsReadable
<1>10. OnDisk' = OnDisk \cup (k + 1)..(k + m)
  BY <1>8, <1>9 DEF Readable
<1>11. InOrder(ArchiveFiles, latest, j)'
  BY <1>6 DEF InOrder
<1> QED
  BY <1>5, <1>8, <1>10, <1>11

\* The callback of an append with an error.
LEMMA AppendFailsStands ==
    ASSUME Types, NEW k \in Nat, NEW j \in Nat, Standing(k, j),
           NEW chunk \in appends, AppendFails(chunk)
    PROVE  Types' /\ (\E i \in Nat : Standing(j, i)') /\ DiskStep
<1>1. PICK m \in 0..Len(chunk) : latest' = latest \o SubSeq(chunk, 1, m)
  BY DEF AppendFails
<1>2. /\ fate' = Marked(fate, ToSet(chunk), "failed")
      /\ FollowUp(queue, appends \ {chunk})
      /\ UNCHANGED <<up, minute, size, plain, zipped, jobs, begun>>
  BY DEF AppendFails
<1>3. ArchiveFiles' = ArchiveFiles
  BY <1>2 DEF ArchiveFiles
<1>4. /\ latest' \in Seq(Nat)
      /\ InOrder(ArchiveFiles, latest, j)'
      /\ OnDisk' = OnDisk \cup (k + 1)..(k + m)
      /\ k + m \in Nat /\ k + m <= j
  BY <1>1, <1>3, PartExtends
<1>5. k <= j /\ Queued(k, j) /\ PendingAfter(k)
  BY DEF Standing, Queued
<1>6. chunk = Stretch(k, j)
  BY <1>5 DEF Queued
<1>7. /\ fate' \in Seq(Fates) /\ Len(fate') = Len(fate) /\ DOMAIN fate' = DOMAIN fate
      /\ \A e \in DOMAIN fate : fate'[e] = "pending" <=> e > j
      /\ \A e \in DOMAIN fate :
           \/ fate[e] = "pending" /\ e \in (k + 1)..j /\ fate'[e] = "failed"
           \/ e \notin (k + 1)..j /\ fate'[e] = fate[e]
  <2>1. "failed" \in Fates /\ "failed" # "pending"
    BY DEF Fates
  <2> QED
    BY <1>2, <1>5, <1>6, <2>1, StretchMarked
<1>8. Types'
  BY <1>2, <1>4, <1>7 DEF Types
<1>9. PICK i \in Nat : Queued(j, i)'
  BY <1>2, <1>5, <1>7, QueueFollows
<1>10. PendingAfter(j)'
  BY <1>7 DEF PendingAfter
<1>11. \A e \in (k + 1)..(k + m) : e \in (k + 1)..j
  BY <1>4
<1>12. DiskStep
  BY <1>4, <1>7, <1>11 DEF DiskStep
<1> QED
  BY <1>4, <1>8, <1>9, <1>10, <1>12 DEF Standing

\* A step beside the queue takes files away, or makes the current file an
\* archive, and marks the entries that go with a file.
LEMMA FilesChange ==
    ASSUME Types, NEW k \in Nat, NEW j \in Nat, Standing(k, j),
           UNCHANGED <<queue, appends>>,
           Len(fate') = Len(fate), DOMAIN fate' = DOMAIN fate,
           \/ ArchiveFiles' \subseteq ArchiveFiles /\ latest' = latest
           \/ ArchiveFiles' \subseteq ArchiveFiles \cup {latest} /\ latest' = <<>>,
           \A e \in DOMAIN fate :
             \/ fate'[e] = fate[e]
             \/ e \in OnDisk /\ fate'[e] \in Gone,
           \A e \in DOMAIN fate : e \in OnDisk => e \in OnDisk' \/ fate'[e] \in Gone
    PROVE  Standing(k, j)' /\ DiskStep
<1>1. Queued(k, j)'
  BY DEF Standing, Queued
<1>2. InOrder(ArchiveFiles, latest, k)
  BY DEF Standing
<1>3. InOrder(ArchiveFiles', latest', k)
  BY <1>2, FewerInOrder, RotatedInOrder
<1>4. InOrder(ArchiveFiles, latest, k)'
  BY <1>3 DEF InOrder
<1>5. PendingAfter(k)'
  <2>1. \A e \in DOMAIN fate : e \in OnDisk => fate[e] # "pending"
    BY <1>2, OnDiskIsDealtWith DEF Standing
  <2>2. \A e \in DOMAIN fate : fate'[e] = "pending" <=> fate[e] = "pending"
    BY <2>1 DEF Gone
  <2> QED
    BY <2>2 DEF PendingAfter, Standing
<1>6. OnDisk' \subseteq OnDisk
  <2>1. ToSet(<<>>) = {}
    BY DEF ToSet
  <2>2. /\ OnDisk = Readable(ArchiveFiles \cup {latest})
        /\ OnDisk' = Readable(ArchiveFiles' \cup {latest'})
    BY OnDiskIsReadable
  <2> QED
    BY <2>1, <2>2 DEF Readable
<1>7. DiskStep
  <2>1. \A e \in DOMAIN fate : e \in OnDisk => fate[e] # "pending"
    BY <1>2, OnDiskIsDealtWith DEF Standing
  <2> QED
    BY <1>6, <2>1 DEF DiskStep, Gone
<1> QED
  BY <1>1, <1>4, <1>5, <1>7 DEF Standing

\* The clock disturbs nothing.
LEMMA TickStands ==
    ASSUME Types, NEW k \in Nat, NEW j \in Nat, Standing(k, j), Tick
    PROVE  Types' /\ Standing(k, j)' /\ DiskStep
<1>1. UNCHANGED <<up, queue, appends, size, latest, plain, zipped, jobs, fate, begun>>
  BY DEF Tick, diskVars
<1>2. minute' \in 0..MaxMinute
  BY DEF Tick, Types
<1>3. Types'
  BY <1>1, <1>2 DEF Types
<1>4. ArchiveFiles' = ArchiveFiles /\ OnDisk' = OnDisk
  BY <1>1 DEF ArchiveFiles, OnDisk
<1> QED
  BY <1>1, <1>3, <1>4, FilesChange

\* A compression opens its files.
LEMMA JobBeginsStands ==
    ASSUME Types, NEW k \in Nat, NEW j \in Nat, Standing(k, j), NEW n, JobBegins(n)
    PROVE  Types' /\ Standing(k, j)' /\ DiskStep
<1>1. /\ n \in DOMAIN jobs /\ jobs' = [jobs EXCEPT ![n] = "running"] /\ plain' = plain
      /\ UNCHANGED <<up, minute, queue, appends, size, latest>>
      /\ begun' \in {begun, begun + 1} /\ begun \in Nat
  BY DEF JobBegins, SourceOpened, Types
<1>2. DOMAIN jobs' = DOMAIN jobs /\ \A x \in DOMAIN jobs' : jobs'[x] \in {"scheduled", "running", "deleted"}
  BY <1>1 DEF Types
<1>3. /\ ArchiveFiles = PlainFiles(plain) \cup ZippedFiles(zipped)
      /\ ArchiveFiles' = PlainFiles(plain') \cup ZippedFiles(zipped')
      /\ OnDisk = Readable(ArchiveFiles \cup {latest})
      /\ OnDisk' = Readable(ArchiveFiles' \cup {latest'})
  BY ArchiveFilesSplit, OnDiskIsReadable
<1>4. CASE UNCHANGED <<zipped, fate>>
  <2>1. Types'
    BY <1>1, <1>2, <1>4 DEF Types
  <2>2. ArchiveFiles' = ArchiveFiles /\ OnDisk' = OnDisk
    BY <1>1, <1>3, <1>4
  <2> QED
    BY <1>1, <1>4, <2>1, <2>2, FilesChange
<1>5. ASSUME NEW i \in DOMAIN zipped, zipped' = RemoveAt(zipped, i),
             fate' = Marked(fate, EntriesOf({zipped[i]}), "overwritten")
      PROVE  Types' /\ Standing(k, j)' /\ DiskStep
  <2>1. /\ zipped' \in Seq(Zips)
        /\ ZippedFiles(zipped') \subseteq ZippedFiles(zipped)
        /\ \A f \in ZippedFiles(zipped) :
             \/ f \in ZippedFiles(zipped')
             \/ f = zipped[i].content /\ zipped[i].whole
    BY <1>5, ZippedRemoved DEF Types
  <2>2. "overwritten" \in Fates /\ fate \in Seq(Fates)
    BY DEF Fates, Types
  <2>3. /\ fate' \in Seq(Fates) /\ Len(fate') = Len(fate) /\ DOMAIN fate' = DOMAIN fate
        /\ \A e \in DOMAIN fate :
             fate'[e] = IF e \in EntriesOf({zipped[i]}) THEN "overwritten" ELSE fate[e]
    BY <1>5, <2>2, MarkedFacts
  <2>4. EntriesOf({zipped[i]}) = IF zipped[i].whole THEN ToSet(zipped[i].content) ELSE {}
    BY DEF EntriesOf
  <2>5. zipped[i].whole => zipped[i].content \in ZippedFiles(zipped)
    BY <1>5 DEF ZippedFiles
  <2>6. EntriesOf({zipped[i]}) \subseteq OnDisk
    BY <1>3, <2>4, <2>5 DEF Readable
  <2>7. ArchiveFiles' \subseteq ArchiveFiles
    BY <1>1, <1>3, <2>1
  <2>8. \A e \in OnDisk : e \in OnDisk' \/ e \in EntriesOf({zipped[i]})
    BY <1>1, <1>3, <2>1, <2>4 DEF Readable
  <2>9. /\ \A e \in DOMAIN fate :
             \/ fate'[e] = fate[e]
             \/ e \in OnDisk /\ fate'[e] \in Gone
        /\ \A e \in DOMAIN fate : e \in OnDisk => e \in OnDisk' \/ fate'[e] \in Gone
    BY <2>3, <2>6, <2>8 DEF Gone
  <2>10. Types'
    BY <1>1, <1>2, <2>1, <2>3 DEF Types
  <2> QED
    BY <1>1, <2>3, <2>7, <2>9, <2>10, FilesChange
<1> QED
  BY <1>4, <1>5 DEF JobBegins

\* A compression ends, well or not.
LEMMA JobEndsStands ==
    ASSUME Types, NEW k \in Nat, NEW j \in Nat, Standing(k, j), NEW n,
           JobFinishes(n) \/ JobFails(n)
    PROVE  Types' /\ Standing(k, j)' /\ DiskStep
<1>1. /\ n \in DOMAIN jobs /\ n \in DOMAIN plain /\ n \in Names /\ plain[n] \in Seq(Nat)
      /\ jobs' = Without(jobs, n) /\ plain' \in {plain, Without(plain, n)}
      /\ UNCHANGED <<up, minute, queue, appends, size, latest, begun>>
  BY DEF JobFinishes, JobFails, Types
<1>2. DOMAIN jobs' = DOMAIN jobs \ {n} /\ \A x \in DOMAIN jobs' : jobs'[x] = jobs[x]
  BY <1>1 DEF Without
<1>3. IsFiniteSet(DOMAIN jobs') /\ \A x \in DOMAIN jobs' : jobs'[x] \in {"scheduled", "running", "deleted"}
  <2>1. IsFiniteSet(DOMAIN jobs) /\ \A x \in DOMAIN jobs : jobs[x] \in {"scheduled", "running", "deleted"}
    BY DEF Types
  <2>2. IsFiniteSet(DOMAIN jobs \ {n})
    BY <2>1, FS_RemoveElement
  <2> QED
    BY <1>2, <2>1, <2>2
<1>4. /\ ArchiveFiles = PlainFiles(plain) \cup ZippedFiles(zipped)
      /\ ArchiveFiles' = PlainFiles(plain') \cup ZippedFiles(zipped')
      /\ OnDisk = Readable(ArchiveFiles \cup {latest})
      /\ OnDisk' = Readable(ArchiveFiles' \cup {latest'})
  BY ArchiveFilesSplit, OnDiskIsReadable
<1>5. plain[n] \in PlainFiles(plain)
  BY <1>1 DEF PlainFiles
<1>6. zipped \in Seq(Zips)
  BY DEF Types
<1>7. /\ zipped' \in Seq(Zips)
      /\ \/ /\ ZippedFiles(zipped') = ZippedFiles(zipped) \cup {plain[n]}
            /\ fate' = fate
         \/ /\ ZippedFiles(zipped') = ZippedFiles(zipped)
            /\ plain' = plain /\ fate' = fate
         \/ /\ ZippedFiles(zipped') = ZippedFiles(zipped)
            /\ fate' = Marked(fate, ToSet(plain[n]), "cleaned")
  <2>1. CASE JobFinishes(n) /\ jobs[n] = "running"
    <3> DEFINE a == Archive(n, plain[n], TRUE)
    <3>1. a \in Zips /\ a.whole = TRUE /\ a.content = plain[n]
      BY <1>1 DEF Archive, Zips
    <3>2. zipped' = Append(zipped, a) /\ fate' = fate
      BY <2>1 DEF JobFinishes
    <3> HIDE DEF a
    <3>3. /\ Append(zipped, a) \in Seq(Zips)
          /\ ZippedFiles(Append(zipped, a)) =
               ZippedFiles(zipped) \cup (IF a.whole THEN {a.content} ELSE {})
      BY <1>6, <3>1, ZippedAdded
    <3>4. (IF a.whole THEN {a.content} ELSE {}) = {plain[n]}
      BY <3>1
    <3> QED
      BY <3>2, <3>3, <3>4
  <2>2. CASE JobFails(n) /\ jobs[n] = "running"
    <3> DEFINE a == Archive(n, <<>>, FALSE)
    <3>1. a \in Zips /\ a.whole = FALSE
      BY <1>1, EmptySeq DEF Archive, Zips
    <3>2. zipped' = Append(zipped, a) /\ plain' = plain /\ fate' = fate
      BY <2>2 DEF JobFails
    <3> HIDE DEF a
    <3>3. /\ Append(zipped, a) \in Seq(Zips)
          /\ ZippedFiles(Append(zipped, a)) =
               ZippedFiles(zipped) \cup (IF a.whole THEN {a.content} ELSE {})
      BY <1>6, <3>1, ZippedAdded
    <3>4. (IF a.whole THEN {a.content} ELSE {}) = {}
      BY <3>1
    <3> QED
      BY <3>2, <3>3, <3>4
  <2>3. CASE JobFails(n) /\ jobs[n] # "running"
    <3>1. zipped' = zipped /\ plain' = plain /\ fate' = fate
      BY <2>3 DEF JobFails
    <3> QED
      BY <1>6, <3>1
  <2>4. CASE JobFinishes(n) /\ jobs[n] # "running"
    <3>1. /\ zipped' = zipped
          /\ fate' = Marked(fate, IF plain' = plain THEN {} ELSE ToSet(plain[n]), "cleaned")
      BY <2>4 DEF JobFinishes
    <3>2. CASE plain' = plain
      <4>1. fate' = Marked(fate, {}, "cleaned") /\ fate \in Seq(Fates)
        BY <3>1, <3>2 DEF Types
      <4>2. fate' = fate
        BY <4>1, MarkedNothing
      <4> QED
        BY <1>6, <3>1, <3>2, <4>2
    <3>3. CASE plain' # plain
      BY <1>6, <3>1, <3>3
    <3> QED
      BY <3>2, <3>3
  <2> QED
    BY <2>1, <2>2, <2>3, <2>4
<1>8. plain' \in {plain, Without(plain, n)}
  BY <1>1
<1>9. /\ PlainFiles(plain') \subseteq PlainFiles(plain)
      /\ PlainFiles(plain) \subseteq PlainFiles(plain') \cup {plain[n]}
      /\ DOMAIN plain \ {n} \subseteq DOMAIN plain' /\ DOMAIN plain' \subseteq DOMAIN plain
      /\ \A x \in DOMAIN plain' : plain'[x] = plain[x]
  <2>1. CASE plain' = plain
    <3>1. PlainFiles(plain') = PlainFiles(plain)
      BY <2>1
    <3> QED
      BY <2>1, <3>1
  <2>2. CASE plain' = Without(plain, n)
    <3>1. \A x \in DOMAIN plain' : plain'[x] = plain[x]
      BY <2>2 DEF Without
    <3>2. /\ PlainFiles(Without(plain, n)) \subseteq PlainFiles(plain)
          /\ PlainFiles(plain) \subseteq PlainFiles(Without(plain, n)) \cup {plain[n]}
          /\ DOMAIN Without(plain, n) = DOMAIN plain \ {n}
      BY <1>1, PlainRemoved
    <3>3. DOMAIN plain' = DOMAIN plain \ {n}
      BY <2>2, <3>2
    <3>4. /\ PlainFiles(plain') \subseteq PlainFiles(plain)
          /\ PlainFiles(plain) \subseteq PlainFiles(plain') \cup {plain[n]}
      BY <2>2, <3>2
    <3>5. DOMAIN plain \ {n} \subseteq DOMAIN plain' /\ DOMAIN plain' \subseteq DOMAIN plain
      BY <3>3
    <3> QED
      BY <3>1, <3>4, <3>5
  <2> QED
    BY <1>8, <2>1, <2>2
<1>10. /\ ArchiveFiles' \subseteq ArchiveFiles
       /\ \A f \in ArchiveFiles : f \in ArchiveFiles' \/ f = plain[n]
  <2> DEFINE p == PlainFiles(plain)
             q == PlainFiles(plain')
             y == ZippedFiles(zipped)
             z == ZippedFiles(zipped')
  <2>1. /\ ArchiveFiles = p \cup y /\ ArchiveFiles' = q \cup z
        /\ plain[n] \in p /\ q \subseteq p /\ p \subseteq q \cup {plain[n]}
        /\ z = y \cup {plain[n]} \/ z = y
    BY <1>4, <1>5, <1>7, <1>9
  <2> HIDE DEF p, q, y, z
  <2> QED
    BY <2>1
<1>11. /\ Len(fate') = Len(fate) /\ DOMAIN fate' = DOMAIN fate /\ fate' \in Seq(Fates)
       /\ \A e \in DOMAIN fate :
            fate'[e] = fate[e] \/ (e \in ToSet(plain[n]) /\ fate'[e] \in Gone)
  <2>1. CASE fate' = fate
    BY <2>1 DEF Types
  <2>2. CASE fate' = Marked(fate, ToSet(plain[n]), "cleaned")
    <3>1. "cleaned" \in Fates /\ fate \in Seq(Fates)
      BY DEF Fates, Types
    <3> QED
      BY <2>2, <3>1, MarkedFacts DEF Gone
  <2> QED
    BY <1>7, <2>1, <2>2
<1>12. ToSet(plain[n]) \subseteq OnDisk
  BY <1>4, <1>5 DEF Readable
<1>13. ASSUME NEW e \in DOMAIN fate, e \in OnDisk
       PROVE  e \in OnDisk' \/ fate'[e] \in Gone
  <2>1. PICK f \in ArchiveFiles \cup {latest} : e \in ToSet(f)
    BY <1>4, <1>13 DEF Readable
  <2>2. CASE f = latest \/ f \in ArchiveFiles'
    BY <1>1, <1>4, <2>1, <2>2 DEF Readable
  <2>3. CASE f = plain[n] /\ f \notin ArchiveFiles'
    <3>1. plain[n] \notin ZippedFiles(zipped') /\ plain[n] \notin PlainFiles(plain')
      BY <1>4, <2>3
    <3>2. plain' # plain
      BY <1>5, <3>1
    <3>3. fate' = Marked(fate, ToSet(plain[n]), "cleaned")
      BY <1>7, <3>1, <3>2
    <3>4. "cleaned" \in Fates /\ fate \in Seq(Fates)
      BY DEF Fates, Types
    <3>5. fate'[e] = "cleaned"
      BY <1>13, <2>1, <2>3, <3>3, <3>4, MarkedFacts
    <3> QED
      BY <3>5 DEF Gone
  <2> QED
    BY <1>10, <2>1, <2>2, <2>3
<1>14. Types'
  <2>1. DOMAIN jobs' \subseteq DOMAIN plain'
    BY <1>2, <1>9 DEF Types
  <2>2. DOMAIN plain' \subseteq Names /\ \A x \in DOMAIN plain' : plain'[x] \in Seq(Nat)
    BY <1>9 DEF Types
  <2> QED
    BY <1>1, <1>3, <1>7, <1>11, <2>1, <2>2 DEF Types
<1>15. \A e \in DOMAIN fate : fate'[e] = fate[e] \/ (e \in OnDisk /\ fate'[e] \in Gone)
  BY <1>11, <1>12
<1> QED
  BY <1>1, <1>10, <1>11, <1>13, <1>14, <1>15, FilesChange

\* What an exit leaves of the compressions under way holds no entry.
LEMMA HalvesAdded ==
    ASSUME Types
    PROVE  LET halves == [i \in 1..Cardinality(Running) |->
                            Archive(SetToSeq(Running)[i], <<>>, FALSE)]
           IN /\ zipped \o halves \in Seq(Zips)
              /\ Len(zipped \o halves) = Len(zipped) + Cardinality(Running)
              /\ ZippedFiles(zipped \o halves) = ZippedFiles(zipped)
<1> DEFINE n == Cardinality(Running)
           halves == [i \in 1..n |-> Archive(SetToSeq(Running)[i], <<>>, FALSE)]
           y == zipped \o halves
<1>1. IsFiniteSet(Running) /\ n \in Nat /\ Running \subseteq Names
  BY RunningIsFinite DEF Running, Types
<1>2. SetToSeq(Running) \in [1..n -> Running]
  <2>1. PICK f \in [1..n -> Running] : IsInjective(f)
    BY <1>1, FS_CardinalityType DEF ExistsBijection, Bijection, Injection
  <2> QED
    BY <2>1 DEF SetToSeq
<1>3. \A i \in 1..n : halves[i] \in Zips /\ halves[i].whole = FALSE
  <2> TAKE i \in 1..n
  <2>1. SetToSeq(Running)[i] \in Names
    BY <1>1, <1>2
  <2> QED
    BY <2>1, EmptySeq DEF Archive, Zips
<1>4. halves \in Seq(Zips) /\ Len(halves) = n
  <2>1. \A i \in 1..n : Archive(SetToSeq(Running)[i], <<>>, FALSE) \in Zips
    BY <1>3
  <2>2. halves \in [1..n -> Zips] /\ DOMAIN halves = 1..n
    BY <2>1
  <2> HIDE DEF halves, n
  <2> QED
    BY <1>1, <2>2
<1> HIDE DEF halves, n
<1>5. zipped \in Seq(Zips) /\ Len(zipped) \in Nat /\ DOMAIN zipped = 1..Len(zipped)
  BY LenProperties DEF Types
<1>6. /\ y \in Seq(Zips) /\ Len(y) = Len(zipped) + n
      /\ \A i \in 1..(Len(zipped) + n) :
           y[i] = IF i <= Len(zipped) THEN zipped[i] ELSE halves[i - Len(zipped)]
  BY <1>4, <1>5, ConcatProperties
<1>7. DOMAIN y = 1..(Len(zipped) + n)
  BY <1>6, LenProperties
<1> HIDE DEF y
<1>8. \A i \in DOMAIN zipped : i \in DOMAIN y /\ y[i] = zipped[i]
  BY <1>1, <1>5, <1>6, <1>7
<1>9. \A i \in DOMAIN y : (i \in DOMAIN zipped /\ y[i] = zipped[i]) \/ y[i].whole = FALSE
  <2> TAKE i \in DOMAIN y
  <2>1. CASE i <= Len(zipped)
    BY <1>5, <1>6, <1>7, <2>1
  <2>2. CASE ~(i <= Len(zipped))
    <3>1. i - Len(zipped) \in 1..n
      BY <1>1, <1>5, <1>7, <2>2
    <3>2. y[i] = halves[i - Len(zipped)]
      BY <1>6, <1>7, <2>2
    <3> QED
      BY <1>3, <3>1, <3>2
  <2> QED
    BY <2>1, <2>2
<1>10. ZippedFiles(y) = ZippedFiles(zipped)
  BY <1>8, <1>9 DEF ZippedFiles
<1> QED
  BY <1>6, <1>10 DEF y, halves, n

\* The process ends.
LEMMA ExitStands ==
    ASSUME Types, NEW k \in Nat, NEW j \in Nat, Standing(k, j), Exit
    PROVE  /\ Types' /\ (\E n \in Nat : Standing(n, n)') /\ DiskStep
           /\ DOMAIN fate' = DOMAIN fate
           /\ \E c \in Nat : /\ k <= c
                            /\ OnDisk' = OnDisk \cup (k + 1)..c
<1>0. PICK n \in Nat : n = Len(fate)
  BY LenProperties DEF Types
<1>1. /\ up' = FALSE
      /\ queue' = <<>> /\ appends' = {} /\ size' = 0 /\ jobs' = <<>>
      /\ fate' = Marked(fate, {e \in DOMAIN fate : fate[e] = "pending"}, "dropped")
      /\ UNCHANGED <<minute, plain, begun>>
  BY DEF Exit
<1>2. /\ zipped' \in Seq(Zips)
      /\ ZippedFiles(zipped') = ZippedFiles(zipped)
  BY HalvesAdded DEF Exit
<1>3. ArchiveFiles' = ArchiveFiles
  <2>1. /\ ArchiveFiles = PlainFiles(plain) \cup ZippedFiles(zipped)
        /\ ArchiveFiles' = PlainFiles(plain') \cup ZippedFiles(zipped')
    BY ArchiveFilesSplit
  <2> QED
    BY <1>1, <1>2, <2>1
<1>4. k <= j /\ j <= n /\ n \in Nat /\ fate \in Seq(Fates) /\ DOMAIN fate = 1..n
  BY <1>0, LenProperties DEF Standing, Queued, Types
<1>5. InOrder(ArchiveFiles, latest, k) /\ PendingAfter(k)
  BY DEF Standing
<1>6. \E c \in Nat : /\ k <= c /\ c <= n
                    /\ latest' \in Seq(Nat)
                    /\ InOrder(ArchiveFiles', latest', n)
                    /\ OnDisk' = OnDisk \cup (k + 1)..c
  <2>1. PICK chunk \in appends \cup {<<>>} : \E m \in 0..Len(chunk) :
               latest' = latest \o SubSeq(chunk, 1, m)
    BY DEF Exit
  <2>2. PICK m \in 0..Len(chunk) : latest' = latest \o SubSeq(chunk, 1, m)
    BY <2>1
  <2>3. CASE chunk \in appends
    <3>1. /\ latest' \in Seq(Nat)
          /\ InOrder(ArchiveFiles, latest, j)'
          /\ OnDisk' = OnDisk \cup (k + 1)..(k + m)
          /\ k + m \in Nat /\ k + m <= j
      BY <1>3, <2>2, <2>3, PartExtends
    <3>2. InOrder(ArchiveFiles', latest', j)
      BY <3>1 DEF InOrder
    <3>3. InOrder(ArchiveFiles', latest', n)
      BY <1>4, <3>2, FewerInOrder
    <3>4. m \in Nat
      BY <2>2
    <3>5. k <= k + m /\ k + m <= n
      BY <1>4, <3>1, <3>4
    <3> QED
      BY <3>1, <3>3, <3>5
  <2>4. CASE chunk = <<>>
    <3>1. m = 0
      BY <2>2, <2>4
    <3>2. SubSeq(chunk, 1, m) = <<>>
      BY <2>4, <3>1, SubSeqEmpty
    <3>3. latest' = latest /\ latest \in Seq(Nat)
      BY <2>2, <3>2, ConcatEmptySeq DEF Types
    <3>4. InOrder(ArchiveFiles', latest', n)
      BY <1>3, <1>4, <1>5, <3>3, FewerInOrder
    <3>5. OnDisk' = OnDisk
      BY <1>3, <3>3, OnDiskIsReadable
    <3>6. (k + 1)..k = {} /\ k <= k /\ k <= n
      BY <1>4
    <3> QED
      BY <3>3, <3>4, <3>5, <3>6
  <2> QED
    BY <2>1, <2>3, <2>4
<1>7. PICK c \in Nat : /\ k <= c /\ c <= n
                     /\ latest' \in Seq(Nat)
                     /\ InOrder(ArchiveFiles', latest', n)
                     /\ OnDisk' = OnDisk \cup (k + 1)..c
  BY <1>6
<1>8. /\ fate' \in Seq(Fates) /\ Len(fate') = n /\ DOMAIN fate' = DOMAIN fate
      /\ \A e \in DOMAIN fate :
           fate'[e] = IF fate[e] = "pending" THEN "dropped" ELSE fate[e]
  <2>1. "dropped" \in Fates
    BY DEF Fates
  <2>2. LET es == {e \in DOMAIN fate : fate[e] = "pending"}
        IN /\ fate' \in Seq(Fates) /\ Len(fate') = Len(fate) /\ DOMAIN fate' = DOMAIN fate
           /\ \A e \in DOMAIN fate : fate'[e] = IF e \in es THEN "dropped" ELSE fate[e]
    BY <1>1, <1>4, <2>1, MarkedFacts
  <2> QED
    BY <1>0, <2>2
<1>9. Types'
  <2>1. DOMAIN jobs' = {} /\ IsFiniteSet(DOMAIN jobs')
    BY <1>1, FS_EmptySet
  <2> QED
    BY <1>0, <1>1, <1>2, <1>7, <1>8, <2>1 DEF Types
<1>10. Queued(n, n)'
  <2>1. Stretch(n, n) = <<>> /\ n <= n
    BY <1>4, StretchFacts
  <2> QED
    BY <1>1, <1>8, <2>1 DEF Queued
<1>11. PendingAfter(n)'
  <2>1. \A e \in 1..n : ~(e > n)
    BY <1>4
  <2>2. \A e \in 1..n : fate'[e] # "pending"
    BY <1>4, <1>8
  <2> QED
    BY <1>4, <1>8, <2>1, <2>2 DEF PendingAfter
<1>12. InOrder(ArchiveFiles, latest, n)'
  BY <1>7 DEF InOrder
<1>13. Standing(n, n)'
  BY <1>10, <1>11, <1>12 DEF Standing
<1>14. DiskStep
  <2>1. \A e \in DOMAIN fate : e \in (k + 1)..c => fate[e] = "pending"
    BY <1>4, <1>5 DEF PendingAfter
  <2> QED
    BY <1>7, <1>8, <2>1 DEF DiskStep
<1> QED
  BY <1>7, <1>8, <1>9, <1>13, <1>14

\* The process starts again.
LEMMA StartStands ==
    ASSUME Types, NEW k \in Nat, NEW j \in Nat, Standing(k, j), Start
    PROVE  Types' /\ Standing(k, j)' /\ DiskStep
<1> DEFINE name == <<minute, "session">>
<1>1. /\ up' = TRUE /\ latest' = <<>>
      /\ UNCHANGED <<minute, queue, appends, size>>
      /\ \/ /\ latest = <<>>
            /\ CleanOldArchives(jobs)
            /\ fate' = Marked(fate, CleanedEntries, "cleaned")
            /\ UNCHANGED plain
         \/ /\ plain' = With(plain, name, latest)
            /\ CleanOldArchives(With(jobs, name, "scheduled"))
            /\ fate' = Marked(Marked(fate, CleanedEntries, "cleaned"), Hit(name), "overwritten")
         \/ /\ CleanOldArchives(jobs)
            /\ fate' = Marked(Marked(fate, CleanedEntries, "cleaned"),
                              ToSet(latest), "overwritten")
            /\ UNCHANGED plain
  BY DEF Start
<1>2. name \in Names
  BY DEF Names, Types
<1> HIDE DEF name
<1>3. PICK js : CleanOldArchives(js)
  BY <1>1
<1>4. /\ zipped' \in Seq(Zips) /\ begun' \in Nat
      /\ ZippedFiles(zipped') \subseteq ZippedFiles(zipped)
      /\ CleanedEntries =
           Readable(ZippedFiles(zipped)) \ Readable(ZippedFiles(zipped'))
  BY <1>3, CleaningFacts
<1>5. /\ ArchiveFiles = PlainFiles(plain) \cup ZippedFiles(zipped)
      /\ ArchiveFiles' = PlainFiles(plain') \cup ZippedFiles(zipped')
      /\ OnDisk = Readable(ArchiveFiles \cup {latest})
      /\ OnDisk' = Readable(ArchiveFiles' \cup {latest'})
  BY ArchiveFilesSplit, OnDiskIsReadable
<1>6. /\ fate \in Seq(Fates) /\ latest \in Seq(Nat) /\ latest' \in Seq(Nat)
      /\ "cleaned" \in Fates
  BY <1>1, EmptySeq DEF Types, Fates
<1>7. CleanedEntries \subseteq OnDisk /\ ToSet(latest) \subseteq OnDisk
  <2>1. CleanedEntries \subseteq OnDisk
    BY <1>4, <1>5 DEF Readable
  <2>2. ToSet(latest) \subseteq OnDisk
    BY <1>5 DEF Readable
  <2> QED
    BY <2>1, <2>2
\* The cases differ in the entries that are overwritten.
<1>8. ASSUME NEW es, es \subseteq OnDisk,
             /\ fate' \in Seq(Fates) /\ Len(fate') = Len(fate) /\ DOMAIN fate' = DOMAIN fate
             /\ \A e \in DOMAIN fate :
                  fate'[e] = IF e \in es THEN "overwritten"
                             ELSE IF e \in CleanedEntries THEN "cleaned" ELSE fate[e],
             ArchiveFiles' \subseteq ArchiveFiles \cup {latest},
             \A e \in OnDisk : e \in OnDisk' \/ e \in es \cup CleanedEntries,
             /\ DOMAIN plain' \subseteq Names /\ \A n \in DOMAIN plain' : plain'[n] \in Seq(Nat)
             /\ DOMAIN jobs' \subseteq DOMAIN plain' /\ IsFiniteSet(DOMAIN jobs')
             /\ \A n \in DOMAIN jobs' : jobs'[n] \in {"scheduled", "running", "deleted"}
      PROVE  Types' /\ Standing(k, j)' /\ DiskStep
  <2>1. Types'
    BY <1>1, <1>4, <1>6, <1>8 DEF Types
  <2>2. \A e \in DOMAIN fate :
          \/ fate'[e] = fate[e]
          \/ e \in OnDisk /\ fate'[e] \in Gone
    BY <1>7, <1>8 DEF Gone
  <2>3. \A e \in DOMAIN fate : e \in OnDisk => e \in OnDisk' \/ fate'[e] \in Gone
    BY <1>8 DEF Gone
  <2> QED
    BY <1>1, <1>8, <2>1, <2>2, <2>3, FilesChange
\* In two of them latest.log becomes no archive.
<1>9. ASSUME CleanOldArchives(jobs), UNCHANGED plain
      PROVE  /\ ArchiveFiles' \subseteq ArchiveFiles \cup {latest}
             /\ \A e \in OnDisk : e \in OnDisk' \/ e \in ToSet(latest) \cup CleanedEntries
             /\ DOMAIN plain' \subseteq Names /\ \A n \in DOMAIN plain' : plain'[n] \in Seq(Nat)
             /\ DOMAIN jobs' \subseteq DOMAIN plain' /\ IsFiniteSet(DOMAIN jobs')
             /\ \A n \in DOMAIN jobs' : jobs'[n] \in {"scheduled", "running", "deleted"}
  <2>1. PlainFiles(plain') = PlainFiles(plain)
    BY <1>9
  <2>2. ArchiveFiles' \subseteq ArchiveFiles \cup {latest}
    BY <1>4, <1>5, <2>1
  <2>3. \A e \in OnDisk : e \in OnDisk' \/ e \in ToSet(latest) \cup CleanedEntries
    BY <1>4, <1>5, <2>1 DEF Readable
  <2>4. DOMAIN jobs' = DOMAIN jobs /\ \A n \in DOMAIN jobs : jobs'[n] \in {jobs[n], "deleted"}
    BY <1>9, CleaningFacts
  <2>5. /\ DOMAIN jobs \subseteq DOMAIN plain /\ IsFiniteSet(DOMAIN jobs)
        /\ \A n \in DOMAIN jobs : jobs[n] \in {"scheduled", "running", "deleted"}
        /\ DOMAIN plain \subseteq Names /\ \A n \in DOMAIN plain : plain[n] \in Seq(Nat)
    BY DEF Types
  <2>6. \A n \in DOMAIN jobs' : jobs'[n] \in {"scheduled", "running", "deleted"}
    BY <2>4, <2>5
  <2>7. DOMAIN plain' \subseteq Names /\ \A n \in DOMAIN plain' : plain'[n] \in Seq(Nat)
    BY <1>9, <2>5
  <2> QED
    BY <1>9, <2>2, <2>3, <2>4, <2>5, <2>6, <2>7
<1>10. CASE /\ latest = <<>> /\ CleanOldArchives(jobs) /\ UNCHANGED plain
            /\ fate' = Marked(fate, CleanedEntries, "cleaned")
  <2>1. /\ fate' \in Seq(Fates) /\ Len(fate') = Len(fate) /\ DOMAIN fate' = DOMAIN fate
        /\ \A e \in DOMAIN fate :
             fate'[e] = IF e \in CleanedEntries THEN "cleaned" ELSE fate[e]
    BY <1>6, <1>10, MarkedFacts
  <2>2. ToSet(latest) = {}
    BY <1>10 DEF ToSet
  <2>3. \A e \in DOMAIN fate :
          fate'[e] = IF e \in ToSet(latest) THEN "overwritten"
                     ELSE IF e \in CleanedEntries THEN "cleaned" ELSE fate[e]
    BY <2>1, <2>2
  <2> QED
    BY <1>7, <1>8, <1>9, <1>10, <2>1, <2>3
<1>11. CASE /\ plain' = With(plain, name, latest)
            /\ CleanOldArchives(With(jobs, name, "scheduled"))
            /\ fate' = Marked(Marked(fate, CleanedEntries, "cleaned"), Hit(name), "overwritten")
  <2>1. /\ DOMAIN jobs' = DOMAIN With(jobs, name, "scheduled")
        /\ \A n \in DOMAIN jobs' : jobs'[n] \in {With(jobs, name, "scheduled")[n], "deleted"}
    BY <1>11, CleaningFacts
  <2>2. /\ DOMAIN jobs' = DOMAIN jobs \cup {name} /\ IsFiniteSet(DOMAIN jobs')
        /\ \A n \in DOMAIN jobs' : jobs'[n] \in {"scheduled", "running", "deleted"}
    BY <2>1, JobScheduled
  <2>3. /\ DOMAIN plain' = DOMAIN plain \cup {name}
        /\ DOMAIN plain' \subseteq Names /\ \A n \in DOMAIN plain' : plain'[n] \in Seq(Nat)
        /\ ArchiveFiles' \subseteq ArchiveFiles \cup {latest}
        /\ Hit(name) \subseteq Readable(ArchiveFiles)
        /\ \A e \in Readable(ArchiveFiles \cup {latest}) :
             e \in OnDisk' \cup Hit(name) \/ e \in CleanedEntries
    BY <1>2, <1>4, <1>6, <1>11, ArchiveAdded
  <2>4. DOMAIN jobs' \subseteq DOMAIN plain'
    BY <2>2, <2>3 DEF Types
  <2>5. /\ fate' \in Seq(Fates) /\ Len(fate') = Len(fate) /\ DOMAIN fate' = DOMAIN fate
        /\ \A e \in DOMAIN fate :
             fate'[e] = IF e \in Hit(name) THEN "overwritten"
                        ELSE IF e \in CleanedEntries THEN "cleaned" ELSE fate[e]
    BY <1>6, <1>11, MarkedTwice
  <2>6. Hit(name) \subseteq OnDisk
    BY <1>5, <2>3 DEF Readable
  <2>7. \A e \in OnDisk : e \in OnDisk' \/ e \in Hit(name) \cup CleanedEntries
    BY <1>5, <2>3
  <2> QED
    BY <1>8, <2>2, <2>3, <2>4, <2>5, <2>6, <2>7
<1>12. CASE /\ CleanOldArchives(jobs) /\ UNCHANGED plain
            /\ fate' = Marked(Marked(fate, CleanedEntries, "cleaned"),
                              ToSet(latest), "overwritten")
  <2>1. /\ fate' \in Seq(Fates) /\ Len(fate') = Len(fate) /\ DOMAIN fate' = DOMAIN fate
        /\ \A e \in DOMAIN fate :
             fate'[e] = IF e \in ToSet(latest) THEN "overwritten"
                        ELSE IF e \in CleanedEntries THEN "cleaned" ELSE fate[e]
    BY <1>6, <1>12, MarkedTwice
  <2> QED
    BY <1>7, <1>8, <1>9, <1>12, <2>1
<1> QED
  BY <1>1, <1>10, <1>11, <1>12

-----------------------------------------------------------------------------
(* How many archives there are.                                            *)

\* Both parts of the measure are numbers, before a step and after it.
LEMMA GzsCount ==
    ASSUME Types, Types'
    PROVE  /\ Len(zipped) \in Nat /\ Len(zipped') \in Nat
           /\ IsFiniteSet(Running) /\ IsFiniteSet(Running')
           /\ Cardinality(Running) \in Nat /\ Cardinality(Running') \in Nat
           /\ begun \in Nat /\ begun' \in Nat
<1>1. Running \in SUBSET DOMAIN jobs /\ Running' \in SUBSET DOMAIN jobs'
  BY DEF Running
<1> QED
  BY <1>1, FS_Subset, FS_CardinalityType, LenProperties DEF Types

\* A cleaning without a failure leaves no more than the limit, and any other
\* leaves no more than there was.
LEMMA CleaningBounds ==
    ASSUME Types, Types', ArchivesBounded, NEW js, CleanOldArchives(js),
           \A n \in DOMAIN js : js[n] = "running" => n \in Running
    PROVE  ArchivesBounded'
<1>1. PICK open \in SUBSET Running :
        LET old == Surplus - Cardinality(open) IN
        /\ old >= 0
        /\ jobs' = Deleted(js, open)
        /\ \/ /\ old <= Len(zipped)
              /\ zipped' = SubSeq(zipped, old + 1, Len(zipped))
              /\ begun' = 0
           \/ /\ Surplus > 0
              /\ zipped' \in Thinned(zipped, old)
              /\ UNCHANGED begun
  BY DEF CleanOldArchives
<1> DEFINE old == Surplus - Cardinality(open)
           l   == Len(zipped)
           m   == Len(zipped')
           r   == Cardinality(Running)
           q   == Cardinality(Running')
           o   == Cardinality(open)
<1>2. /\ l \in Nat /\ m \in Nat /\ r \in Nat /\ q \in Nat
      /\ IsFiniteSet(Running) /\ zipped \in Seq(Zips)
  BY GzsCount DEF Types
<1>3. o \in Nat /\ q <= r - o
  <2>1. Running' \subseteq Running \ open
    BY <1>1 DEF Running, Deleted
  <2>2. open \subseteq Running /\ IsFiniteSet(open)
    BY <1>2, FS_Subset
  <2>3. o \in Nat /\ open \cap Running = open
    BY <2>2, FS_CardinalityType
  <2>4. /\ IsFiniteSet(Running \ open)
        /\ Cardinality(Running \ open) = r - Cardinality(Running \cap open)
    BY <1>2, FS_Difference
  <2>5. Running \cap open = open
    BY <2>2
  <2>6. q <= Cardinality(Running \ open)
    BY <2>1, <2>4, FS_Subset
  <2> QED
    BY <1>2, <2>3, <2>4, <2>5, <2>6
<1>4. Surplus \in Nat /\ l + r - Surplus <= MaxArchives
  BY SurplusFacts
<1>5. l + r <= MaxArchives + begun
  BY DEF ArchivesBounded
<1>6. CASE old \in Nat /\ old <= l /\ zipped' = SubSeq(zipped, old + 1, l) /\ begun' = 0
  <2>1. m = l - old
    <3>1. old + 1 \in Nat \ {0}
      BY <1>6
    <3>2. LET y == SubSeq(zipped, old + 1, Len(zipped))
          IN Len(y) = IF old + 1 <= Len(zipped) THEN Len(zipped) - (old + 1) + 1 ELSE 0
      BY <1>2, <3>1, ZippedCleaned
    <3>3. m = IF old + 1 <= l THEN l - (old + 1) + 1 ELSE 0
      BY <1>6, <3>2
    <3> HIDE DEF old, l, m
    <3> QED
      BY <1>2, <1>6, <3>3
  <2>2. old = Surplus - o
    OBVIOUS
  <2> HIDE DEF old, l, m, r, q, o
  <2>3. m + q <= MaxArchives + 0
    BY <1>2, <1>3, <1>4, <2>1, <2>2
  <2> QED
    BY <1>6, <2>3 DEF ArchivesBounded, m, q
<1>7. CASE old \in Nat /\ zipped' \in Thinned(zipped, old) /\ begun' = begun
  <2>1. m <= l
    BY <1>2, <1>7, ZippedThinned
  <2> HIDE DEF old, l, m, r, q, o
  <2>2. m + q <= MaxArchives + begun
    BY <1>2, <1>3, <1>5, <2>1 DEF Types
  <2> QED
    BY <1>7, <2>2 DEF ArchivesBounded, m, q
<1>8. old \in Nat
  BY <1>1, <1>3, <1>4
<1> QED
  BY <1>1, <1>6, <1>7, <1>8

\* No step exceeds the bound.
LEMMA BoundedStep ==
    ASSUME Types, Types', ArchivesBounded, [AuditNext]_auditVars
    PROVE  ArchivesBounded'
<1>1. /\ Len(zipped) \in Nat /\ Len(zipped') \in Nat
      /\ IsFiniteSet(Running) /\ IsFiniteSet(Running')
      /\ Cardinality(Running) \in Nat /\ Cardinality(Running') \in Nat
      /\ begun \in Nat /\ begun' \in Nat
      /\ Len(zipped) + Cardinality(Running) <= MaxArchives + begun
  BY GzsCount DEF ArchivesBounded
<1>2. ASSUME UNCHANGED <<zipped, jobs, begun>> PROVE ArchivesBounded'
  <2>1. Running' = Running
    BY <1>2 DEF Running
  <2> QED
    BY <1>2, <2>1 DEF ArchivesBounded
<1>3. \A name : \A n \in DOMAIN With(jobs, name, "scheduled") :
        With(jobs, name, "scheduled")[n] = "running" => n \in Running
  BY DEF With, Running
<1>4. \A n \in DOMAIN jobs : jobs[n] = "running" => n \in Running
  BY DEF Running
<1>5. CASE Start
  <2>1. CleanOldArchives(jobs) \/ \E name : CleanOldArchives(With(jobs, name, "scheduled"))
    BY <1>5 DEF Start
  <2> QED
    BY <1>3, <1>4, <2>1, CleaningBounds
<1>6. CASE AppendReturns
  <2>1. PICK chunk \in appends : AppendDone(chunk) \/ AppendFails(chunk)
    BY <1>6 DEF AppendReturns
  <2>2. \/ UNCHANGED <<zipped, jobs, begun>>
        \/ \E name : CleanOldArchives(With(jobs, name, "scheduled"))
    BY <2>1 DEF AppendDone, AppendFails, Rotate
  <2> QED
    BY <1>2, <1>3, <2>2, CleaningBounds
<1>7. ASSUME NEW n, JobBegins(n) PROVE ArchivesBounded'
  <2>1. Running' \subseteq Running \cup {n}
    BY <1>7 DEF JobBegins, Running
  <2>2. Cardinality(Running') <= Cardinality(Running) + 1
    <3>1. /\ IsFiniteSet(Running \cup {n})
          /\ Cardinality(Running \cup {n}) <= Cardinality(Running) + 1
      <4>1. /\ IsFiniteSet(Running \cup {n})
            /\ \/ Cardinality(Running \cup {n}) = Cardinality(Running)
               \/ Cardinality(Running \cup {n}) = Cardinality(Running) + 1
        BY <1>1, FS_AddElement
      <4> QED
        BY <1>1, <4>1
    <3>2. Cardinality(Running') <= Cardinality(Running \cup {n})
          /\ Cardinality(Running \cup {n}) \in Nat
      BY <2>1, <3>1, FS_Subset, FS_CardinalityType
    <3> QED
      BY <1>1, <3>1, <3>2
  <2>3. CASE zipped' = zipped /\ begun' = begun + 1
    BY <1>1, <2>2, <2>3 DEF ArchivesBounded
  <2>4. CASE begun' = begun /\ \E i \in DOMAIN zipped : zipped' = RemoveAt(zipped, i)
    <3>1. Len(zipped') = Len(zipped) - 1
      BY <2>4, ZippedRemoved DEF Types
    <3> QED
      BY <1>1, <2>2, <2>4, <3>1 DEF ArchivesBounded
  <2> QED
    BY <1>7, <2>3, <2>4 DEF JobBegins
<1>8. ASSUME NEW n, JobFinishes(n) \/ JobFails(n) PROVE ArchivesBounded'
  <2>1. n \in DOMAIN jobs /\ jobs' = Without(jobs, n) /\ begun' = begun
    BY <1>8 DEF JobFinishes, JobFails
  <2>2. Running' = Running \ {n}
    BY <2>1 DEF Running, Without
  <2>3. CASE jobs[n] = "running"
    <3>1. n \in Running
      BY <2>1, <2>3 DEF Running
    <3>2. Cardinality(Running') = Cardinality(Running) - 1
      BY <1>1, <2>2, <3>1, FS_RemoveElement
    <3>3. Len(zipped') = Len(zipped) + 1
      <4>1. n \in Names /\ plain[n] \in Seq(Nat) /\ zipped \in Seq(Zips)
        BY <2>1 DEF Types
      <4>2. Archive(n, plain[n], TRUE) \in Zips /\ Archive(n, <<>>, FALSE) \in Zips
        BY <4>1, EmptySeq DEF Archive, Zips
      <4>3. \A a \in Zips : Len(Append(zipped, a)) = Len(zipped) + 1
        BY <4>1, ZippedAdded
      <4> QED
        BY <1>8, <2>3, <4>2, <4>3 DEF JobFinishes, JobFails
    <3> QED
      BY <1>1, <2>1, <3>2, <3>3 DEF ArchivesBounded
  <2>4. CASE jobs[n] # "running"
    <3>1. zipped' = zipped
      BY <1>8, <2>4 DEF JobFinishes, JobFails
    <3>2. Running' = Running
      BY <2>2, <2>4 DEF Running
    <3> QED
      BY <2>1, <3>1, <3>2 DEF ArchivesBounded
  <2> QED
    BY <2>3, <2>4
<1>9. CASE Exit
  <2>1. Running' = {} /\ begun' = begun
    BY <1>9 DEF Exit, Running
  <2>2. Cardinality(Running') = 0
    BY <2>1, FS_EmptySet
  <2>3. Len(zipped') = Len(zipped) + Cardinality(Running)
    BY <1>9, HalvesAdded DEF Exit
  <2> QED
    BY <1>1, <2>1, <2>2, <2>3 DEF ArchivesBounded
<1>10. CASE JobSteps
  BY <1>7, <1>8, <1>10 DEF JobSteps
<1>11. CASE Log \/ Tick \/ UNCHANGED auditVars
  BY <1>2, <1>11 DEF Log, Tick, auditVars, diskVars
<1> QED
  BY <1>5, <1>6, <1>9, <1>10, <1>11 DEF AuditNext, AuditBackground

-----------------------------------------------------------------------------
(* The theorems.                                                           *)

\* Initially nothing has been logged.
LEMMA AuditInitStands ==
    ASSUME AuditInit
    PROVE  AuditInv /\ ArchivesBounded
<1>1. /\ up = TRUE /\ minute = Earlier /\ queue = <<>> /\ appends = {} /\ size = 0
      /\ latest = <<>> /\ plain = <<>> /\ jobs = <<>> /\ fate = <<>> /\ begun = 0
      /\ zipped = [i \in 1..Earlier |-> Archive(<<i - 1, "session">>, <<>>, TRUE)]
  BY DEF AuditInit
<1>2. /\ DOMAIN plain = {} /\ DOMAIN jobs = {} /\ DOMAIN fate = {} /\ Len(fate) = 0
      /\ Earlier \in Nat
  BY <1>1
<1>3. /\ zipped \in Seq(Zips) /\ Len(zipped) = Earlier
      /\ \A i \in DOMAIN zipped : zipped[i].content = <<>>
  <2>1. \A i \in 1..Earlier :
          /\ Archive(<<i - 1, "session">>, <<>>, TRUE) \in Zips
          /\ Archive(<<i - 1, "session">>, <<>>, TRUE).content = <<>>
    BY EmptySeq DEF Archive, Zips, Names
  <2>2. zipped \in [1..Earlier -> Zips] /\ DOMAIN zipped = 1..Earlier
    BY <1>1, <2>1
  <2>3. \A i \in DOMAIN zipped : zipped[i].content = <<>>
    BY <1>1, <2>1, <2>2
  <2> QED
    BY <1>2, <2>2, <2>3
<1>4. Types /\ ArchiveFiles \subseteq {<<>>} /\ OnDisk = {}
  <2>1. fate \in Seq(Fates) /\ latest \in Seq(Nat)
    BY <1>1, EmptySeq
  <2>2. Types
    <3>1. minute \in 0..MaxMinute /\ up \in BOOLEAN /\ size \in Nat /\ begun \in Nat
      BY <1>1
    <3>2. Len(fate) <= MaxEntries
      BY <1>2
    <3>3. IsFiniteSet(DOMAIN jobs)
      BY <1>2, FS_EmptySet
    <3> QED
      BY <1>2, <1>3, <2>1, <3>1, <3>2, <3>3 DEF Types
  <2>3. PlainFiles(plain) = {} /\ ZippedFiles(zipped) \subseteq {<<>>}
    BY <1>2, <1>3 DEF PlainFiles, ZippedFiles
  <2>4. ArchiveFiles \subseteq {<<>>}
    BY <2>3, ArchiveFilesSplit
  <2>5. ToSet(<<>>) = {}
    BY DEF ToSet
  <2> QED
    BY <1>1, <2>2, <2>4, <2>5 DEF OnDisk
<1>5. Queued(0, 0)
  <2>1. Stretch(0, 0) = <<>>
    BY StretchFacts
  <2> QED
    BY <1>1, <1>2, <2>1 DEF Queued
<1>6. PendingAfter(0) /\ AppendedStays
  BY <1>2 DEF PendingAfter, AppendedStays
<1>7. InOrder(ArchiveFiles, latest, 0)
  <2>1. <<>> \in Seq(Nat) /\ Ascends(<<>>) /\ ToSet(<<>>) = {}
    BY EmptySeq DEF Ascends, ToSet
  <2>2. Before(<<>>, <<>>)
    BY <2>1 DEF Before
  <2>3. \A f \in ArchiveFiles \cup {latest} : f = <<>>
    BY <1>1, <1>4
  <2> QED
    BY <2>1, <2>2, <2>3 DEF InOrder
<1>8. ArchivesBounded
  <2>1. Running = {}
    BY <1>2 DEF Running
  <2>2. Cardinality(Running) = 0
    BY <2>1, FS_EmptySet
  <2> QED
    BY <1>1, <1>2, <1>3, <2>2 DEF ArchivesBounded
<1> QED
  BY <1>4, <1>5, <1>6, <1>7, <1>8 DEF AuditInv, Standing

\* Every step keeps the invariant, and is a step of DiskStep.
LEMMA AuditStep ==
    ASSUME AuditInv, [AuditNext]_auditVars
    PROVE  AuditInv' /\ DiskStep
<1>1. PICK k \in Nat, j \in Nat : Standing(k, j)
  BY DEF AuditInv
<1>2. Types /\ AppendedStays
  BY DEF AuditInv
<1>3. Types' /\ (\E l, m \in Nat : Standing(l, m)') /\ DiskStep
  <2>1. CASE Log
    BY <1>1, <1>2, <2>1, LogStands
  <2>2. CASE AppendReturns
    BY <1>1, <1>2, <2>2, AppendDoneStands, AppendFailsStands DEF AppendReturns
  <2>3. CASE JobSteps
    BY <1>1, <1>2, <2>3, JobBeginsStands, JobEndsStands DEF JobSteps
  <2>4. CASE Tick
    BY <1>1, <1>2, <2>4, TickStands
  <2>5. CASE Exit
    BY <1>1, <1>2, <2>5, ExitStands
  <2>6. CASE Start
    BY <1>1, <1>2, <2>6, StartStands
  <2>7. CASE UNCHANGED auditVars
    <3>1. UNCHANGED <<up, minute, queue, appends, size, latest, plain, zipped, jobs, fate, begun>>
      BY <2>7 DEF auditVars, diskVars
    <3>2. Types'
      BY <1>2, <3>1 DEF Types
    <3>3. ArchiveFiles' = ArchiveFiles /\ OnDisk' = OnDisk
      BY <3>1 DEF ArchiveFiles, OnDisk
    <3> QED
      BY <1>1, <1>2, <3>1, <3>2, <3>3, FilesChange
  <2> QED
    BY <2>1, <2>2, <2>3, <2>4, <2>5, <2>6, <2>7 DEF AuditNext, AuditBackground
<1>4. AppendedStays'
  BY <1>2, <1>3, DiskStepKeeps
<1> QED
  BY <1>3, <1>4 DEF AuditInv

\* What a step may make of an entry: only an exit drops it.
LEMMA FateMoves ==
    ASSUME Types, [AuditNext]_auditVars
    PROVE  \A e \in DOMAIN fate :
             \/ fate'[e] \in {fate[e], "appended", "failed", "cleaned", "overwritten"}
             \/ fate'[e] = "dropped" /\ Exit
<1>1. \A fates, es, how : \A e \in DOMAIN fates :
        Marked(fates, es, how)[e] \in {how, fates[e]}
  BY DEF Marked
<1>2. \A fates, es, how : DOMAIN Marked(fates, es, how) = DOMAIN fates
  BY DEF Marked
<1>3. CASE Log
  <2>1. fate' = Append(fate, "pending") /\ fate \in Seq(Fates) /\ "pending" \in Fates
    BY <1>3 DEF Log, Types, Fates
  <2>2. DOMAIN fate = 1..Len(fate) /\ \A e \in 1..Len(fate) : fate'[e] = fate[e]
    BY <2>1, AppendProperties, LenProperties
  <2> QED
    BY <2>2
<1>4. CASE AppendReturns
  <2>1. PICK chunk \in appends : AppendDone(chunk) \/ AppendFails(chunk)
    BY <1>4 DEF AppendReturns
  <2>2. CASE AppendDone(chunk)
    <3> DEFINE fates == Marked(fate, ToSet(chunk), "appended")
               once  == Marked(fates, CleanedEntries, "cleaned")
    <3>1. \/ fate' = fates
          \/ \E ds : fate' = Marked(once, ds, "overwritten")
          \/ \E ds : fate' = Marked(fates, ds, "overwritten")
      BY <2>2 DEF AppendDone, Rotate
    <3>2. /\ DOMAIN fates = DOMAIN fate /\ DOMAIN once = DOMAIN fate
          /\ \A e \in DOMAIN fate : fates[e] \in {"appended", fate[e]}
      BY <1>1, <1>2
    <3>3. \A e \in DOMAIN fate : once[e] \in {"cleaned", fates[e]}
      BY <1>1, <1>2
    <3> HIDE DEF fates, once
    <3>4. \A e \in DOMAIN fate : fate'[e] \in {"appended", "cleaned", "overwritten", fate[e]}
      BY <1>1, <3>1, <3>2, <3>3
    <3> QED
      BY <3>4
  <2>3. CASE AppendFails(chunk)
    <3>1. \A e \in DOMAIN fate : fate'[e] \in {"failed", fate[e]}
      BY <1>1, <2>3 DEF AppendFails
    <3> QED
      BY <3>1
  <2> QED
    BY <2>1, <2>2, <2>3
<1>5. CASE JobSteps
  <2>1. \/ fate' = fate
        \/ \E es : \E how \in {"cleaned", "overwritten"} : fate' = Marked(fate, es, how)
    BY <1>5 DEF JobSteps, JobBegins, JobFinishes, JobFails
  <2>2. \A e \in DOMAIN fate : fate'[e] \in {"cleaned", "overwritten", fate[e]}
    BY <1>1, <2>1
  <2> QED
    BY <2>2
<1>6. CASE Start
  <2> DEFINE kept == Marked(fate, CleanedEntries, "cleaned")
  <2>1. fate' = kept \/ \E es : fate' = Marked(kept, es, "overwritten")
    BY <1>6 DEF Start
  <2>2. /\ DOMAIN kept = DOMAIN fate
        /\ \A e \in DOMAIN fate : kept[e] \in {"cleaned", fate[e]}
    BY <1>1, <1>2
  <2> HIDE DEF kept
  <2>3. \A e \in DOMAIN fate : fate'[e] \in {"overwritten", "cleaned", fate[e]}
    BY <1>1, <2>1, <2>2
  <2> QED
    BY <1>6, <2>3
<1>7. CASE Exit
  <2>1. \A e \in DOMAIN fate : fate'[e] \in {"dropped", fate[e]}
    BY <1>1, <1>7 DEF Exit
  <2> QED
    BY <1>7, <2>1
<1>8. CASE UNCHANGED fate
  BY <1>8
<1> QED
  BY <1>3, <1>4, <1>5, <1>6, <1>7, <1>8 DEF AuditNext, AuditBackground, Tick, auditVars

\* Only an exit drops entries.
LEMMA OnlyExitDrops ==
    ASSUME Types, [AuditNext]_auditVars, ~Exit
    PROVE  \A e \in DOMAIN fate : fate'[e] = "dropped" => fate[e] = "dropped"
BY FateMoves

\* Only log() adds entries.
LEMMA OnlyLogAdds ==
    ASSUME Types, AuditBackground \/ Start \/ Exit \/ UNCHANGED auditVars
    PROVE  Len(fate') = Len(fate) /\ DOMAIN fate' = DOMAIN fate
<1>1. fate \in Seq(Fates) /\ {"appended", "failed", "dropped", "cleaned", "overwritten"} \subseteq Fates
  BY DEF Types, Fates
<1>2. ASSUME NEW fates \in Seq(Fates), Len(fates) = Len(fate), DOMAIN fates = DOMAIN fate,
             NEW es, NEW how \in Fates
      PROVE  /\ Marked(fates, es, how) \in Seq(Fates)
             /\ Len(Marked(fates, es, how)) = Len(fate)
             /\ DOMAIN Marked(fates, es, how) = DOMAIN fate
  BY <1>2, MarkedFacts
<1>3. CASE AppendReturns
  <2>1. PICK chunk \in appends : AppendDone(chunk) \/ AppendFails(chunk)
    BY <1>3 DEF AppendReturns
  <2>2. CASE AppendDone(chunk)
    <3> DEFINE fates == Marked(fate, ToSet(chunk), "appended")
               once  == Marked(fates, CleanedEntries, "cleaned")
    <3>1. \/ fate' = fates
          \/ \E ds : fate' = Marked(once, ds, "overwritten")
          \/ \E ds : fate' = Marked(fates, ds, "overwritten")
      BY <2>2 DEF AppendDone, Rotate
    <3>2. fates \in Seq(Fates) /\ Len(fates) = Len(fate) /\ DOMAIN fates = DOMAIN fate
      BY <1>1, <1>2
    <3> HIDE DEF fates
    <3>3. once \in Seq(Fates) /\ Len(once) = Len(fate) /\ DOMAIN once = DOMAIN fate
      BY <1>1, <1>2, <3>2
    <3> HIDE DEF once
    <3> QED
      BY <1>1, <1>2, <3>1, <3>2, <3>3
  <2>3. CASE AppendFails(chunk)
    <3>1. fate' = Marked(fate, ToSet(chunk), "failed")
      BY <2>3 DEF AppendFails
    <3> QED
      BY <1>1, <1>2, <3>1
  <2> QED
    BY <2>1, <2>2, <2>3
<1>4. CASE JobSteps
  <2>1. \/ fate' = fate
        \/ \E es : \E how \in {"cleaned", "overwritten"} : fate' = Marked(fate, es, how)
    BY <1>4 DEF JobSteps, JobBegins, JobFinishes, JobFails
  <2> QED
    BY <1>1, <1>2, <2>1
<1>5. CASE Start
  <2> DEFINE kept == Marked(fate, CleanedEntries, "cleaned")
  <2>1. fate' = kept \/ \E es : fate' = Marked(kept, es, "overwritten")
    BY <1>5 DEF Start
  <2>2. kept \in Seq(Fates) /\ Len(kept) = Len(fate) /\ DOMAIN kept = DOMAIN fate
    BY <1>1, <1>2
  <2> HIDE DEF kept
  <2> QED
    BY <1>1, <1>2, <2>1, <2>2
<1>6. CASE Exit
  <2>1. \E es : fate' = Marked(fate, es, "dropped")
    BY <1>6 DEF Exit
  <2> QED
    BY <1>1, <1>2, <2>1
<1>7. CASE UNCHANGED fate
  BY <1>7
<1> QED
  BY <1>3, <1>4, <1>5, <1>6, <1>7 DEF AuditBackground, Tick, auditVars

\* Of what was pending an exit leaves a beginning on disk, and what was
\* dropped and is not on disk is the rest.
LEMMA ExitCuts ==
    ASSUME AuditInv, Exit
    PROVE  \E k, c \in Nat :
             /\ k <= c
             /\ \A e \in DOMAIN fate :
                  /\ e > k => fate[e] = "pending" /\ fate'[e] = "dropped" /\ e \notin OnDisk
                  /\ ~(e > k) => fate'[e] = fate[e]
             /\ OnDisk' = OnDisk \cup (k + 1)..c
<1>1. PICK k \in Nat, j \in Nat : Standing(k, j)
  BY DEF AuditInv
<1>2. Types /\ fate \in Seq(Fates)
  BY DEF AuditInv, Types
<1>3. PICK c \in Nat : k <= c /\ OnDisk' = OnDisk \cup (k + 1)..c
  BY <1>1, <1>2, ExitStands
<1>4. \A e \in DOMAIN fate :
        fate'[e] = IF fate[e] = "pending" THEN "dropped" ELSE fate[e]
  BY DEF Exit, Marked
<1>5. PendingAfter(k) /\ InOrder(ArchiveFiles, latest, k)
  BY <1>1 DEF Standing
<1>6. \A e \in OnDisk : e \in 1..k
  BY <1>5, OnDiskIsDealtWith
<1>7. ASSUME NEW e \in DOMAIN fate
      PROVE  /\ e > k => fate[e] = "pending" /\ fate'[e] = "dropped" /\ e \notin OnDisk
             /\ ~(e > k) => fate'[e] = fate[e]
  <2>1. fate[e] = "pending" <=> e > k
    BY <1>5 DEF PendingAfter
  <2>2. e \in OnDisk => ~(e > k)
    BY <1>6
  <2> QED
    BY <1>4, <2>1, <2>2
<1> QED
  BY <1>3, <1>7

\* The inductive invariant of the audit log holds.
THEOREM AuditInvariant == AuditSpec => [](AuditInv /\ ArchivesBounded)
<1>1. AuditInit => AuditInv /\ ArchivesBounded
  BY AuditInitStands
<1>2. AuditInv /\ ArchivesBounded /\ [AuditNext]_auditVars => (AuditInv /\ ArchivesBounded)'
  <2> SUFFICES ASSUME AuditInv, ArchivesBounded, [AuditNext]_auditVars
               PROVE  AuditInv' /\ ArchivesBounded'
    OBVIOUS
  <2>1. AuditInv'
    BY AuditStep
  <2>2. Types /\ Types'
    BY <2>1 DEF AuditInv
  <2> QED
    BY <2>1, <2>2, BoundedStep
<1> QED
  BY <1>1, <1>2, PTL DEF AuditSpec

\* What the invariant says of the entries and files.
LEMMA InvariantImplies ==
    ASSUME AuditInv
    PROVE  AuditTypeOK /\ TrailInOrder /\ AppendedStays /\ PendingAreNewest
<1>1. PICK k \in Nat, j \in Nat : Standing(k, j)
  BY DEF AuditInv
<1>2. TrailInOrder
  BY <1>1 DEF Standing, InOrder, TrailInOrder
<1>3. PendingAreNewest
  <2>1. DOMAIN fate = 1..Len(fate) /\ Len(fate) \in Nat
    BY LenProperties DEF AuditInv, Types
  <2>2. PendingAfter(k)
    BY <1>1 DEF Standing
  <2>3. ASSUME NEW e \in DOMAIN fate, NEW d \in DOMAIN fate, e < d, fate[e] = "pending"
        PROVE  fate[d] = "pending"
    <3>1. e > k
      BY <2>2, <2>3 DEF PendingAfter
    <3>2. d > k
      BY <2>1, <2>3, <3>1
    <3> QED
      BY <2>2, <3>2 DEF PendingAfter
  <2> QED
    BY <2>3 DEF PendingAreNewest
<1>4. AuditTypeOK
  <2>1. Types /\ DOMAIN fate = 1..Len(fate) /\ Len(fate) \in Nat
    BY LenProperties DEF AuditInv, Types
  <2>2. k <= j /\ j <= Len(fate)
    BY <1>1 DEF Standing, Queued
  <2>3. ToSet(Stretch(k, j)) \subseteq 1..Len(fate) /\ ToSet(Stretch(j, Len(fate))) \subseteq 1..Len(fate)
    <3>1. ToSet(Stretch(k, j)) = (k + 1)..j
      BY <2>2, StretchFacts
    <3>2. ToSet(Stretch(j, Len(fate))) = (j + 1)..Len(fate)
      BY <2>1, <2>2, StretchFacts
    <3> QED
      BY <2>1, <2>2, <3>1, <3>2
  <2>4. queue = Stretch(j, Len(fate)) /\ appends \subseteq {Stretch(k, j)}
    BY <1>1 DEF Standing, Queued
  <2>5. ToSet(queue) \cup UNION {ToSet(c) : c \in appends} \subseteq DOMAIN fate
    BY <2>1, <2>3, <2>4
  <2>6. DOMAIN jobs \subseteq Names
        /\ \A n \in DOMAIN jobs : jobs[n] \in {"scheduled", "running", "deleted"} /\ n \in DOMAIN plain
    BY <2>1 DEF Types
  <2>7. \A i \in DOMAIN zipped : zipped[i].name \in Names /\ zipped[i].whole \in BOOLEAN
    <3>1. \A i \in DOMAIN zipped : zipped[i] \in Zips
      BY <2>1, LenProperties DEF Types
    <3> QED
      BY <3>1 DEF Zips
  <2> QED
    BY <2>1, <2>5, <2>6, <2>7 DEF AuditTypeOK, Types
<1> QED
  BY <1>2, <1>3, <1>4 DEF AuditInv

\* The variables of the audit log have their types.
THEOREM AuditTypeCorrect == AuditSpec => []AuditTypeOK
  BY AuditInvariant, InvariantImplies, PTL

\* The files on disk hold the entries in the order of the calls of log(), none
\* of them twice, whatever fails in appends, rotations and compressions and
\* whenever the process ends.
THEOREM TrailStaysInOrder == AuditSpec => []TrailInOrder
  BY AuditInvariant, InvariantImplies, PTL

\* An entry whose append was reported done is readable until its archive is
\* cleaned or overwritten.
THEOREM AppendedEntriesStay == AuditSpec => []AppendedStays
  BY AuditInvariant, InvariantImplies, PTL

\* What an exit of the process can lose are the newest entries.
THEOREM OnlyTheNewestArePending == AuditSpec => []PendingAreNewest
  BY AuditInvariant, InvariantImplies, PTL

\* The compressed archives, finished, half written or being written, exceed the
\* limit at most by the compressions begun since the last cleaning in which
\* nothing failed.
THEOREM ArchivesStayBounded == AuditSpec => []ArchivesBounded
  BY AuditInvariant, PTL

-----------------------------------------------------------------------------
(* The queue never waits for nothing.                                      *)

\* An entry that is pending is in the one append under way or queued behind it,
\* with the entries in the order of the calls of log().
QueueIsServed ==
  \A e \in DOMAIN fate : fate[e] = "pending" =>
    up /\ \E chunk \in appends :
       /\ appends = {chunk} /\ chunk # <<>>
       /\ e \in ToSet(chunk) \cup ToSet(queue)
       /\ Ascends(chunk) /\ Ascends(queue) /\ Before(chunk, queue)

\* Only a process that runs appends, and never nothing.
AppendsWork == (appends # {} => up) /\ <<>> \notin appends

\* Every step keeps AppendsWork.
LEMMA NextAppendsWork == AppendsWork /\ [AuditNext]_auditVars => AppendsWork'
<1> SUFFICES ASSUME AppendsWork, [AuditNext]_auditVars PROVE AppendsWork'
  OBVIOUS
<1>1. ASSUME NEW q, NEW pending \in SUBSET appends, ProcessQueue(q, pending), up, up'
      PROVE  AppendsWork'
  BY <1>1 DEF ProcessQueue, AppendsWork
<1>2. CASE Log
  BY <1>1, <1>2 DEF Log
<1>3. CASE AppendReturns
  <2>1. PICK chunk \in appends : AppendDone(chunk) \/ AppendFails(chunk)
    BY <1>3 DEF AppendReturns
  <2>2. up /\ up' /\ FollowUp(queue, appends \ {chunk})
    BY <2>1 DEF AppendDone, AppendFails
  <2> QED
    BY <1>1, <2>2 DEF FollowUp
<1>4. CASE JobSteps \/ Tick \/ UNCHANGED auditVars
  BY <1>4 DEF JobSteps, JobBegins, JobFinishes, JobFails, Tick, auditVars, AppendsWork
<1>5. CASE Exit \/ Start
  BY <1>5 DEF Exit, Start, AppendsWork
<1> QED
  BY <1>2, <1>3, <1>4, <1>5 DEF AuditNext, AuditBackground

\* Two stretches, one after the other, are in the order of their numbers.
LEMMA StretchesInOrder ==
    ASSUME NEW k \in Nat, NEW j \in Nat, NEW n \in Nat, k <= j, j <= n
    PROVE  /\ Ascends(Stretch(k, j)) /\ Ascends(Stretch(j, n))
           /\ Before(Stretch(k, j), Stretch(j, n))
           /\ ToSet(Stretch(k, j)) \cup ToSet(Stretch(j, n)) = (k + 1)..n
<1>1. ASSUME NEW a \in Nat, NEW b \in Nat, a <= b PROVE Ascends(Stretch(a, b))
  <2>1. /\ DOMAIN Stretch(a, b) = 1..(b - a)
        /\ \A i \in 1..(b - a) : Stretch(a, b)[i] = a + i
    BY <1>1, StretchFacts
  <2> QED
    BY <2>1 DEF Ascends
<1>2. ToSet(Stretch(k, j)) = (k + 1)..j /\ ToSet(Stretch(j, n)) = (j + 1)..n
  BY StretchFacts
<1>3. Before(Stretch(k, j), Stretch(j, n))
  BY <1>2 DEF Before
<1> QED
  BY <1>1, <1>2, <1>3

\* isWriting never stays set with nobody to clear it: while an entry waits in
\* writeQueue the gateway runs and exactly one append is under way, of entries
\* logged before it, whose callback goes on with the queue.
THEOREM PendingEntriesAreServed == AuditSpec => []QueueIsServed
<1>1. AuditInit => AppendsWork
  BY DEF AuditInit, AppendsWork
<1>2. AuditInv /\ AppendsWork => QueueIsServed
  <2> SUFFICES ASSUME AuditInv, AppendsWork, NEW e \in DOMAIN fate, fate[e] = "pending"
               PROVE  up /\ \E chunk \in appends :
                        /\ appends = {chunk} /\ chunk # <<>>
                        /\ e \in ToSet(chunk) \cup ToSet(queue)
                        /\ Ascends(chunk) /\ Ascends(queue) /\ Before(chunk, queue)
    BY DEF QueueIsServed
  <2>1. PICK k \in Nat, j \in Nat : Standing(k, j)
    BY DEF AuditInv
  <2>2. PICK n \in Nat : n = Len(fate) /\ DOMAIN fate = 1..n
    BY LenProperties DEF AuditInv, Types
  <2>3. /\ k <= j /\ j <= n /\ queue = Stretch(j, n)
        /\ appends \subseteq {Stretch(k, j)} /\ (appends = {} => k = n)
    BY <2>1, <2>2 DEF Standing, Queued
  <2>4. e > k
    BY <2>1 DEF Standing, PendingAfter
  <2>5. appends = {Stretch(k, j)}
    BY <2>2, <2>3, <2>4
  <2>6. up /\ Stretch(k, j) # <<>>
    BY <2>5 DEF AppendsWork
  <2>7. /\ Ascends(Stretch(k, j)) /\ Ascends(queue) /\ Before(Stretch(k, j), queue)
        /\ e \in ToSet(Stretch(k, j)) \cup ToSet(queue)
    BY <2>2, <2>3, <2>4, StretchesInOrder
  <2> QED
    BY <2>5, <2>6, <2>7
<1> QED
  BY <1>1, <1>2, NextAppendsWork, AuditInvariant, PTL DEF AuditSpec

-----------------------------------------------------------------------------
(* What may happen to an archive.                                          *)

\* The minute of the archive is over and no compression of it is under way.
OldArchive(n) == n[1] < minute /\ n \notin DOMAIN jobs

\* A step leaves an old archive as it is, but may delete its .gz when that is
\* among the oldest that are too many.
OldArchivesStay ==
  \A n \in Names : OldArchive(n) =>
    /\ OldArchive(n)'
    /\ n \in DOMAIN plain => n \in DOMAIN plain' /\ plain'[n] = plain[n]
    /\ \A i \in DOMAIN zipped :
         zipped[i].name = n => zipped[i] \in ToSet(zipped') \/ i <= Surplus

\* What is added or removed under one name leaves the other names as they are.
LEMMA OthersStay ==
    ASSUME NEW f, NEW x, NEW v, NEW y, y # x
    PROVE  /\ y \in DOMAIN f => y \in DOMAIN With(f, x, v) /\ With(f, x, v)[y] = f[y]
           /\ y \in DOMAIN f => y \in DOMAIN Without(f, x) /\ Without(f, x)[y] = f[y]
           /\ y \notin DOMAIN f => y \notin DOMAIN With(f, x, v)
           /\ y \notin DOMAIN f => y \notin DOMAIN Without(f, x)
  BY DEF With, Without

\* What is appended to the compressed archives leaves them as they are.
LEMMA ZippedStay ==
    ASSUME Types
    PROVE  /\ \A a \in Zips : ToSet(zipped) \subseteq ToSet(Append(zipped, a))
           /\ Exit => ToSet(zipped) \subseteq ToSet(zipped')
<1>1. zipped \in Seq(Zips) /\ Len(zipped) \in Nat /\ DOMAIN zipped = 1..Len(zipped)
  BY LenProperties DEF Types
<1>2. ASSUME NEW a \in Zips PROVE ToSet(zipped) \subseteq ToSet(Append(zipped, a))
  <2>1. /\ Append(zipped, a) \in Seq(Zips) /\ Len(Append(zipped, a)) = Len(zipped) + 1
        /\ \A i \in 1..Len(zipped) : Append(zipped, a)[i] = zipped[i]
    BY <1>1, AppendProperties
  <2>2. DOMAIN Append(zipped, a) = 1..(Len(zipped) + 1)
    BY <2>1, LenProperties
  <2> QED
    BY <1>1, <2>1, <2>2 DEF ToSet
<1>3. ASSUME Exit PROVE ToSet(zipped) \subseteq ToSet(zipped')
  <2> DEFINE halves == [i \in 1..Cardinality(Running) |->
                          Archive(SetToSeq(Running)[i], <<>>, FALSE)]
  <2>1. zipped' = zipped \o halves /\ Cardinality(Running) \in Nat
    BY <1>3, RunningIsFinite DEF Exit
  <2>2. \E S : halves \in [1..Cardinality(Running) -> S]
    <3>1. halves \in [1..Cardinality(Running) -> {halves[i] : i \in 1..Cardinality(Running)}]
      OBVIOUS
    <3> QED
      BY <3>1
  <2> HIDE DEF halves
  <2>3. PICK S : halves \in Seq(S)
    <3>1. \A n \in Nat : \A S : [1..n -> S] \subseteq Seq(S)
      OBVIOUS
    <3> QED
      BY <2>1, <2>2, <3>1
  <2>4. zipped \in Seq(Zips \cup S) /\ halves \in Seq(Zips \cup S)
    BY <1>1, <2>3, SeqMonotonic
  <2>5. /\ zipped' \in Seq(Zips \cup S) /\ Len(zipped') = Len(zipped) + Len(halves)
        /\ \A i \in 1..(Len(zipped) + Len(halves)) :
             zipped'[i] = IF i <= Len(zipped) THEN zipped[i] ELSE halves[i - Len(zipped)]
    BY <2>1, <2>4, ConcatProperties
  <2>6. DOMAIN zipped' = 1..(Len(zipped) + Len(halves)) /\ Len(halves) \in Nat
    BY <2>4, <2>5, LenProperties
  <2>7. \A i \in DOMAIN zipped : i \in DOMAIN zipped' /\ zipped'[i] = zipped[i]
    BY <1>1, <2>5, <2>6
  <2> QED
    BY <2>7 DEF ToSet
<1> QED
  BY <1>2, <1>3

\* As long as the clock does not go back, an archive of an earlier minute whose
\* compression has ended, or ended with the process, is never renamed over,
\* compressed again, written to or deleted, through every later rotation, failure
\* and restart: only cleanOldArchives takes its .gz, and only while that is among
\* the oldest of more than MAX_RETAINED_ARCHIVES.
THEOREM OldArchivesAreOnlyCleaned == AuditSpec => [][OldArchivesStay]_auditVars
<1>1. ASSUME AuditInv, [AuditNext]_auditVars PROVE OldArchivesStay
  <2> SUFFICES ASSUME NEW n \in Names, OldArchive(n)
               PROVE  /\ OldArchive(n)'
                      /\ n \in DOMAIN plain => n \in DOMAIN plain' /\ plain'[n] = plain[n]
                      /\ \A i \in DOMAIN zipped :
                           zipped[i].name = n => zipped[i] \in ToSet(zipped') \/ i <= Surplus
    BY DEF OldArchivesStay
  <2> USE <1>1
  <2>0. /\ Types /\ n[1] < minute /\ n \notin DOMAIN jobs /\ minute \in Nat /\ n[1] \in Nat
        /\ \A i \in DOMAIN zipped : zipped[i] \in ToSet(zipped)
    BY DEF AuditInv, Types, OldArchive, Names, ToSet
  <2>1. CASE UNCHANGED <<minute, plain, zipped, jobs>>
    BY <2>0, <2>1 DEF OldArchive
  <2>2. ASSUME UNCHANGED minute, NEW f, NEW name, name[1] = minute,
               \/ plain' = With(plain, name, f) /\ UNCHANGED <<zipped, jobs>>
               \/ plain' = With(plain, name, f) /\ CleanOldArchives(With(jobs, name, "scheduled"))
               \/ plain' = plain /\ CleanOldArchives(jobs)
        PROVE  /\ OldArchive(n)'
               /\ n \in DOMAIN plain => n \in DOMAIN plain' /\ plain'[n] = plain[n]
               /\ \A i \in DOMAIN zipped :
                    zipped[i].name = n => zipped[i] \in ToSet(zipped') \/ i <= Surplus
    <3>1. n # name
      BY <2>0, <2>2
    <3>2. n \in DOMAIN plain => n \in DOMAIN plain' /\ plain'[n] = plain[n]
      BY <2>2, <3>1, OthersStay
    <3>3. n \notin DOMAIN With(jobs, name, "scheduled")
      BY <2>0, <3>1, OthersStay
    <3>4. n \notin DOMAIN jobs'
      BY <2>0, <2>2, <3>3, CleaningFacts
    <3>5. \A i \in DOMAIN zipped : zipped[i] \in ToSet(zipped') \/ i <= Surplus
      <4>1. CASE UNCHANGED zipped
        BY <2>0, <4>1
      <4>2. ASSUME NEW js, CleanOldArchives(js)
            PROVE  \A i \in DOMAIN zipped : zipped[i] \in ToSet(zipped') \/ i <= Surplus
        <5>1. \A i \in DOMAIN zipped : i > Surplus => zipped[i] \in ToSet(zipped')
          BY <2>0, <4>2, CleaningFacts
        <5>2. Surplus \in Nat /\ DOMAIN zipped = 1..Len(zipped) /\ Len(zipped) \in Nat
          BY <2>0, SurplusFacts, LenProperties DEF Types
        <5> QED
          BY <5>1, <5>2
      <4> QED
        BY <2>2, <4>1, <4>2
    <3> QED
      BY <2>0, <2>2, <3>2, <3>4, <3>5 DEF OldArchive
  <2>3. CASE AppendReturns
    <3>1. PICK chunk \in appends : AppendDone(chunk) \/ AppendFails(chunk)
      BY <2>3 DEF AppendReturns
    <3>2. \/ UNCHANGED <<minute, plain, zipped, jobs>>
          \/ /\ UNCHANGED minute
             /\ \E f, name :
                  /\ name \in DrawnNames /\ plain' = With(plain, name, f)
                  /\ \/ UNCHANGED <<zipped, jobs>>
                     \/ CleanOldArchives(With(jobs, name, "scheduled"))
      BY <3>1 DEF AppendDone, AppendFails, Rotate
    <3>3. \A name \in DrawnNames : name[1] = minute
      BY DEF DrawnNames
    <3> QED
      BY <2>1, <2>2, <3>2, <3>3
  <2>4. CASE Start
    <3>1. <<minute, "session">>[1] = minute
      OBVIOUS
    <3>2. /\ UNCHANGED minute
          /\ \/ /\ plain' = With(plain, <<minute, "session">>, latest)
                /\ CleanOldArchives(With(jobs, <<minute, "session">>, "scheduled"))
             \/ plain' = plain /\ CleanOldArchives(jobs)
      BY <2>4 DEF Start
    <3> QED
      BY <2>2, <3>1, <3>2
  <2>5. ASSUME NEW m, JobBegins(m)
        PROVE  /\ OldArchive(n)'
               /\ n \in DOMAIN plain => n \in DOMAIN plain' /\ plain'[n] = plain[n]
               /\ \A i \in DOMAIN zipped :
                    zipped[i].name = n => zipped[i] \in ToSet(zipped') \/ i <= Surplus
    <3>1. /\ m \in DOMAIN jobs /\ DOMAIN jobs' = DOMAIN jobs
          /\ plain' = plain /\ minute' = minute
          /\ \/ zipped' = zipped
             \/ \E i \in DOMAIN zipped : zipped[i].name = m /\ zipped' = RemoveAt(zipped, i)
      BY <2>5 DEF JobBegins, SourceOpened
    <3>2. \A i \in DOMAIN zipped : zipped[i].name = n => zipped[i] \in ToSet(zipped')
      BY <2>0, <3>1, ZippedRemoved DEF Types
    <3> QED
      BY <2>0, <3>1, <3>2 DEF OldArchive
  <2>6. ASSUME NEW m, JobFinishes(m) \/ JobFails(m)
        PROVE  /\ OldArchive(n)'
               /\ n \in DOMAIN plain => n \in DOMAIN plain' /\ plain'[n] = plain[n]
               /\ \A i \in DOMAIN zipped :
                    zipped[i].name = n => zipped[i] \in ToSet(zipped') \/ i <= Surplus
    <3>1. /\ m \in DOMAIN jobs /\ jobs' = Without(jobs, m)
          /\ plain' \in {plain, Without(plain, m)} /\ minute' = minute
          /\ \/ zipped' = zipped
             \/ zipped' = Append(zipped, Archive(m, plain[m], TRUE))
             \/ zipped' = Append(zipped, Archive(m, <<>>, FALSE))
      BY <2>6 DEF JobFinishes, JobFails
    <3>2. m # n
      BY <2>0, <3>1
    <3>3. Archive(m, plain[m], TRUE) \in Zips /\ Archive(m, <<>>, FALSE) \in Zips
      BY <2>0, <3>1, EmptySeq DEF Archive, Zips, Types
    <3>4. ToSet(zipped) \subseteq ToSet(zipped')
      BY <2>0, <3>1, <3>3, ZippedStay
    <3>5. n \notin DOMAIN jobs'
      BY <2>0, <3>1, <3>2, OthersStay
    <3>6. n \in DOMAIN plain => n \in DOMAIN plain' /\ plain'[n] = plain[n]
      <4>1. CASE plain' = plain
        BY <4>1
      <4>2. CASE plain' = Without(plain, m)
        BY <3>2, <4>2, OthersStay
      <4> QED
        BY <3>1, <4>1, <4>2
    <3> QED
      BY <2>0, <3>1, <3>4, <3>5, <3>6 DEF OldArchive
  <2>7. CASE Exit
    <3>1. DOMAIN jobs' = {} /\ plain' = plain /\ minute' = minute
      BY <2>7 DEF Exit
    <3> QED
      BY <2>0, <2>7, <3>1, ZippedStay DEF OldArchive
  <2>8. CASE Tick
    <3>1. minute' = minute + 1 /\ UNCHANGED <<plain, zipped, jobs>>
      BY <2>8 DEF Tick, diskVars
    <3> QED
      BY <2>0, <3>1 DEF OldArchive
  <2>9. CASE Log \/ UNCHANGED auditVars
    BY <2>1, <2>9 DEF Log, auditVars, diskVars
  <2> QED
    BY <2>3, <2>4, <2>5, <2>6, <2>7, <2>8, <2>9 DEF AuditNext, AuditBackground, JobSteps
<1> QED
  BY <1>1, AuditInvariant, PTL DEF AuditSpec
=============================================================================
