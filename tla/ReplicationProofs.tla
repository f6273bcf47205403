-------------------------- MODULE ReplicationProofs --------------------------
(***************************************************************************)
(* A follower is never ahead of what the primary has synced, and its own   *)
(* WAL is never behind its accounts, for any batches, segment sizes, flush *)
(* thresholds, faults and crashes.  The last section is about the terms:   *)
(* a server streams under one term only as long as no other took it.       *)
(***************************************************************************)
EXTENDS Replication, WellFoundedInduction, TLAPS

\* Leaves with arithmetic, or too many functions and records for Zenon, name SMT.
USE Zenon

\* A frame of the primary's WAL: a record (n = 0) or the commit of n records.
Frame == [lsn : Nat, n : Nat]
\* A record of the follower's WAL, at the LSN the follower gave it.
Stored == [rec : Nat, lsn : Nat]
\* The stream reader of a connection.
Reader == [fromLSN : Nat, listed : BOOLEAN, ids : SUBSET Nat, maxID : Nat,
           id : Nat, size : Nat, offset : Nat, pend : Seq(Frame), emit : Seq(Frame)]

\* The types of the primary's variables.
PrimaryTypes ==
  /\ segs \in Seq(Seq(Frame)) /\ cur > 0 /\ disk \subseteq 1 .. cur /\ cur \in disk
  /\ synced \in 0 .. Len(segs[cur]) /\ currentLSN \in Nat /\ todo \in Seq(Frame)
  /\ ppc \in {"idle", "write", "sync"}

\* The types of the follower's variables.
FollowerTypes ==
  /\ fpc \in {"down", "dial", "stream", "flush", "sync", "apply", "stopped", "promoted"}
  /\ lastLSN \in Nat /\ pending \in Seq(Nat) /\ commit \in Nat /\ applied \in Seq(Nat)
  /\ local \in Seq(Stored) /\ localLSN \in Nat /\ localSynced \in 0 .. Len(local)
  /\ gap \in BOOLEAN /\ torn \in BOOLEAN

-----------------------------------------------------------------------------
(* The primary *)

\* Every record up to frame j of segment i is of a synced batch.
clean(i, j) ==
  \A x \in 1 .. i : \A y \in DOMAIN segs[x] :
    (x < i \/ y <= j) /\ segs[x][y].n = 0 => segs[x][y].lsn \in acked

\* Frames behind the synced offset are those of the batch being written, the
\* commit last; that batch may have closed segments behind it.
WriterInv ==
  /\ ppc = "idle" => todo = <<>> /\ synced = Len(segs[cur]) /\ clean(cur, synced)
  /\ ppc = "write" => /\ todo # <<>> /\ \A k \in DOMAIN todo : todo[k].n > 0 <=> k = Len(todo)
                      /\ \A j \in DOMAIN segs[cur] : synced < j => segs[cur][j].n = 0
  /\ ppc = "sync" => todo = <<>>

\* A commit in a closed segment, or up to the synced offset, is of a batch that
\* was synced; so is what precedes it.
CommitsClean ==
  \A i \in 1 .. cur : \A j \in DOMAIN segs[i] :
    segs[i][j].n > 0 /\ (i < cur \/ j <= synced) => clean(i, j)

\* An acknowledged record is in the WAL.
AckedWritten ==
  \A a \in acked : \E i \in 1 .. cur : \E j \in DOMAIN segs[i] : segs[i][j].lsn = a /\ segs[i][j].n = 0

\* The primary's part of the inductive invariant.
PrimaryInv == PrimaryTypes /\ WriterInv /\ CommitsClean /\ AckedWritten

-----------------------------------------------------------------------------
(* The stream *)

\* Frame j of segment i is behind the reader.
behind(i, j) ==
  IF sr.id # 0 THEN i < sr.id \/ (i = sr.id /\ j <= sr.offset) ELSE \A x \in sr.ids : i < x

\* The open segment is the first of those listed.
ReaderInv ==
  /\ sr \in Reader
  /\ sr.ids \subseteq 1 .. sr.maxID /\ sr.maxID <= cur
  /\ ~sr.listed => sr.pend = <<>> /\ sr.ids = {} /\ sr.id = 0
  /\ sr.id # 0 => sr.id \in sr.ids /\ (\A x \in sr.ids : sr.id <= x) /\ sr.size <= Len(segs[sr.id])

\* What it holds back it has read.
PendInv ==
  \A k \in DOMAIN sr.pend :
    /\ sr.pend[k].n = 0
    /\ \E i \in 1 .. sr.maxID : \E j \in DOMAIN segs[i] : segs[i][j] = sr.pend[k] /\ behind(i, j)

\* Every record among these frames is of a synced batch.
synchronous(frames) == \A k \in DOMAIN frames : frames[k].n = 0 => frames[k].lsn \in acked

\* What is on its way to the follower is synced.
SentInv == wire \in Seq(Frame) /\ synchronous(sr.emit) /\ synchronous(wire)

\* The stream's part of the inductive invariant.
StreamInv == ReaderInv /\ PendInv /\ SentInv

-----------------------------------------------------------------------------
(* The follower *)

\* What the follower has buffered, stored and applied is synced.
TakenInv ==
  /\ \A k \in DOMAIN pending : pending[k] \in acked
  /\ \A k \in DOMAIN local : local[k].rec \in acked
  /\ \A k \in DOMAIN applied : applied[k] \in acked

\* Record r is among the first n of the follower's WAL.
onDisk(r, n) == \E i \in 1 .. n : local[i].rec = r

\* Where a flush stands: the records are in the WAL, then on disk, then applied.
FlushInv ==
  /\ fpc # "promoted" => \A k \in DOMAIN applied : onDisk(applied[k], localSynced)
  /\ fpc = "sync" => \A k \in DOMAIN pending : onDisk(pending[k], Len(local))
  /\ fpc = "apply" => \A k \in DOMAIN pending : onDisk(pending[k], localSynced)
  /\ fpc = "down" => localSynced = Len(local)
  /\ fpc \in {"down", "stopped"} => applied = <<>>

\* Unless a flush failed, the WAL and the accounts differ by that flush.
SameInv ==
  ~torn => /\ fpc \in {"dial", "stream", "flush"} => recs(local) = applied
           /\ fpc \in {"sync", "apply"} => recs(local) = applied \o pending

\* The follower's WAL is in the order of its LSNs.
OrderInv ==
  /\ \A i \in DOMAIN local : local[i].lsn <= localLSN
  /\ \A i, j \in DOMAIN local : i < j => local[i].lsn < local[j].lsn

\* The follower's part of the inductive invariant.
FollowerInv == FollowerTypes /\ TakenInv /\ FlushInv /\ SameInv /\ OrderInv

\* The inductive invariant.
IInv == PrimaryInv /\ StreamInv /\ FollowerInv

-----------------------------------------------------------------------------
(* Helpers *)

\* The smaller and the larger of two numbers.
LEMMA MinMaxTwo ==
  ASSUME NEW a \in Nat, NEW b \in Nat
  PROVE  /\ Min({a, b}) \in {a, b} /\ Min({a, b}) <= a /\ Min({a, b}) <= b
         /\ Max({a, b}) \in {a, b} /\ Max({a, b}) >= a /\ Max({a, b}) >= b
<1>1. (\E x \in {a, b} : \A y \in {a, b} : x <= y) /\ (\E x \in {a, b} : \A y \in {a, b} : x >= y)
  <2>1. CASE a <= b
    BY SMTT(30), <2>1
  <2>2. CASE b <= a
    BY SMTT(30), <2>2
  <2> QED
    BY SMTT(30), <2>1, <2>2
<1> QED
  BY <1>1 DEF Min, Max

\* A set of numbers that is not empty has a first one.
LEMMA MinOf ==
  ASSUME NEW T, T \subseteq Nat, T # {}
  PROVE  Min(T) \in T /\ \A k \in T : Min(T) <= k
<1>1. PICK n \in T : \A y \in T : ~ (<<y, n>> \in OpToRel(<, Nat))
  BY WFMin, NatLessThanWellFounded
<1>2. OpToRel(<, Nat) = {p \in Nat \X Nat : p[1] < p[2]}
  BY DEF OpToRel
<1>3. ASSUME NEW k \in T
      PROVE  n <= k
  <2>1. <<k, n>> \in Nat \X Nat
    OBVIOUS
  <2>2. ~ (k < n)
    BY <1>1, <1>2, <2>1
  <2> QED
    BY SMTT(30), <2>2
<1>4. \E x \in T : \A y \in T : x <= y
  BY <1>3
<1> QED
  BY <1>4 DEF Min

\* The last of a set of numbers up to c that has c.
LEMMA MaxOf ==
  ASSUME NEW c \in Nat, NEW T, T \subseteq 0 .. c, c \in T
  PROVE  Max(T) = c
<1>1. \A y \in T : c >= y
  BY SMTT(30)
<1>2. PICK x : x = Max(T)
  OBVIOUS
<1>3. x \in T /\ \A y \in T : x >= y
  BY <1>1, <1>2 DEF Max
<1>4. x \in 0 .. c /\ x >= c
  BY <1>3
<1> QED
  BY SMTT(30), <1>2, <1>4

\* What a concatenation holds where.
LEMMA ConcatParts ==
  ASSUME NEW T, NEW S \in Seq(T), NEW R \in Seq(T), NEW W, W = S \o R, NEW k, k = Len(R)
  PROVE  /\ W \in Seq(T) /\ Len(S) \in Nat /\ k \in Nat /\ Len(W) = Len(S) + k
         /\ DOMAIN S = 1 .. Len(S) /\ DOMAIN W = 1 .. Len(S) + k
         /\ \A j \in 1 .. Len(S) : W[j] = S[j]
         /\ \A j \in Len(S) + 1 .. Len(S) + k : W[j] = R[j - Len(S)]
  BY SMTT(30)

-----------------------------------------------------------------------------
(* Steps of the primary *)

\* Its log and what it has synced only grow.
Grows ==
  /\ cur <= cur' /\ cur' \in Nat
  /\ \A i \in 1 .. cur : /\ DOMAIN segs[i] \subseteq DOMAIN segs'[i]
                         /\ Len(segs'[i]) \in Nat /\ Len(segs[i]) <= Len(segs'[i])
                         /\ \A j \in DOMAIN segs[i] : segs'[i][j] = segs[i][j]
  /\ acked \subseteq acked'

\* What was clean stays clean.
LEMMA CleanStays ==
  ASSUME Grows, cur \in Nat, NEW i \in 1 .. cur, NEW j, clean(i, j),
         \A x \in 1 .. i : \A y \in DOMAIN segs'[x] : x < i \/ y <= j => y \in DOMAIN segs[x]
  PROVE  clean(i, j)'
<1> SUFFICES ASSUME NEW x \in 1 .. i, NEW y \in DOMAIN segs'[x], x < i \/ y <= j, segs'[x][y].n = 0
             PROVE  segs'[x][y].lsn \in acked'
  BY DEF clean
<1>1. x \in 1 .. cur /\ y \in DOMAIN segs[x]
  BY SMTT(30)
<1>2. segs'[x][y] = segs[x][y]
  BY <1>1 DEF Grows
<1> QED
  BY <1>1, <1>2 DEF clean, Grows

\* AppendBatch encodes the records and the commit.
LEMMA AppendBatchInv ==
  ASSUME PrimaryInv, NEW n \in BatchSizes, AppendBatch(n)
  PROVE  PrimaryInv' /\ Grows
<1>1. n \in Nat \ {0} /\ currentLSN \in Nat /\ cur \in Nat
  BY SMTT(30), BatchAssumption DEF PrimaryInv, PrimaryTypes, cur
<1>2. /\ UNCHANGED <<segs, disk, synced, acked>> /\ cur' = cur /\ ppc = "idle"
      /\ ppc' = "write" /\ currentLSN' = currentLSN + n + 1
  BY DEF AppendBatch, cur
<1>3. todo' = [i \in 1 .. n + 1 |-> [lsn |-> currentLSN + i, n |-> IF i <= n THEN 0 ELSE n]]
  BY DEF AppendBatch
<1>4. todo' \in Seq(Frame) /\ Len(todo') = n + 1 /\ \A k \in DOMAIN todo' : todo'[k].n > 0 <=> k = Len(todo')
  <2>1. \A i \in 1 .. n + 1 : [lsn |-> currentLSN + i, n |-> IF i <= n THEN 0 ELSE n] \in Frame
    BY SMTT(30), <1>1 DEF Frame
  <2>2. todo' \in [1 .. n + 1 -> Frame]
    BY <1>3, <2>1
  <2>3. todo' \in Seq(Frame) /\ Len(todo') = n + 1
    BY SMTT(30), <1>1, <2>2
  <2>4. ASSUME NEW k \in 1 .. n + 1
        PROVE  todo'[k].n > 0 <=> k = n + 1
    <3>1. todo'[k].n = IF k <= n THEN 0 ELSE n
      BY <1>3
    <3> QED
      BY SMTT(30), <1>1, <3>1
  <2>5. DOMAIN todo' = 1 .. n + 1
    BY <1>3
  <2> QED
    BY <2>3, <2>4, <2>5
<1>5. PrimaryTypes'
  BY SMTT(30), <1>1, <1>2, <1>4 DEF PrimaryInv, PrimaryTypes
<1>6. WriterInv'
  BY SMTT(30), <1>1, <1>2, <1>4 DEF PrimaryInv, PrimaryTypes, WriterInv
<1>7. CommitsClean' /\ AckedWritten'
  BY SMTT(30), <1>2 DEF PrimaryInv, CommitsClean, AckedWritten, clean
<1> QED
  <2>1. \A i \in 1 .. cur : Len(segs[i]) \in Nat
    BY SMTT(30) DEF PrimaryInv, PrimaryTypes, cur
  <2> QED
    BY SMTT(30), <1>1, <1>2, <1>5, <1>6, <1>7, <2>1 DEF PrimaryInv, Grows

\* A full segment is closed inside a batch; its commits are of earlier ones.
LEMMA rotateLockedInv ==
  ASSUME PrimaryInv, rotateLocked
  PROVE  PrimaryInv' /\ Grows
<1>1. PICK c \in Nat \ {0} : c = cur
  BY SMTT(30) DEF PrimaryInv, PrimaryTypes, cur
<1>2. /\ segs \in Seq(Seq(Frame)) /\ Len(segs) = c /\ disk \subseteq 1 .. c /\ currentLSN \in Nat /\ todo \in Seq(Frame)
      /\ synced \in 0 .. Len(segs[c])
  BY <1>1 DEF PrimaryInv, PrimaryTypes, cur
<1>3. /\ ppc = "write" /\ segs' = Append(segs, <<>>) /\ disk' = disk \cup {c + 1} /\ synced' = 0
      /\ UNCHANGED <<currentLSN, todo, ppc, acked>>
  BY <1>1 DEF rotateLocked
<1>4. /\ segs' \in Seq(Seq(Frame)) /\ Len(segs') = c + 1 /\ segs'[c + 1] = <<>>
      /\ \A i \in 1 .. c : segs'[i] = segs[i]
  BY SMTT(30), <1>2, <1>3
<1>5. cur' = c + 1 /\ DOMAIN segs'[c + 1] = {} /\ Len(segs'[c + 1]) = 0
  BY SMTT(30), <1>4 DEF cur
<1>6. PrimaryTypes'
  BY SMTT(30), <1>2, <1>3, <1>4, <1>5 DEF PrimaryTypes
<1>7. Grows
  <2>1. \A i \in 1 .. c : segs[i] \in Seq(Frame) /\ Len(segs[i]) \in Nat
    BY SMTT(30), <1>2
  <2> QED
    BY SMTT(30), <1>1, <1>3, <1>4, <1>5, <2>1 DEF Grows
<1>8. WriterInv'
  BY <1>1, <1>3, <1>5 DEF PrimaryInv, WriterInv
<1>9. \A i \in 1 .. c : \A j \in DOMAIN segs[i] : clean(i, j) => clean(i, j)'
  <2> SUFFICES ASSUME NEW i \in 1 .. cur, NEW j \in DOMAIN segs[i], clean(i, j)
               PROVE  clean(i, j)'
    BY <1>1
  <2>1. \A x \in 1 .. i : \A y \in DOMAIN segs'[x] : x < i \/ y <= j => y \in DOMAIN segs[x]
    <3>1. \A x \in 1 .. i : x \in 1 .. c
      BY SMTT(30), <1>1
    <3> QED
      BY <1>4, <3>1
  <2>2. cur \in Nat
    BY <1>1
  <2> QED
    BY <1>7, <2>1, <2>2, CleanStays
<1>10. CommitsClean'
  <2> SUFFICES ASSUME NEW i \in 1 .. c + 1, NEW j \in DOMAIN segs'[i], segs'[i][j].n > 0
               PROVE  clean(i, j)'
    BY <1>5 DEF CommitsClean
  <2>1. i \in 1 .. c
    BY SMTT(30), <1>5
  <2>2. j \in DOMAIN segs[i] /\ segs[i][j].n > 0
    BY <1>4, <2>1
  <2>3. i = c => j <= synced
    <3>1. \A y \in DOMAIN segs[c] : synced < y => segs[c][y].n = 0
      BY <1>1, <1>3 DEF PrimaryInv, WriterInv
    <3>2. i = c => j \in Nat /\ synced \in Nat
      BY SMTT(30), <1>2, <2>2
    <3> QED
      BY SMTT(30), <2>2, <3>1, <3>2
  <2>4. clean(i, j)
    BY SMTT(30), <1>1, <2>1, <2>2, <2>3 DEF PrimaryInv, CommitsClean
  <2> QED
    BY <1>9, <2>1, <2>2, <2>4
<1>11. AckedWritten'
  <2> SUFFICES ASSUME NEW a \in acked
               PROVE  \E i \in 1 .. c + 1 : \E j \in DOMAIN segs'[i] : segs'[i][j].lsn = a /\ segs'[i][j].n = 0
    BY <1>3, <1>5 DEF AckedWritten
  <2>1. PICK i \in 1 .. c : \E j \in DOMAIN segs[i] : segs[i][j].lsn = a /\ segs[i][j].n = 0
    BY <1>1 DEF PrimaryInv, AckedWritten
  <2>2. segs'[i] = segs[i] /\ i \in 1 .. c + 1
    BY SMTT(30), <1>4
  <2> QED
    BY <2>1, <2>2
<1> QED
  BY <1>6, <1>7, <1>8, <1>10, <1>11 DEF PrimaryInv

\* One Write: the commit is the last frame to go.
LEMMA writeBufferedInv ==
  ASSUME PrimaryInv, writeBuffered
  PROVE  PrimaryInv' /\ Grows
<1>1. PICK c \in Nat \ {0} : c = cur
  BY SMTT(30) DEF PrimaryInv, PrimaryTypes, cur
<1>2. PICK S : S = segs[c]
  OBVIOUS
<1>3. /\ segs \in Seq(Seq(Frame)) /\ Len(segs) = c /\ disk \subseteq 1 .. c /\ c \in disk
      /\ currentLSN \in Nat /\ todo \in Seq(Frame) /\ synced \in 0 .. Len(S) /\ S \in Seq(Frame)
  BY SMTT(30), <1>1, <1>2 DEF PrimaryInv, PrimaryTypes, cur
<1>4. /\ ppc = "write" /\ Len(S) < SegmentSize /\ todo # <<>>
      /\ \A j \in DOMAIN todo : todo[j].n > 0 <=> j = Len(todo)
      /\ \A j \in DOMAIN S : synced < j => S[j].n = 0
  BY <1>1, <1>2 DEF PrimaryInv, WriterInv, writeBuffered
<1>5. PICK k : k = Min({SegmentSize - Len(S), Len(todo)})
  OBVIOUS
<1>6. /\ segs' = [segs EXCEPT ![c] = S \o SubSeq(todo, 1, k)]
      /\ todo' = SubSeq(todo, k + 1, Len(todo))
      /\ ppc' = IF k = Len(todo) THEN "sync" ELSE "write"
      /\ UNCHANGED <<disk, synced, currentLSN, acked>>
  BY <1>1, <1>2, <1>5 DEF writeBuffered
<1>7. k \in 1 .. Len(todo)
  <2>1. SegmentSize - Len(S) \in Nat \ {0} /\ Len(todo) \in Nat \ {0}
    BY SMTT(30), <1>3, <1>4, SizeAssumption
  <2>2. k \in {SegmentSize - Len(S), Len(todo)} /\ k <= Len(todo)
    BY <1>5, <2>1, MinMaxTwo
  <2> QED
    BY SMTT(30), <2>1, <2>2
<1>8. PICK R : R = SubSeq(todo, 1, k)
  OBVIOUS
<1>9. R \in Seq(Frame) /\ Len(R) = k /\ \A j \in 1 .. k : R[j] = todo[j]
  BY SMTT(30), <1>3, <1>7, <1>8
<1>10. /\ segs' \in Seq(Seq(Frame)) /\ Len(segs') = c /\ segs'[c] = S \o R
       /\ \A i \in 1 .. c : i # c => segs'[i] = segs[i]
  <2>1. PICK W \in Seq(Frame) : W = S \o R
    BY <1>3, <1>9, ConcatParts
  <2>2. segs' = [segs EXCEPT ![c] = W] /\ c \in DOMAIN segs
    BY SMTT(30), <1>3, <1>6, <1>8, <2>1
  <2> QED
    BY SMTT(30), <1>3, <2>1, <2>2
<1>11. /\ segs'[c] \in Seq(Frame) /\ Len(segs'[c]) = Len(S) + k /\ DOMAIN segs'[c] = 1 .. Len(S) + k
       /\ DOMAIN S = 1 .. Len(S) /\ Len(S) \in Nat
       /\ \A j \in 1 .. Len(S) : segs'[c][j] = S[j]
       /\ \A j \in Len(S) + 1 .. Len(S) + k : segs'[c][j] = R[j - Len(S)]
  <2>1. S \in Seq(Frame) /\ R \in Seq(Frame) /\ k = Len(R) /\ segs'[c] = S \o R
    BY <1>3, <1>9, <1>10
  <2> QED
    <3>1. PICK W : W = segs'[c]
      OBVIOUS
    <3>2. W = S \o R
      BY <2>1, <3>1
    <3>3. /\ W \in Seq(Frame) /\ Len(S) \in Nat /\ Len(W) = Len(S) + k
          /\ DOMAIN S = 1 .. Len(S) /\ DOMAIN W = 1 .. Len(S) + k
          /\ \A j \in 1 .. Len(S) : W[j] = S[j]
          /\ \A j \in Len(S) + 1 .. Len(S) + k : W[j] = R[j - Len(S)]
      BY SMTT(30), <2>1, <3>2, ConcatParts
    <3> QED
      BY <3>1, <3>3
<1>12. todo' \in Seq(Frame) /\ Len(todo') = Len(todo) - k /\ \A x \in 1 .. Len(todo) - k : todo'[x] = todo[k + x]
  BY SMTT(30), <1>3, <1>6, <1>7
<1>13. cur' = c
  BY <1>10 DEF cur
<1>14. PrimaryTypes'
  <2>1. synced' \in 0 .. Len(segs'[c]) /\ ppc' \in {"idle", "write", "sync"}
    BY SMTT(30), <1>3, <1>6, <1>7, <1>11
  <2> QED
    BY SMTT(30), <1>3, <1>6, <1>10, <1>12, <1>13, <2>1 DEF PrimaryTypes
<1>15. Grows
  <2>2. cur <= cur' /\ cur' \in Nat
    BY SMTT(30), <1>1, <1>13
  <2>1. ASSUME NEW i \in 1 .. c
        PROVE  /\ DOMAIN segs[i] \subseteq DOMAIN segs'[i] /\ Len(segs'[i]) \in Nat /\ Len(segs[i]) <= Len(segs'[i])
               /\ \A j \in DOMAIN segs[i] : segs'[i][j] = segs[i][j]
    <3>1. CASE i = c
      <4>1. 1 .. Len(S) \subseteq 1 .. Len(S) + k /\ Len(S) + k \in Nat /\ Len(S) <= Len(S) + k
        BY SMTT(30), <1>7, <1>11
      <4> QED
        BY <1>2, <1>11, <3>1, <4>1
    <3>2. CASE i # c
      <4>1. segs'[i] = segs[i] /\ segs[i] \in Seq(Frame) /\ Len(segs[i]) \in Nat
        BY SMTT(30), <1>3, <1>10, <3>2
      <4> QED
        BY SMTT(30), <4>1
    <3> QED
      BY <3>1, <3>2
  <2> QED
    BY <1>1, <1>6, <2>1, <2>2 DEF Grows
<1>16. WriterInv'
  <2>1. CASE k = Len(todo)
    <3>1. ppc' = "sync" /\ todo' = <<>>
      BY SMTT(30), <1>3, <1>6, <1>7, <1>12, <2>1
    <3> QED
      BY <3>1 DEF WriterInv
  <2>2. CASE k # Len(todo)
    <3>1. ppc' = "write" /\ Len(todo') \in Nat \ {0} /\ todo' # <<>>
      <4>1. PICK l \in Nat : l = Len(todo)
        BY SMTT(30), <1>3
      <4>2. ppc' = "write" /\ l - k \in Nat \ {0} /\ Len(todo') = l - k
        BY SMTT(30), <1>6, <1>7, <1>12, <2>2, <4>1
      <4> QED
        BY <1>12, <4>2
    <3>2. \A x \in DOMAIN todo' : todo'[x].n > 0 <=> x = Len(todo')
      <4> SUFFICES ASSUME NEW x \in 1 .. Len(todo) - k
                   PROVE  todo'[x].n > 0 <=> x = Len(todo')
        BY SMTT(30), <1>12
      <4>1. k + x \in DOMAIN todo /\ (x = Len(todo') <=> k + x = Len(todo))
        BY SMTT(30), <1>3, <1>7, <1>12
      <4> QED
        BY <1>4, <1>12, <4>1
    <3>3. \A j \in DOMAIN segs'[c] : synced' < j => segs'[c][j].n = 0
      <4> SUFFICES ASSUME NEW j \in 1 .. Len(S) + k, synced < j
                   PROVE  segs'[c][j].n = 0
        BY <1>6, <1>11
      <4>1. CASE j <= Len(S)
        BY SMTT(30), <1>4, <1>11, <4>1
      <4>2. CASE j > Len(S)
        <5>1. PICK y \in 1 .. k : y = j - Len(S)
          <6>1. PICK l \in Nat : l = Len(S)
            BY <1>11
          <6>2. k \in Nat /\ j \in 1 .. l + k /\ j > l
            BY SMTT(30), <1>7, <4>2, <6>1
          <6>3. j - l \in 1 .. k
            BY SMTT(30), <6>2
          <6> QED
            BY <6>1, <6>3
        <5>2. segs'[c][j] = todo[y]
          BY SMTT(30), <1>9, <1>11, <4>2, <5>1
        <5>3. y \in DOMAIN todo /\ y # Len(todo) /\ todo[y] \in Frame
          BY SMTT(30), <1>3, <1>7, <2>2
        <5>4. ~ (todo[y].n > 0) /\ todo[y].n \in Nat
          BY <1>4, <5>3 DEF Frame
        <5> QED
          BY SMTT(30), <5>2, <5>4
      <4> QED
        BY SMTT(30), <1>7, <1>11, <4>1, <4>2
    <3> QED
      BY <1>13, <3>1, <3>2, <3>3 DEF WriterInv
  <2> QED
    BY <2>1, <2>2
<1>17. CommitsClean'
  <2> SUFFICES ASSUME NEW i \in 1 .. c, NEW j \in DOMAIN segs'[i], segs'[i][j].n > 0, i < c \/ j <= synced
               PROVE  clean(i, j)'
    BY <1>6, <1>13 DEF CommitsClean
  <2>1. j \in DOMAIN segs[i] /\ segs'[i][j] = segs[i][j]
    <3>1. CASE i = c
      BY SMTT(30), <1>2, <1>3, <1>7, <1>11, <3>1
    <3>2. CASE i # c
      BY <1>10, <3>2
    <3> QED
      BY <3>1, <3>2
  <2>2. clean(i, j)
    BY <1>1, <2>1 DEF PrimaryInv, CommitsClean
  <2>3. ASSUME NEW x \in 1 .. i, NEW y \in DOMAIN segs'[x], x < i \/ y <= j
        PROVE  y \in DOMAIN segs[x]
    <3>1. CASE x = c
      <4>1. y \in 1 .. Len(S) + k /\ j \in 1 .. Len(S) + k /\ y <= synced
        <5>1. i = c /\ j \in DOMAIN segs'[c] /\ y \in DOMAIN segs'[c] /\ y <= j /\ j <= synced
          <6>1. i \in 1 .. c /\ c \in 1 .. i /\ c \in Nat
            BY <3>1
          <6>2. i = c
            BY SMTT(30), <6>1
          <6> QED
            BY SMTT(30), <2>3, <3>1, <6>1, <6>2
        <5>2. PICK l \in Nat : l = Len(S) + k
          BY SMTT(30), <1>7, <1>11
        <5>3. j \in 1 .. l /\ y \in 1 .. l /\ synced \in Nat
          BY SMTT(30), <1>3, <1>11, <5>1, <5>2
        <5> QED
          BY SMTT(30), <5>1, <5>2, <5>3
      <4> QED
        BY SMTT(30), <1>2, <1>3, <1>11, <3>1, <4>1
    <3>2. CASE x # c
      BY SMTT(30), <1>10, <3>2
    <3> QED
      BY <3>1, <3>2
  <2>4. cur \in Nat /\ i \in 1 .. cur
    BY <1>1
  <2> QED
    BY <1>15, <2>2, <2>3, <2>4, CleanStays
<1>18. AckedWritten'
  <2> SUFFICES ASSUME NEW a \in acked
               PROVE  \E i \in 1 .. c : \E j \in DOMAIN segs'[i] : segs'[i][j].lsn = a /\ segs'[i][j].n = 0
    BY <1>6, <1>13 DEF AckedWritten
  <2>1. PICK i \in 1 .. cur : \E j \in DOMAIN segs[i] : segs[i][j].lsn = a /\ segs[i][j].n = 0
    BY DEF PrimaryInv, AckedWritten
  <2>2. DOMAIN segs[i] \subseteq DOMAIN segs'[i] /\ \A j \in DOMAIN segs[i] : segs'[i][j] = segs[i][j]
    BY <1>15 DEF Grows
  <2> QED
    BY <1>1, <2>1, <2>2
<1> QED
  BY <1>14, <1>15, <1>16, <1>17, <1>18 DEF PrimaryInv

\* After Sync everything written is acknowledged.
LEMMA SyncInv ==
  ASSUME PrimaryInv, Sync
  PROVE  PrimaryInv' /\ Grows
<1>1. PICK c \in Nat \ {0} : c = cur
  BY SMTT(30) DEF PrimaryInv, PrimaryTypes, cur
<1>2. /\ segs \in Seq(Seq(Frame)) /\ Len(segs) = c /\ disk \subseteq 1 .. c /\ c \in disk
      /\ currentLSN \in Nat /\ todo \in Seq(Frame) /\ DOMAIN segs = 1 .. c
  BY SMTT(30), <1>1 DEF PrimaryInv, PrimaryTypes, cur
<1>3. /\ ppc = "sync" /\ ppc' = "idle" /\ todo = <<>> /\ synced' = Len(segs[c])
      /\ UNCHANGED <<segs, disk, currentLSN, todo>> /\ cur' = c
  BY <1>1 DEF PrimaryInv, WriterInv, Sync, cur
<1>4. acked' = {f.lsn : f \in {x \in written : x.n = 0}}
  BY DEF Sync
<1>5. ASSUME NEW i \in 1 .. c, NEW j \in DOMAIN segs[i], segs[i][j].n = 0
      PROVE  segs[i][j].lsn \in acked'
  <2>1. segs[i][j] \in written
    BY SMTT(30), <1>2 DEF written, Range
  <2> QED
    BY <1>4, <1>5, <2>1
<1>6. AckedWritten'
  <2> SUFFICES ASSUME NEW a \in acked'
               PROVE  \E i \in 1 .. c : \E j \in DOMAIN segs[i] : segs[i][j].lsn = a /\ segs[i][j].n = 0
    BY SMTT(30), <1>3 DEF AckedWritten
  <2>1. PICK f \in written : f.n = 0 /\ f.lsn = a
    BY <1>4
  <2>2. PICK i \in 1 .. c : f \in Range(segs[i])
    BY <1>2, <2>1 DEF written
  <2>3. PICK j \in DOMAIN segs[i] : segs[i][j] = f
    BY <2>2 DEF Range
  <2> QED
    BY <2>1, <2>3
<1>7. \A i, j : i \in 1 .. c => clean(i, j)'
  <2> SUFFICES ASSUME NEW i \in 1 .. c, NEW j, NEW x \in 1 .. i, NEW y \in DOMAIN segs[x], segs[x][y].n = 0
               PROVE  segs[x][y].lsn \in acked'
    BY <1>3 DEF clean
  <2>1. x \in 1 .. c
    BY SMTT(30)
  <2> QED
    BY <1>5, <2>1
<1>8. acked \subseteq acked'
  <2> SUFFICES ASSUME NEW a \in acked
               PROVE  a \in acked'
    OBVIOUS
  <2>1. PICK i \in 1 .. cur : \E j \in DOMAIN segs[i] : segs[i][j].lsn = a /\ segs[i][j].n = 0
    BY DEF PrimaryInv, AckedWritten
  <2> QED
    BY <1>1, <1>5, <2>1
<1>9. \A i \in 1 .. c : Len(segs[i]) \in Nat
  BY SMTT(30), <1>2
<1>10. PrimaryTypes'
  <2>1. synced' \in 0 .. Len(segs[c])
    BY SMTT(30), <1>3, <1>9
  <2> QED
    BY SMTT(30), <1>2, <1>3, <2>1 DEF PrimaryTypes
<1>11. WriterInv' /\ CommitsClean'
  BY SMTT(30), <1>3, <1>7 DEF WriterInv, CommitsClean
<1>12. Grows
  BY SMTT(30), <1>1, <1>3, <1>8, <1>9 DEF Grows
<1> QED
  BY <1>6, <1>10, <1>11, <1>12 DEF PrimaryInv

\* TruncateBefore removes files, never the live one.
LEMMA TruncateBeforeInv ==
  ASSUME PrimaryInv, TruncateBefore
  PROVE  PrimaryInv' /\ Grows
<1>1. UNCHANGED <<segs, synced, currentLSN, todo, ppc, acked>> /\ cur' = cur
  BY DEF TruncateBefore, cur
<1>2. disk' \subseteq disk /\ (cur \in disk => cur \in disk')
  BY DEF TruncateBefore
<1>3. PrimaryTypes' /\ cur \in Nat /\ \A i \in 1 .. cur : Len(segs[i]) \in Nat
  BY SMTT(30), <1>1, <1>2 DEF PrimaryInv, PrimaryTypes, cur
<1>4. WriterInv' /\ CommitsClean' /\ AckedWritten'
  BY SMTT(30), <1>1 DEF PrimaryInv, WriterInv, CommitsClean, AckedWritten, clean
<1> QED
  BY SMTT(30), <1>1, <1>3, <1>4 DEF PrimaryInv, Grows

-----------------------------------------------------------------------------
(* Steps of the stream *)

\* What the reader has read stays where it was, whatever the primary does.
LEMMA PrimaryStream ==
  ASSUME IInv, Grows, UNCHANGED <<sr, wire, follower>>
  PROVE  StreamInv' /\ FollowerInv'
<1>1. acked \subseteq acked' /\ cur \in Nat /\ cur <= cur' /\ cur' \in Nat
  BY SMTT(30) DEF IInv, PrimaryInv, PrimaryTypes, cur, Grows
<1>2. ReaderInv'
  <2>1. sr.id # 0 => sr.id \in 1 .. cur
    BY SMTT(30), <1>1 DEF IInv, StreamInv, ReaderInv, Reader
  <2>2. sr.id # 0 => Len(segs[sr.id]) <= Len(segs'[sr.id]) /\ Len(segs[sr.id]) \in Nat
    <3>1. \A i \in 1 .. cur : Len(segs[i]) \in Nat
      BY SMTT(30) DEF IInv, PrimaryInv, PrimaryTypes, cur
    <3> QED
      BY <2>1, <3>1 DEF Grows
  <2>3. sr \in Reader /\ sr' = sr
    BY DEF IInv, StreamInv, ReaderInv
  <2>4. sr.maxID <= cur' /\ (sr.id # 0 => sr.size <= Len(segs'[sr.id]))
    <3>1. sr.maxID <= cur /\ (sr.id # 0 => sr.size <= Len(segs[sr.id]))
      BY DEF IInv, StreamInv, ReaderInv
    <3>2. sr.maxID \in Nat /\ sr.size \in Nat
      BY <2>3 DEF Reader
    <3>3. sr.id # 0 => Len(segs'[sr.id]) \in Nat
      BY <2>1 DEF Grows
    <3> QED
      BY SMTT(30), <1>1, <2>2, <3>1, <3>2, <3>3
  <2> QED
    BY <2>3, <2>4 DEF IInv, StreamInv, ReaderInv
<1>3. PendInv'
  <2> SUFFICES ASSUME NEW k \in DOMAIN sr.pend
               PROVE  /\ sr.pend[k].n = 0
                      /\ \E i \in 1 .. sr.maxID : \E j \in DOMAIN segs'[i] : segs'[i][j] = sr.pend[k] /\ behind(i, j)'
    BY DEF PendInv
  <2>1. PICK i \in 1 .. sr.maxID : \E j \in DOMAIN segs[i] : segs[i][j] = sr.pend[k] /\ behind(i, j)
    BY DEF IInv, StreamInv, PendInv
  <2>2. i \in 1 .. cur
    BY SMTT(30), <1>1 DEF IInv, StreamInv, ReaderInv, Reader
  <2>3. \A j : behind(i, j) => behind(i, j)'
    BY DEF behind
  <2> QED
    BY <2>1, <2>2, <2>3 DEF Grows, IInv, StreamInv, PendInv
<1>4. SentInv'
  BY <1>1 DEF IInv, StreamInv, SentInv, synchronous
<1>5. FollowerTypes' /\ TakenInv' /\ FlushInv' /\ SameInv' /\ OrderInv'
  BY <1>1 DEF IInv, FollowerInv, FollowerTypes, TakenInv, FlushInv, SameInv, OrderInv, onDisk, recs, follower,
              localWAL, position
<1> QED
  BY <1>2, <1>3, <1>4, <1>5 DEF StreamInv, FollowerInv

\* A reader that has listed nothing, or opened nothing, is behind nothing.
LEMMA ListSegmentsInv ==
  ASSUME IInv, ListSegments
  PROVE  StreamInv'
<1>1. PICK c \in Nat \ {0} : c = cur
  BY SMTT(30) DEF IInv, PrimaryInv, PrimaryTypes, cur
<1>2. PICK ids : ids = {id \in disk : peekSegmentMaxLSN(id) > sr.fromLSN}
  OBVIOUS
<1>3. PICK mx : mx = Max(disk)
  OBVIOUS
<1>4. sr' = [sr EXCEPT !.listed = TRUE, !.ids = ids, !.maxID = mx] /\ sr.id = 0 /\ ~sr.listed
      /\ UNCHANGED <<segs, acked, wire>> /\ cur' = cur
  BY <1>2, <1>3 DEF ListSegments, listSegmentIDs, srOnly, primary, cur
<1>5. disk \subseteq 1 .. c /\ c \in disk
  BY <1>1 DEF IInv, PrimaryInv, PrimaryTypes
<1>6. mx = c /\ ids \subseteq 1 .. c
  <2>1. disk \subseteq 0 .. c /\ c \in Nat
    BY SMTT(30), <1>5
  <2> QED
    BY <1>2, <1>3, <1>5, <2>1, MaxOf
<1>7. sr \in Reader /\ sr.pend = <<>>
  BY <1>4 DEF IInv, StreamInv, ReaderInv
<1>8. /\ sr' \in Reader /\ sr'.listed /\ sr'.id = 0 /\ sr'.ids = ids /\ sr'.maxID = c
      /\ sr'.pend = <<>> /\ sr'.emit = sr.emit
  <2>1. ids \in SUBSET Nat /\ mx \in Nat
    BY SMTT(30), <1>6
  <2>2. sr' \in Reader
    BY <1>4, <1>7, <2>1 DEF Reader
  <2> QED
    BY <1>4, <1>6, <1>7, <2>2 DEF Reader
<1>9. ReaderInv' /\ PendInv'
  BY SMTT(30), <1>1, <1>4, <1>6, <1>8 DEF ReaderInv, PendInv
<1>10. SentInv'
  BY SMTT(30), <1>4, <1>8 DEF IInv, StreamInv, SentInv, synchronous
<1> QED
  BY <1>9, <1>10 DEF StreamInv

\* What was behind stays behind when the first listed segment is opened, passed
\* over or left.
LEMMA ReaderMoves ==
  ASSUME IInv, UNCHANGED <<segs, acked, wire>>, sr' \in Reader, sr'.pend = sr.pend, sr'.emit = sr.emit,
         sr'.maxID >= sr.maxID,
         \A i \in 1 .. sr.maxID : \A j \in DOMAIN segs[i] : behind(i, j) => behind(i, j)'
  PROVE  PendInv' /\ SentInv'
<1>1. sr.maxID \in Nat /\ sr'.maxID \in Nat
  BY DEF IInv, StreamInv, ReaderInv, Reader
<1>2. ASSUME NEW k \in DOMAIN sr'.pend
      PROVE  /\ sr'.pend[k].n = 0
             /\ \E i \in 1 .. sr'.maxID : \E j \in DOMAIN segs[i] : segs[i][j] = sr'.pend[k] /\ behind(i, j)'
  <2>1. PICK i \in 1 .. sr.maxID : \E j \in DOMAIN segs[i] : segs[i][j] = sr.pend[k] /\ behind(i, j)
    BY DEF IInv, StreamInv, PendInv
  <2>2. i \in 1 .. sr'.maxID
    BY SMTT(30), <1>1
  <2> QED
    BY <2>1, <2>2 DEF IInv, StreamInv, PendInv
<1>3. PendInv'
  BY <1>2 DEF PendInv
<1>4. SentInv'
  BY DEF IInv, StreamInv, SentInv, synchronous
<1> QED
  BY <1>3, <1>4

\* The reader's segments while it is between two of them.
LEMMA BetweenSegments ==
  ASSUME IInv, sr.id = 0
  PROVE  /\ sr \in Reader /\ sr.maxID \in Nat /\ sr.maxID <= cur /\ sr.ids \subseteq 1 .. sr.maxID /\ cur \in Nat
         /\ \A i, j : behind(i, j) <=> \A x \in sr.ids : i < x
         /\ ~sr.listed => sr.ids = {}
<1>1. sr \in Reader /\ sr.maxID <= cur /\ sr.ids \subseteq 1 .. sr.maxID /\ (~sr.listed => sr.ids = {})
  BY DEF IInv, StreamInv, ReaderInv
<1>2. sr.maxID \in Nat
  BY <1>1 DEF Reader
<1>3. cur \in Nat
  BY SMTT(30) DEF IInv, PrimaryInv, PrimaryTypes, cur
<1>4. \A i, j : behind(i, j) <=> \A x \in sr.ids : i < x
  BY DEF behind
<1> QED
  BY <1>1, <1>2, <1>3, <1>4

\* The first listed segment is opened, or passed over.
LEMMA OpenSegmentInv ==
  ASSUME IInv, OpenSegment
  PROVE  StreamInv'
<1>1. PICK id : id = Min(sr.ids)
  OBVIOUS
<1>2. sr.id = 0 /\ sr.ids # {} /\ UNCHANGED <<segs, acked, wire>> /\ cur' = cur
  BY DEF OpenSegment, srOnly, primary, cur
<1>3. \/ id \in disk /\ sr' = [sr EXCEPT !.id = id, !.size = Len(segs[id]), !.offset = 0]
      \/ sr' = [sr EXCEPT !.ids = @ \ {id}]
  BY <1>1 DEF OpenSegment
<1>4. /\ sr \in Reader /\ sr.maxID \in Nat /\ sr.maxID <= cur /\ sr.ids \subseteq 1 .. sr.maxID /\ cur \in Nat
      /\ \A i, j : behind(i, j) <=> \A x \in sr.ids : i < x
      /\ sr.listed
  BY <1>2, BetweenSegments DEF Reader
<1>5. id \in sr.ids /\ \A x \in sr.ids : id <= x
  <2>1. sr.ids \subseteq Nat
    BY SMTT(30), <1>4
  <2> QED
    BY <1>1, <1>2, <2>1, MinOf
<1>6. id \in 1 .. cur /\ Len(segs[id]) \in Nat
  <2>1. id \in 1 .. cur
    BY SMTT(30), <1>4, <1>5
  <2> QED
    BY SMTT(30), <2>1 DEF IInv, PrimaryInv, PrimaryTypes, cur
<1>7. CASE id \in disk /\ sr' = [sr EXCEPT !.id = id, !.size = Len(segs[id]), !.offset = 0]
  <2>1. sr' \in Reader
    <3>1. PICK l \in Nat : l = Len(segs[id])
      BY <1>6
    <3>2. id \in Nat /\ sr' = [sr EXCEPT !.id = id, !.size = l, !.offset = 0]
      BY SMTT(30), <1>4, <1>6, <1>7, <3>1
    <3> QED
      BY <1>4, <3>2 DEF Reader
  <2>2. /\ sr'.id = id /\ sr'.size = Len(segs[id]) /\ sr'.offset = 0 /\ sr'.ids = sr.ids /\ sr'.maxID = sr.maxID
        /\ sr'.listed = sr.listed /\ sr'.pend = sr.pend /\ sr'.emit = sr.emit
    BY <1>4, <1>7 DEF Reader
  <2>3. ReaderInv'
    BY SMTT(30), <1>2, <1>4, <1>5, <1>6, <2>1, <2>2 DEF ReaderInv
  <2>4. \A i, j : behind(i, j) => behind(i, j)'
    BY <1>4, <1>5, <1>6, <2>2 DEF behind
  <2>5. sr'.maxID >= sr.maxID
    BY SMTT(30), <1>4, <2>2
  <2> QED
    BY <1>2, <2>1, <2>2, <2>3, <2>4, <2>5, ReaderMoves DEF StreamInv
<1>8. CASE sr' = [sr EXCEPT !.ids = @ \ {id}]
  <2>1. sr' \in Reader
    BY <1>4, <1>8 DEF Reader
  <2>2. /\ sr'.id = 0 /\ sr'.ids = sr.ids \ {id} /\ sr'.maxID = sr.maxID
        /\ sr'.listed = sr.listed /\ sr'.pend = sr.pend /\ sr'.emit = sr.emit
    BY <1>2, <1>4, <1>8 DEF Reader
  <2>3. ReaderInv'
    BY <1>2, <1>4, <2>1, <2>2 DEF ReaderInv
  <2>4. \A i, j : behind(i, j) => behind(i, j)'
    BY <1>4, <2>2 DEF behind
  <2>5. sr'.maxID >= sr.maxID
    BY SMTT(30), <1>4, <2>2
  <2> QED
    BY <1>2, <2>1, <2>2, <2>3, <2>4, <2>5, ReaderMoves DEF StreamInv
<1> QED
  BY <1>3, <1>7, <1>8

\* Segments that came after the last listing.
LEMMA RelistInv ==
  ASSUME IInv, Relist
  PROVE  StreamInv'
<1>1. PICK new, old, c : new = {id \in disk : id > sr.maxID} /\ old = sr.maxID /\ c = cur
  OBVIOUS
<1>2. PICK mx : mx = Max(new)
  OBVIOUS
<1>3. sr.id = 0 /\ sr.listed /\ sr.ids = {} /\ new # {} /\ sr' = [sr EXCEPT !.ids = new, !.maxID = mx]
      /\ UNCHANGED <<segs, acked, wire>> /\ cur' = cur
  BY <1>1, <1>2 DEF Relist, listSegmentIDs, srOnly, primary, cur
<1>4. sr \in Reader /\ old \in Nat /\ c \in Nat
  BY <1>1, <1>3, BetweenSegments
<1>5. disk \subseteq 1 .. c /\ c \in disk
  BY <1>1 DEF IInv, PrimaryInv, PrimaryTypes
<1>6. mx = c /\ old <= c /\ new \subseteq 1 .. c /\ \A x \in new : x > old
  <2>1. \A x : x \in new <=> x \in disk /\ x > old
    BY <1>1
  <2>2. c \in new /\ old <= c
    <3>1. PICK x \in new : TRUE
      BY <1>3
    <3>2. x \in 1 .. c /\ x > old
      BY <1>5, <2>1
    <3> QED
      BY SMTT(30), <1>4, <1>5, <2>1, <3>2
  <2>3. new \subseteq 1 .. c /\ new \subseteq 0 .. c
    <3>1. \A x \in new : x \in 1 .. c
      BY <1>5, <2>1
    <3> QED
      BY SMTT(30), <1>4, <3>1
  <2>4. Max(new) = c
    BY <1>4, <2>2, <2>3, MaxOf
  <2> QED
    BY <1>2, <2>1, <2>2, <2>3, <2>4
<1>7. sr' \in Reader
  <2>1. new \in SUBSET Nat /\ mx \in Nat
    BY SMTT(30), <1>4, <1>6
  <2> QED
    BY <1>3, <1>4, <2>1 DEF Reader
<1>8. sr'.id = 0 /\ sr'.ids = new /\ sr'.maxID = c /\ sr'.listed /\ sr'.pend = sr.pend /\ sr'.emit = sr.emit
  BY <1>3, <1>4, <1>6 DEF Reader
<1>9. ReaderInv'
  BY SMTT(30), <1>1, <1>3, <1>4, <1>6, <1>7, <1>8 DEF ReaderInv
<1>10. \A i \in 1 .. sr.maxID : \A j : behind(i, j)'
  <2>1. \A i \in 1 .. old : \A x \in new : i < x
    BY SMTT(30), <1>4, <1>6
  <2> QED
    BY <1>1, <1>8, <2>1 DEF behind
<1>11. sr'.maxID >= sr.maxID
  BY <1>1, <1>4, <1>6, <1>8
<1> QED
  BY <1>3, <1>7, <1>8, <1>9, <1>10, <1>11, ReaderMoves DEF StreamInv

\* The reader inside a segment.
LEMMA InSegment ==
  ASSUME IInv, sr.id # 0
  PROVE  /\ sr \in Reader /\ sr.maxID \in Nat /\ sr.maxID <= cur /\ sr.ids \subseteq 1 .. sr.maxID /\ cur \in Nat
         /\ sr.id \in sr.ids /\ (\A x \in sr.ids : sr.id <= x) /\ sr.listed
         /\ \A i, j : behind(i, j) <=> i < sr.id \/ (i = sr.id /\ j <= sr.offset)
         /\ sr.size <= Len(segs[sr.id])
<1>1. /\ sr \in Reader /\ sr.maxID <= cur /\ sr.ids \subseteq 1 .. sr.maxID
      /\ sr.id \in sr.ids /\ (\A x \in sr.ids : sr.id <= x) /\ sr.size <= Len(segs[sr.id])
      /\ ~sr.listed => sr.id = 0
  BY DEF IInv, StreamInv, ReaderInv
<1>2. sr.maxID \in Nat /\ sr.listed
  BY <1>1 DEF Reader
<1>3. cur \in Nat
  BY SMTT(30) DEF IInv, PrimaryInv, PrimaryTypes, cur
<1>4. \A i, j : behind(i, j) <=> i < sr.id \/ (i = sr.id /\ j <= sr.offset)
  BY DEF behind
<1> QED
  BY <1>1, <1>2, <1>3, <1>4

\* A closed segment is left at its end.
LEMMA advanceInv ==
  ASSUME IInv, advance
  PROVE  StreamInv'
<1>1. /\ sr.id # 0 /\ sr' = [sr EXCEPT !.id = 0, !.size = 0, !.offset = 0, !.ids = @ \ {sr.id}]
      /\ UNCHANGED <<segs, acked, wire>> /\ cur' = cur
  BY DEF advance, atFile, srOnly, primary, cur
<1>2. /\ sr \in Reader /\ sr.maxID \in Nat /\ sr.maxID <= cur /\ sr.ids \subseteq 1 .. sr.maxID /\ cur \in Nat
      /\ sr.id \in sr.ids /\ (\A x \in sr.ids : sr.id <= x) /\ sr.listed
      /\ \A i, j : behind(i, j) <=> i < sr.id \/ (i = sr.id /\ j <= sr.offset)
  BY <1>1, InSegment
<1>3. sr' \in Reader
  BY <1>1, <1>2 DEF Reader
<1>4. /\ sr'.id = 0 /\ sr'.ids = sr.ids \ {sr.id} /\ sr'.maxID = sr.maxID
      /\ sr'.listed = sr.listed /\ sr'.pend = sr.pend /\ sr'.emit = sr.emit
  BY <1>1, <1>2 DEF Reader
<1>5. ReaderInv'
  BY <1>1, <1>2, <1>3, <1>4 DEF ReaderInv
<1>6. \A i \in 1 .. sr.maxID : \A j : behind(i, j) => behind(i, j)'
  BY SMTT(30), <1>2, <1>4 DEF behind
<1>7. sr'.maxID >= sr.maxID
  BY SMTT(30), <1>2, <1>4
<1> QED
  BY <1>1, <1>3, <1>4, <1>5, <1>6, <1>7, ReaderMoves DEF StreamInv

\* A frame is read; with a commit, what was held back goes out, and all of it
\* is synced.
LEMMA readFrameInv ==
  ASSUME IInv, readFrame
  PROVE  StreamInv'
<1>1. PICK id, o, p, f : id = sr.id /\ o = sr.offset /\ p = sr.pend /\ f = segs[id][o + 1]
  OBVIOUS
<1>2. PICK p2 : p2 = IF f.n = 0 THEN Append(p, f) ELSE <<>>
  OBVIOUS
<1>3. PICK e2 : e2 = IF f.n > 0 /\ Len(p) = f.n THEN Append(p, f) ELSE <<>>
  OBVIOUS
<1>4. /\ id # 0 /\ o < durableLimit /\ sr' = [sr EXCEPT !.offset = o + 1, !.pend = p2, !.emit = e2]
      /\ UNCHANGED <<segs, acked, wire>> /\ cur' = cur
  BY <1>1, <1>2, <1>3 DEF readFrame, frameAt, atFile, srOnly, primary, cur
<1>5. /\ sr \in Reader /\ sr.maxID \in Nat /\ sr.maxID <= cur /\ sr.ids \subseteq 1 .. sr.maxID /\ cur \in Nat
      /\ id \in sr.ids /\ (\A x \in sr.ids : id <= x) /\ sr.listed
      /\ \A i, j : behind(i, j) <=> i < id \/ (i = id /\ j <= o)
      /\ sr.size <= Len(segs[id])
  BY <1>1, <1>4, InSegment
<1>6. id \in 1 .. sr.maxID /\ id \in 1 .. cur /\ o \in Nat /\ p \in Seq(Frame) /\ sr.size \in Nat
  BY SMTT(30), <1>1, <1>5 DEF Reader
<1>7. segs[id] \in Seq(Frame) /\ (id = cur => synced \in 0 .. Len(segs[id]))
  BY SMTT(30), <1>6 DEF IInv, PrimaryInv, PrimaryTypes, cur
<1>8. o + 1 \in DOMAIN segs[id] /\ (id < cur \/ o + 1 <= synced)
  <2>1. PICK l \in Nat : l = Len(segs[id]) /\ DOMAIN segs[id] = 1 .. l
    BY SMTT(30), <1>7
  <2>2. CASE id = cur
    <3>1. o < synced /\ synced \in 0 .. l
      BY <1>1, <1>4, <1>7, <2>1, <2>2 DEF durableLimit
    <3> QED
      BY SMTT(30), <1>6, <2>1, <3>1
  <2>3. CASE id # cur
    <3>1. o < sr.size /\ sr.size <= l
      BY <1>1, <1>4, <1>5, <2>1, <2>3 DEF durableLimit
    <3>2. id < cur
      BY SMTT(30), <1>5, <1>6, <2>3
    <3> QED
      BY SMTT(30), <1>6, <2>1, <3>1, <3>2
  <2> QED
    BY <2>2, <2>3
<1>9. f \in Frame /\ f.n \in Nat
  <2>1. \A x \in DOMAIN segs[id] : segs[id][x] \in Frame
    BY SMTT(30), <1>7
  <2>2. f \in Frame
    BY <1>1, <1>8, <2>1
  <2> QED
    BY <2>2 DEF Frame
<1>10. p2 \in Seq(Frame) /\ e2 \in Seq(Frame)
  <2>1. Append(p, f) \in Seq(Frame) /\ <<>> \in Seq(Frame)
    BY SMTT(30), <1>6, <1>9
  <2> QED
    BY <1>2, <1>3, <2>1
<1>11. sr' \in Reader
  <2>1. o + 1 \in Nat /\ sr' = [sr EXCEPT !.offset = o + 1, !.pend = p2, !.emit = e2] /\ sr \in Reader
    BY SMTT(30), <1>4, <1>5, <1>6
  <2> QED
    BY <1>10, <2>1 DEF Reader
<1>12. /\ sr'.id = id /\ sr'.ids = sr.ids /\ sr'.maxID = sr.maxID /\ sr'.listed /\ sr'.size = sr.size
       /\ sr'.offset = o + 1 /\ sr'.pend = p2 /\ sr'.emit = e2
  BY <1>1, <1>4, <1>5 DEF Reader
<1>13. ReaderInv'
  BY <1>4, <1>5, <1>11, <1>12 DEF ReaderInv
<1>14. \A i, j : behind(i, j)' <=> i < id \/ (i = id /\ j <= o + 1)
  BY <1>4, <1>12 DEF behind
<1>15. ASSUME NEW k \in DOMAIN p
       PROVE  /\ p[k].n = 0
              /\ \E i \in 1 .. sr.maxID : \E j \in DOMAIN segs[i] : segs[i][j] = p[k] /\ (i < id \/ (i = id /\ j <= o))
  BY <1>1, <1>5 DEF IInv, StreamInv, PendInv
<1>16. PendInv'
  <2> SUFFICES ASSUME NEW k \in DOMAIN p2
               PROVE  /\ p2[k].n = 0
                      /\ \E i \in 1 .. sr.maxID : \E j \in DOMAIN segs[i] : segs[i][j] = p2[k] /\ behind(i, j)'
    BY SMTT(30), <1>4, <1>12 DEF PendInv
  <2>1. f.n = 0 /\ p2 = Append(p, f)
    BY SMTT(30), <1>2
  <2>2. CASE k \in DOMAIN p
    <3>1. p2[k] = p[k]
      BY SMTT(30), <1>6, <2>1, <2>2
    <3>2. PICK i \in 1 .. sr.maxID : \E j \in DOMAIN segs[i] : segs[i][j] = p[k] /\ (i < id \/ (i = id /\ j <= o))
      BY <1>15, <2>2
    <3>3. PICK j \in DOMAIN segs[i] : segs[i][j] = p[k] /\ (i < id \/ (i = id /\ j <= o))
      BY <3>2
    <3>4. i = id => j \in Nat
      BY SMTT(30), <1>7
    <3>5. behind(i, j)'
      BY SMTT(30), <1>6, <1>14, <3>3, <3>4
    <3> QED
      BY <1>15, <2>2, <3>1, <3>3, <3>5
  <2>3. CASE k \notin DOMAIN p
    <3>1. p2[k] = f
      BY SMTT(30), <1>6, <1>9, <2>1, <2>3
    <3>2. behind(id, o + 1)'
      BY SMTT(30), <1>6, <1>14
    <3> QED
      BY <1>1, <1>6, <1>8, <2>1, <3>1, <3>2
  <2> QED
    BY <2>2, <2>3
<1>17. synchronous(e2)
  <2> SUFFICES ASSUME NEW k \in DOMAIN e2, e2[k].n = 0
               PROVE  e2[k].lsn \in acked
    BY DEF synchronous
  <2>1. f.n > 0 /\ e2 = Append(p, f)
    BY SMTT(30), <1>3
  <2>2. k \in DOMAIN p /\ e2[k] = p[k]
    BY SMTT(30), <1>6, <1>9, <2>1
  <2>3. clean(id, o + 1)
    BY <1>1, <1>6, <1>8, <2>1 DEF IInv, PrimaryInv, CommitsClean
  <2>4. PICK i \in 1 .. sr.maxID : \E j \in DOMAIN segs[i] : segs[i][j] = p[k] /\ (i < id \/ (i = id /\ j <= o))
    BY <1>15, <2>2
  <2>5. PICK j \in DOMAIN segs[i] : segs[i][j] = p[k] /\ (i < id \/ (i = id /\ j <= o))
    BY <2>4
  <2>6. i = id => j \in Nat
    BY SMTT(30), <1>7
  <2>7. i \in 1 .. id /\ (i < id \/ j <= o + 1)
    BY SMTT(30), <1>6, <2>5, <2>6
  <2> QED
    BY <2>2, <2>3, <2>5, <2>7 DEF clean
<1>18. SentInv'
  BY SMTT(30), <1>4, <1>12, <1>17 DEF IInv, StreamInv, SentInv, synchronous
<1> QED
  BY <1>13, <1>16, <1>18 DEF StreamInv

\* The server writes what the reader returned.
LEMMA writeFrameInv ==
  ASSUME IInv, writeFrame
  PROVE  StreamInv'
<1>1. PICK e, w : e = sr.emit /\ w = wire
  OBVIOUS
<1>2. /\ e # <<>> /\ wire' = Append(w, Head(e)) /\ sr' = [sr EXCEPT !.emit = Tail(e)]
      /\ UNCHANGED <<segs, acked>> /\ cur' = cur
  BY <1>1 DEF writeFrame, primary, cur
<1>3. sr \in Reader /\ e \in Seq(Frame) /\ w \in Seq(Frame) /\ synchronous(e) /\ synchronous(w)
  BY <1>1 DEF IInv, StreamInv, ReaderInv, SentInv, Reader
<1>4. Tail(e) \in Seq(Frame) /\ Head(e) \in Frame /\ Append(w, Head(e)) \in Seq(Frame)
  BY SMTT(30), <1>2, <1>3
<1>5. sr' \in Reader
  BY <1>2, <1>3, <1>4 DEF Reader
<1>6. /\ sr'.id = sr.id /\ sr'.ids = sr.ids /\ sr'.maxID = sr.maxID /\ sr'.listed = sr.listed /\ sr'.size = sr.size
      /\ sr'.offset = sr.offset /\ sr'.pend = sr.pend /\ sr'.emit = Tail(e)
  BY <1>2, <1>3 DEF Reader
<1>7. ReaderInv'
  BY <1>2, <1>5, <1>6 DEF IInv, StreamInv, ReaderInv
<1>8. PendInv'
  BY SMTT(30), <1>2, <1>6 DEF IInv, StreamInv, PendInv, behind
<1>9. synchronous(Tail(e))
  <2> SUFFICES ASSUME NEW k \in DOMAIN Tail(e), Tail(e)[k].n = 0
               PROVE  Tail(e)[k].lsn \in acked
    BY DEF synchronous
  <2>1. k + 1 \in DOMAIN e /\ Tail(e)[k] = e[k + 1]
    BY SMTT(30), <1>2, <1>3
  <2> QED
    BY <1>3, <2>1 DEF synchronous
<1>10. synchronous(Append(w, Head(e)))
  <2>1. PICK h : h = Head(e)
    OBVIOUS
  <2>2. h \in Frame /\ (h.n = 0 => h.lsn \in acked)
    <3>1. 1 \in DOMAIN e /\ h = e[1]
      BY SMTT(30), <1>2, <1>3, <2>1
    <3> QED
      BY <1>3, <1>4, <2>1, <3>1 DEF synchronous
  <2> SUFFICES ASSUME NEW k \in DOMAIN Append(w, h), Append(w, h)[k].n = 0
               PROVE  Append(w, h)[k].lsn \in acked
    BY <2>1 DEF synchronous
  <2>3. (k \in DOMAIN w /\ Append(w, h)[k] = w[k]) \/ Append(w, h)[k] = h
    BY SMTT(30), <1>3, <2>2
  <2> QED
    BY <1>3, <2>2, <2>3 DEF synchronous
<1>11. SentInv'
  <2>1. wire' \in Seq(Frame) /\ acked' = acked
    BY <1>2, <1>4
  <2> QED
    BY <1>2, <1>6, <1>9, <1>10, <2>1 DEF SentInv, synchronous
<1> QED
  BY <1>7, <1>8, <1>11 DEF StreamInv

-----------------------------------------------------------------------------
(* Steps of the follower *)

\* They leave the primary alone.
LEMMA PrimarySame ==
  ASSUME PrimaryInv, UNCHANGED primary
  PROVE  PrimaryInv'
<1>1. UNCHANGED <<segs, disk, synced, currentLSN, todo, ppc, acked>> /\ cur' = cur
  BY DEF primary, cur
<1>2. PrimaryTypes' /\ WriterInv'
  BY <1>1 DEF PrimaryInv, PrimaryTypes, WriterInv, clean
<1>3. CommitsClean' /\ AckedWritten'
  BY SMTT(30), <1>1 DEF PrimaryInv, CommitsClean, AckedWritten, clean
<1> QED
  BY <1>2, <1>3 DEF PrimaryInv

\* A new connection starts with a new reader and an empty wire.
LEMMA StreamFresh ==
  ASSUME IInv, UNCHANGED primary, NEW n \in Nat, sr' = NewStreamReader(n), wire' \in {<<>>, wire}
  PROVE  StreamInv'
<1>1. UNCHANGED <<segs, acked>> /\ cur' = cur /\ cur \in Nat
  BY SMTT(30) DEF primary, cur, IInv, PrimaryInv, PrimaryTypes
<1>2. sr' = [fromLSN |-> n, listed |-> FALSE, ids |-> {}, maxID |-> 0,
             id |-> 0, size |-> 0, offset |-> 0, pend |-> <<>>, emit |-> <<>>]
  BY DEF NewStreamReader
<1>3. sr' \in Reader
  BY SMTT(30), <1>2 DEF Reader
<1>4. sr'.ids = {} /\ sr'.maxID = 0 /\ sr'.id = 0 /\ sr'.pend = <<>> /\ sr'.emit = <<>>
  BY SMTT(30), <1>2
<1>5. ReaderInv' /\ PendInv'
  BY SMTT(30), <1>1, <1>3, <1>4 DEF ReaderInv, PendInv
<1>6. wire' \in Seq(Frame) /\ synchronous(wire')
  <2>1. <<>> \in Seq(Frame) /\ synchronous(<<>>)
    BY SMTT(30) DEF synchronous
  <2>2. wire \in Seq(Frame) /\ synchronous(wire)
    BY DEF IInv, StreamInv, SentInv
  <2>3. CASE wire' = <<>>
    BY <2>1, <2>3
  <2>4. CASE wire' = wire
    BY <2>2, <2>4
  <2> QED
    BY <2>3, <2>4
<1>7. SentInv'
  BY SMTT(30), <1>1, <1>4, <1>6 DEF SentInv, synchronous
<1> QED
  BY <1>5, <1>7 DEF StreamInv

\* The follower takes the first frame.
LEMMA StreamReceived ==
  ASSUME IInv, UNCHANGED <<primary, sr>>, wire # <<>>, wire' = Tail(wire)
  PROVE  /\ StreamInv' /\ Head(wire) \in Frame
         /\ Head(wire).n = 0 => Head(wire).lsn \in acked
<1>1. PICK w : w = wire
  OBVIOUS
<1>2. w \in Seq(Frame) /\ w # <<>> /\ synchronous(w)
  BY <1>1 DEF IInv, StreamInv, SentInv
<1>3. Tail(w) \in Seq(Frame) /\ Head(w) \in Frame /\ 1 \in DOMAIN w /\ Head(w) = w[1]
  BY SMTT(30), <1>2
<1>4. synchronous(Tail(w))
  <2> SUFFICES ASSUME NEW k \in DOMAIN Tail(w), Tail(w)[k].n = 0
               PROVE  Tail(w)[k].lsn \in acked
    BY DEF synchronous
  <2>1. k + 1 \in DOMAIN w /\ Tail(w)[k] = w[k + 1]
    BY SMTT(30), <1>2
  <2> QED
    BY <1>2, <2>1 DEF synchronous
<1>5. UNCHANGED <<segs, acked>> /\ cur' = cur
  BY DEF primary, cur
<1>6. ReaderInv' /\ PendInv'
  BY SMTT(30), <1>5 DEF IInv, StreamInv, ReaderInv, PendInv, behind
<1>7. SentInv'
  BY <1>1, <1>3, <1>4, <1>5 DEF IInv, StreamInv, SentInv, synchronous
<1> QED
  BY <1>1, <1>2, <1>3, <1>6, <1>7 DEF StreamInv, synchronous

\* What a replay of the local WAL applies.
LEMMA RecsOf ==
  ASSUME NEW w \in Seq(Stored)
  PROVE  recs(w) \in Seq(Nat) /\ DOMAIN recs(w) = DOMAIN w /\ \A k \in DOMAIN w : recs(w)[k] = w[k].rec
<1>1. \A k \in DOMAIN w : w[k].rec \in Nat
  <2>1. \A k \in DOMAIN w : w[k] \in Stored
    BY SMTT(30)
  <2> QED
    BY <2>1 DEF Stored
<1>2. recs(w) = [k \in 1 .. Len(w) |-> w[k].rec]
  BY SMTT(30) DEF recs
<1> QED
  BY SMTT(30), <1>1, <1>2

\* The parts of FollowerInv that a step with the same WAL and accounts keeps.
LEMMA WALSame ==
  ASSUME FollowerInv, UNCHANGED <<localWAL, applied, acked, torn>>
  PROVE  /\ local' = local /\ localSynced' = localSynced /\ local' \in Seq(Stored) /\ localLSN' \in Nat
         /\ localSynced' \in 0 .. Len(local') /\ applied' \in Seq(Nat) /\ OrderInv'
         /\ \A k \in DOMAIN local : local[k].rec \in acked'
         /\ \A k \in DOMAIN applied : applied[k] \in acked'
         /\ fpc # "promoted" => \A k \in DOMAIN applied : onDisk(applied[k], localSynced)'
  BY DEF FollowerInv, FollowerTypes, TakenInv, FlushInv, OrderInv, onDisk, localWAL

\* syncLoop has failed: the WAL's records are as they were, and the accounts are
\* some that the WAL covers.
LEMMA FailedInv ==
  ASSUME IInv, NEW w, NEW a \in Seq(Nat), NEW t \in BOOLEAN, failed(w, a, t), fpc # "promoted",
         w.frames = local, w.synced = localSynced, w.lsn \in Nat, localLSN <= w.lsn,
         \A k \in DOMAIN a : a[k] \in acked /\ onDisk(a[k], localSynced),
         ~torn /\ ~t => recs(local) = a
  PROVE  StreamInv' /\ FollowerInv'
<1>1. UNCHANGED primary /\ acked' = acked /\ fpc' = "dial" /\ hangUp
  BY DEF failed, primary
<1>2. StreamInv'
  BY <1>1, StreamFresh DEF hangUp
<1>3. pending' = <<>> /\ commit' = 0
  BY <1>1 DEF hangUp
<1>4. CASE tripped
  <2>1. /\ applied' = <<>> /\ lastLSN' = 0 /\ local' = <<>> /\ localLSN' = 0 /\ localSynced' = 0
        /\ gap' = FALSE /\ torn' = FALSE
    BY <1>4 DEF failed, fullResync, Reset
  <2>4. DOMAIN local' = {} /\ DOMAIN applied' = {} /\ DOMAIN pending' = {} /\ Len(local') = 0
    BY SMTT(30), <1>3, <2>1
  <2>7. local' \in Seq(Stored) /\ applied' \in Seq(Nat) /\ pending' \in Seq(Nat)
    BY SMTT(30), <1>3, <2>1
  <2>8. 0 \in Nat /\ 0 \in 0 .. 0
    BY SMTT(30)
  <2>2. FollowerTypes'
    BY <1>1, <1>3, <2>1, <2>4, <2>7, <2>8 DEF FollowerTypes
  <2>5. TakenInv' /\ OrderInv'
    BY <2>4 DEF TakenInv, OrderInv
  <2>6. FlushInv'
    BY <1>1, <2>1, <2>4 DEF FlushInv
  <2>3. SameInv'
    BY SMTT(30), <1>1, <2>1 DEF SameInv, recs
  <2> QED
    BY <1>2, <2>2, <2>3, <2>5, <2>6 DEF FollowerInv
<1>5. CASE ~tripped
  <2>1. /\ lastLSN' = lastLSN /\ applied' = a /\ local' = local /\ localLSN' = w.lsn /\ localSynced' = localSynced
        /\ gap' = gap /\ torn' = (torn \/ t)
    BY <1>5 DEF failed
  <2>2. FollowerTypes'
    BY SMTT(30), <1>1, <1>3, <2>1 DEF IInv, FollowerInv, FollowerTypes
  <2>3. TakenInv'
    BY SMTT(30), <1>1, <1>3, <2>1 DEF IInv, FollowerInv, TakenInv
  <2>4. FlushInv'
    BY <1>1, <2>1 DEF FlushInv, onDisk
  <2>5. SameInv'
    BY <1>1, <2>1 DEF SameInv, recs
  <2>6. OrderInv'
    <3>1. \A k \in DOMAIN local : local[k] \in Stored
      BY SMTT(30) DEF IInv, FollowerInv, FollowerTypes
    <3>2. \A k \in DOMAIN local : local[k].lsn \in Nat /\ local[k].lsn <= localLSN
      BY <3>1 DEF IInv, FollowerInv, OrderInv, Stored
    <3>3. \A k \in DOMAIN local : local[k].lsn <= w.lsn
      BY SMTT(30), <3>2 DEF IInv, FollowerInv, FollowerTypes
    <3> QED
      BY <2>1, <3>3 DEF IInv, FollowerInv, OrderInv
  <2> QED
    BY <1>2, <2>2, <2>3, <2>4, <2>5, <2>6 DEF FollowerInv
<1> QED
  BY <1>4, <1>5

\* A failed dial, a term that cannot be stored, a broken connection.
LEMMA LinkFailedInv ==
  ASSUME IInv, NEW t \in BOOLEAN, failed(theWAL, applied, t), fpc \in {"dial", "stream"}
  PROVE  StreamInv' /\ FollowerInv'
<1>1. PICK w, a : w = theWAL /\ a = applied
  OBVIOUS
<1>2. w.frames = local /\ w.synced = localSynced /\ w.lsn = localLSN
  BY <1>1 DEF theWAL
<1>3. a \in Seq(Nat) /\ localLSN \in Nat
  BY <1>1 DEF IInv, FollowerInv, FollowerTypes
<1>4. w.lsn \in Nat /\ localLSN <= w.lsn
  BY SMTT(30), <1>2, <1>3
<1>5. \A k \in DOMAIN a : a[k] \in acked /\ onDisk(a[k], localSynced)
  BY <1>1 DEF IInv, FollowerInv, TakenInv, FlushInv
<1>6. ~torn /\ ~t => recs(local) = a
  BY <1>1 DEF IInv, FollowerInv, SameInv
<1>7. failed(w, a, t) /\ fpc # "promoted"
  BY <1>1
<1> QED
  BY <1>2, <1>3, <1>4, <1>5, <1>6, <1>7, FailedInv

\* One flush that fails: before anything is in the WAL, or with records in it
\* that the accounts have in part.
LEMMA flushFailInv ==
  ASSUME IInv, flushFail
  PROVE  StreamInv' /\ FollowerInv'
<1>1. /\ applied \in Seq(Nat) /\ pending \in Seq(Nat) /\ localLSN \in Nat
      /\ \A k \in DOMAIN applied : applied[k] \in acked
      /\ \A k \in DOMAIN pending : pending[k] \in acked
  BY DEF IInv, FollowerInv, FollowerTypes, TakenInv
<1>2. theWAL.frames = local /\ theWAL.synced = localSynced /\ theWAL.lsn = localLSN
  BY DEF theWAL
<1>3. CASE fpc = "flush" /\ failed([theWAL EXCEPT !.lsn = appended.lsn], applied, TRUE)
  <2>1. PICK w : w = [theWAL EXCEPT !.lsn = appended.lsn]
    OBVIOUS
  <2>2. w.frames = local /\ w.synced = localSynced /\ w.lsn = localLSN + Len(pending) + 1
    BY <2>1 DEF theWAL, appended
  <2>3. w.lsn \in Nat /\ localLSN <= w.lsn
    <3>1. Len(pending) \in Nat
      BY SMTT(30), <1>1
    <3> QED
      BY SMTT(30), <1>1, <2>2, <3>1
  <2>4. \A k \in DOMAIN applied : applied[k] \in acked /\ onDisk(applied[k], localSynced)
    BY <1>1, <1>3 DEF IInv, FollowerInv, FlushInv
  <2>5. failed(w, applied, TRUE) /\ fpc # "promoted"
    BY <1>3, <2>1
  <2> QED
    BY <1>1, <2>2, <2>3, <2>4, <2>5, FailedInv
<1>4. CASE fpc = "sync" /\ failed(theWAL, applied, TRUE)
  <2>1. PICK w : w = theWAL
    OBVIOUS
  <2>2. w.frames = local /\ w.synced = localSynced /\ w.lsn \in Nat /\ localLSN <= w.lsn
    BY SMTT(30), <1>1, <1>2, <2>1
  <2>3. \A k \in DOMAIN applied : applied[k] \in acked /\ onDisk(applied[k], localSynced)
    BY <1>1, <1>4 DEF IInv, FollowerInv, FlushInv
  <2>4. failed(w, applied, TRUE) /\ fpc # "promoted"
    BY <1>4, <2>1
  <2> QED
    BY <1>1, <2>2, <2>3, <2>4, FailedInv
<1>5. CASE fpc = "apply" /\ \E k \in 0 .. Len(pending) - 1 : failed(theWAL, applied \o SubSeq(pending, 1, k), TRUE)
  <2>1. PICK k \in 0 .. Len(pending) - 1 : failed(theWAL, applied \o SubSeq(pending, 1, k), TRUE)
    BY <1>5
  <2>2. PICK w, p, a : w = theWAL /\ p = SubSeq(pending, 1, k) /\ a = applied \o p
    OBVIOUS
  <2>3. w.frames = local /\ w.synced = localSynced /\ w.lsn \in Nat /\ localLSN <= w.lsn
    <3>1. w.frames = local /\ w.synced = localSynced /\ w.lsn = localLSN /\ localLSN \in Nat
      BY <1>1, <1>2, <2>2
    <3>2. PICK n \in Nat : n = localLSN
      BY <3>1
    <3>3. n <= n
      BY SMTT(30)
    <3> QED
      BY <3>1, <3>2, <3>3
  <2>4. p \in Seq(Nat) /\ Len(p) = k /\ \A j \in 1 .. k : p[j] = pending[j] /\ j \in DOMAIN pending
    BY SMTT(30), <1>1, <2>2
  <2>5. /\ \A j \in DOMAIN applied : applied[j] \in acked /\ onDisk(applied[j], localSynced)
        /\ \A j \in DOMAIN pending : pending[j] \in acked /\ onDisk(pending[j], localSynced)
    BY <1>1, <1>5 DEF IInv, FollowerInv, FlushInv
  <2>6. a \in Seq(Nat) /\ \A j \in DOMAIN a : a[j] \in acked /\ onDisk(a[j], localSynced)
    <3>1. PICK x, l : x = applied /\ l = Len(x)
      OBVIOUS
    <3>2. x \in Seq(Nat) /\ p \in Seq(Nat) /\ a = x \o p /\ k = Len(p)
      BY <1>1, <2>2, <2>4, <3>1
    <3>3. /\ a \in Seq(Nat) /\ l \in Nat /\ k \in Nat /\ DOMAIN x = 1 .. l /\ DOMAIN a = 1 .. l + k
          /\ \A j \in 1 .. l : a[j] = x[j]
          /\ \A j \in l + 1 .. l + k : a[j] = p[j - l]
      BY SMTT(30), <3>1, <3>2, ConcatParts
    <3>4. \A j \in l + 1 .. l + k : j - l \in 1 .. k
      BY SMTT(30), <3>3
    <3>5. \A j \in 1 .. l + k : j \in 1 .. l \/ j \in l + 1 .. l + k
      BY SMTT(30), <3>3
    <3>6. \A j \in 1 .. l : a[j] \in acked /\ onDisk(a[j], localSynced)
      BY <2>5, <3>1, <3>3
    <3>7. \A j \in l + 1 .. l + k : a[j] \in acked /\ onDisk(a[j], localSynced)
      <4> SUFFICES ASSUME NEW j \in l + 1 .. l + k
                   PROVE  a[j] \in acked /\ onDisk(a[j], localSynced)
        OBVIOUS
      <4>1. PICK i \in DOMAIN pending : a[j] = pending[i]
        BY <2>4, <3>3, <3>4
      <4> QED
        BY <2>5, <4>1
    <3>8. a \in Seq(Nat) /\ DOMAIN a = 1 .. l + k
      BY <3>3
    <3> QED
      BY <3>5, <3>6, <3>7, <3>8
  <2>7. failed(w, a, TRUE) /\ fpc # "promoted"
    BY <1>5, <2>1, <2>2
  <2> QED
    BY <2>3, <2>6, <2>7, FailedInv
<1> QED
  BY <1>3, <1>4, <1>5 DEF flushFail

\* A restart replays the local WAL, all of which is on disk.
LEMMA recoverLocalStateInv ==
  ASSUME IInv, recoverLocalState
  PROVE  StreamInv' /\ FollowerInv'
<1>1. UNCHANGED <<primary, sr, wire, pending, commit, localWAL, gap, torn>> /\ acked' = acked /\ fpc = "down"
  BY DEF recoverLocalState, primary
<1>2. StreamInv'
  <2>1. UNCHANGED <<segs, acked>> /\ cur' = cur
    BY <1>1 DEF primary, cur
  <2> QED
    BY SMTT(30), <1>1, <2>1 DEF IInv, StreamInv, ReaderInv, PendInv, SentInv, behind, synchronous
<1>3. /\ local' = local /\ localLSN' = localLSN /\ localSynced' = localSynced /\ local \in Seq(Stored)
      /\ localSynced = Len(local) /\ applied = <<>> /\ DOMAIN local = 1 .. Len(local)
  BY SMTT(30), <1>1 DEF localWAL, IInv, FollowerInv, FollowerTypes, FlushInv
<1>4. /\ recs(local) \in Seq(Nat) /\ DOMAIN recs(local) = DOMAIN local
      /\ \A k \in DOMAIN local : recs(local)[k] = local[k].rec
  BY <1>3, RecsOf
<1>5. OrderInv'
  BY <1>3 DEF IInv, FollowerInv, OrderInv
<1>6. CASE /\ fpc' = "dial" /\ applied' = recs(local)
           /\ lastLSN' = IF local = <<>> THEN 0 ELSE local[Len(local)].lsn + 1
  <2>1. lastLSN' \in Nat
    <3>1. CASE local = <<>>
      BY <1>6, <3>1
    <3>2. CASE local # <<>>
      <4>1. local[Len(local)] \in Stored
        BY SMTT(30), <1>3, <3>2
      <4>2. local[Len(local)].lsn \in Nat
        BY <4>1 DEF Stored
      <4> QED
        BY SMTT(30), <1>6, <3>2, <4>2
    <3> QED
      BY <3>1, <3>2
  <2>2. FollowerTypes'
    BY <1>1, <1>3, <1>4, <1>6, <2>1 DEF IInv, FollowerInv, FollowerTypes
  <2>3. TakenInv'
    BY <1>1, <1>3, <1>4, <1>6 DEF IInv, FollowerInv, TakenInv
  <2>4. FlushInv'
    BY <1>3, <1>4, <1>6 DEF FlushInv, onDisk
  <2>5. SameInv'
    BY <1>3, <1>6 DEF SameInv, recs
  <2> QED
    BY <1>2, <1>5, <2>2, <2>3, <2>4, <2>5 DEF FollowerInv
<1>7. CASE fpc' = "stopped" /\ UNCHANGED <<applied, lastLSN>>
  <2>1. FollowerTypes' /\ TakenInv'
    BY <1>1, <1>3, <1>7 DEF IInv, FollowerInv, FollowerTypes, TakenInv
  <2>2. FlushInv' /\ SameInv'
    BY SMTT(30), <1>3, <1>7 DEF FlushInv, SameInv
  <2> QED
    BY <1>2, <1>5, <2>1, <2>2 DEF FollowerInv
<1> QED
  BY <1>6, <1>7 DEF recoverLocalState

\* A handshake, and frames that are only buffered or counted.
LEMMA TakesOn ==
  ASSUME IInv, UNCHANGED <<primary, localWAL, applied, torn>>, fpc \in {"dial", "stream"}, fpc' \in {"stream", "flush"},
         lastLSN' \in Nat, commit' \in Nat, gap' \in BOOLEAN, pending' \in Seq(Nat),
         \A k \in DOMAIN pending' : pending'[k] \in acked
  PROVE  FollowerInv'
<1>1. acked' = acked /\ FollowerInv
  BY DEF primary, IInv
<1>2. /\ local' = local /\ localSynced' = localSynced /\ local' \in Seq(Stored) /\ localLSN' \in Nat
      /\ localSynced' \in 0 .. Len(local') /\ applied' \in Seq(Nat) /\ OrderInv'
      /\ \A k \in DOMAIN local : local[k].rec \in acked'
      /\ \A k \in DOMAIN applied : applied[k] \in acked'
      /\ \A k \in DOMAIN applied : onDisk(applied[k], localSynced)'
  BY <1>1, WALSame
<1>3. FollowerTypes' /\ TakenInv'
  BY <1>1, <1>2 DEF FollowerInv, FollowerTypes, TakenInv
<1>4. FlushInv'
  BY <1>2 DEF FlushInv
<1>5. SameInv'
  BY <1>1, <1>2 DEF FollowerInv, SameInv, recs
<1> QED
  BY <1>2, <1>3, <1>4, <1>5 DEF FollowerInv

\* A handshake with a primary of term t.
LEMMA handshakeInv ==
  ASSUME IInv, NEW t, handshake(t)
  PROVE  StreamInv' /\ FollowerInv'
<1>1. /\ UNCHANGED <<primary, localWAL, applied, torn>> /\ fpc = "dial" /\ fpc' = "stream" /\ wire' = wire
      /\ lastLSN' = lastLSN /\ commit' = commit /\ gap' = gap /\ pending' = pending
      /\ sr' = NewStreamReader(lastLSN + 1)
  BY DEF handshake
<1>2. lastLSN + 1 \in Nat /\ lastLSN \in Nat /\ commit \in Nat /\ gap \in BOOLEAN /\ pending \in Seq(Nat)
      /\ \A k \in DOMAIN pending : pending[k] \in acked
  BY SMTT(30) DEF IInv, FollowerInv, FollowerTypes, TakenInv
<1>3. StreamInv'
  BY <1>1, <1>2, StreamFresh
<1>4. FollowerInv'
  BY <1>1, <1>2, TakesOn
<1> QED
  BY <1>3, <1>4

\* A record: skipped, or buffered, and then it is synced on the primary.
LEMMA receiveDataInv ==
  ASSUME IInv, receiveData
  PROVE  StreamInv' /\ FollowerInv'
<1>1. PICK f : f = Head(wire)
  OBVIOUS
<1>2. /\ UNCHANGED <<primary, sr, localWAL, applied, torn>> /\ fpc = "stream" /\ wire # <<>> /\ wire' = Tail(wire)
      /\ f.n = 0 /\ lastLSN' = lastLSN /\ commit' = commit
  BY <1>1 DEF receiveData, receiving, receivedOnly
<1>3. StreamInv' /\ f \in Frame /\ f.lsn \in acked
  BY <1>1, <1>2, StreamReceived
<1>4. /\ lastLSN \in Nat /\ commit \in Nat /\ gap \in BOOLEAN /\ pending \in Seq(Nat) /\ f.lsn \in Nat
      /\ \A k \in DOMAIN pending : pending[k] \in acked
  BY <1>3 DEF IInv, FollowerInv, FollowerTypes, TakenInv, Frame
<1>5. \/ fpc' = fpc /\ pending' = pending /\ gap' = gap
      \/ /\ pending' = Append(pending, f.lsn) /\ fpc' \in {"stream", "flush"}
         /\ gap' = (gap \/ missing(f.lsn))
  BY <1>1 DEF receiveData
<1>6. gap' \in BOOLEAN /\ fpc' \in {"stream", "flush"}
  BY <1>2, <1>4, <1>5
<1>7. pending' \in Seq(Nat) /\ \A k \in DOMAIN pending' : pending'[k] \in acked
  <2>1. Append(pending, f.lsn) \in Seq(Nat)
    BY SMTT(30), <1>4
  <2>2. \A k \in DOMAIN Append(pending, f.lsn) : Append(pending, f.lsn)[k] \in acked
    <3> SUFFICES ASSUME NEW k \in DOMAIN Append(pending, f.lsn)
                 PROVE  Append(pending, f.lsn)[k] \in acked
      OBVIOUS
    <3>1. (k \in DOMAIN pending /\ Append(pending, f.lsn)[k] = pending[k]) \/ Append(pending, f.lsn)[k] = f.lsn
      BY SMTT(30), <1>4
    <3> QED
      BY <1>3, <1>4, <3>1
  <2> QED
    BY <1>4, <1>5, <2>1, <2>2
<1>8. FollowerInv'
  BY <1>2, <1>4, <1>6, <1>7, TakesOn
<1> QED
  BY <1>3, <1>8

\* A commit: with nothing buffered only the position moves.
LEMMA receiveCommitInv ==
  ASSUME IInv, receiveCommit
  PROVE  StreamInv' /\ FollowerInv'
<1>1. PICK f : f = Head(wire)
  OBVIOUS
<1>2. /\ UNCHANGED <<primary, sr, localWAL, applied, torn>> /\ fpc = "stream" /\ wire # <<>> /\ wire' = Tail(wire)
      /\ pending' = pending /\ gap' = gap
  BY DEF receiveCommit, receiving, receivedOnly
<1>3. StreamInv' /\ f \in Frame
  BY <1>1, <1>2, StreamReceived
<1>4. /\ lastLSN \in Nat /\ commit \in Nat /\ gap \in BOOLEAN /\ pending \in Seq(Nat) /\ f.lsn \in Nat
      /\ \A k \in DOMAIN pending : pending[k] \in acked
  BY <1>3 DEF IInv, FollowerInv, FollowerTypes, TakenInv, Frame
<1>5. \/ lastLSN' = Max({lastLSN, f.lsn}) /\ fpc' = fpc /\ commit' = commit
      \/ fpc' = "flush" /\ commit' = f.lsn /\ lastLSN' = lastLSN
  BY <1>1 DEF receiveCommit
<1>6. Max({lastLSN, f.lsn}) \in Nat
  BY <1>4, MinMaxTwo
<1>7. lastLSN' \in Nat /\ commit' \in Nat /\ fpc' \in {"stream", "flush"}
  BY <1>2, <1>4, <1>5, <1>6
<1>8. FollowerInv'
  BY <1>2, <1>4, <1>7, TakesOn
<1> QED
  BY <1>3, <1>8

\* The steps of a flush leave the stream alone.
LEMMA StreamSame ==
  ASSUME IInv, UNCHANGED <<primary, sr, wire>>
  PROVE  StreamInv' /\ acked' = acked
<1>1. UNCHANGED <<segs, acked>> /\ cur' = cur
  BY DEF primary, cur
<1> QED
  BY SMTT(30), <1>1 DEF IInv, StreamInv, ReaderInv, PendInv, SentInv, behind, synchronous

\* The records are appended behind what the WAL has, under LSNs above it.
LEMMA flushAppendInv ==
  ASSUME IInv, flushAppend
  PROVE  StreamInv' /\ FollowerInv'
<1>1. PICK p, l, n : p = pending /\ l = local /\ n = localLSN
  OBVIOUS
<1>2. PICK R : R = [i \in DOMAIN p |-> [rec |-> p[i], lsn |-> n + i]]
  OBVIOUS
<1>3. /\ fpc = "flush" /\ fpc' = "sync" /\ local' = l \o R /\ localLSN' = n + Len(p) + 1
      /\ UNCHANGED <<primary, sr, wire, lastLSN, pending, commit, localSynced, applied, gap, torn>>
  BY <1>1, <1>2 DEF flushAppend, appended, flushed
<1>4. StreamInv' /\ acked' = acked
  BY <1>3, StreamSame
<1>5. l \in Seq(Stored) /\ p \in Seq(Nat) /\ n \in Nat /\ localSynced \in 0 .. Len(l)
  BY <1>1 DEF IInv, FollowerInv, FollowerTypes
<1>6. PICK a, b : a = Len(l) /\ b = Len(p)
  OBVIOUS
<1>7. a \in Nat /\ b \in Nat /\ DOMAIN l = 1 .. a /\ DOMAIN p = 1 .. b
  BY SMTT(30), <1>5, <1>6
<1>8. R \in Seq(Stored) /\ b = Len(R) /\ \A i \in 1 .. b : R[i].rec = p[i] /\ R[i].lsn = n + i
  <2>1. \A i \in 1 .. b : p[i] \in Nat
    BY SMTT(30), <1>5, <1>7
  <2>2. \A i \in 1 .. b : [rec |-> p[i], lsn |-> n + i] \in Stored
    BY SMTT(30), <1>5, <2>1 DEF Stored
  <2>3. R = [i \in 1 .. b |-> [rec |-> p[i], lsn |-> n + i]]
    BY <1>2, <1>7
  <2> QED
    BY SMTT(30), <1>7, <2>2, <2>3
<1>9. PICK W : W = l \o R
  OBVIOUS
<1>10. /\ W \in Seq(Stored) /\ Len(W) = a + b /\ DOMAIN W = 1 .. a + b
       /\ \A j \in 1 .. a : W[j] = l[j]
       /\ \A j \in a + 1 .. a + b : W[j] = R[j - a]
  BY SMTT(30), <1>5, <1>6, <1>8, <1>9, ConcatParts
<1>11. \A j \in a + 1 .. a + b : j - a \in 1 .. b /\ W[j].rec = p[j - a] /\ W[j].lsn = n + (j - a)
  <2>1. \A j \in a + 1 .. a + b : j - a \in 1 .. b
    BY SMTT(30), <1>7
  <2> QED
    BY <1>8, <1>10, <2>1
<1>12. \A j \in 1 .. a + b : j \in 1 .. a \/ j \in a + 1 .. a + b
  BY SMTT(30), <1>7
<1>13. FollowerTypes'
  <2>1. localLSN' \in Nat /\ localSynced' \in 0 .. Len(local')
    BY SMTT(30), <1>3, <1>5, <1>6, <1>7, <1>9, <1>10
  <2> QED
    BY <1>3, <1>9, <1>10, <2>1 DEF IInv, FollowerInv, FollowerTypes
<1>14. TakenInv'
  <2>1. \A j \in 1 .. a : l[j].rec \in acked
    BY <1>1, <1>7 DEF IInv, FollowerInv, TakenInv
  <2>2. \A j \in 1 .. b : p[j] \in acked
    BY <1>1, <1>7 DEF IInv, FollowerInv, TakenInv
  <2>3. \A j \in DOMAIN W : W[j].rec \in acked
    BY <1>10, <1>11, <1>12, <2>1, <2>2
  <2> QED
    BY <1>3, <1>4, <1>9, <2>3 DEF IInv, FollowerInv, TakenInv
<1>15. FlushInv'
  <2>1. ASSUME NEW k \in DOMAIN applied
        PROVE  onDisk(applied[k], localSynced)'
    <3>1. PICK i \in 1 .. localSynced : l[i].rec = applied[k]
      BY <1>1, <1>3 DEF IInv, FollowerInv, FlushInv, onDisk
    <3>2. i \in 1 .. a
      BY SMTT(30), <1>5, <1>6, <1>7
    <3>3. local'[i].rec = applied'[k] /\ localSynced' = localSynced
      BY <1>3, <1>9, <1>10, <3>1, <3>2
    <3> QED
      BY <3>3 DEF onDisk
  <2>2. ASSUME NEW k \in 1 .. b
        PROVE  \E i \in 1 .. a + b : W[i].rec = p[k]
    <3>1. a + k \in 1 .. a + b /\ a + k \in a + 1 .. a + b /\ (a + k) - a = k
      BY SMTT(30), <1>7
    <3> QED
      BY <1>11, <3>1
  <2>3. \A k \in DOMAIN pending' : \E i \in 1 .. Len(local') : local'[i].rec = pending'[k]
    <3>1. DOMAIN pending' = 1 .. b /\ pending' = p /\ Len(local') = a + b /\ local' = W
      BY <1>1, <1>3, <1>7, <1>9, <1>10
    <3> QED
      BY <2>2, <3>1
  <2>4. (\A k \in DOMAIN pending : onDisk(pending[k], Len(local)))'
    BY <2>3 DEF onDisk
  <2>5. (\A k \in DOMAIN applied : onDisk(applied[k], localSynced))'
    BY <1>3, <2>1
  <2> QED
    BY <1>3, <2>4, <2>5 DEF FlushInv
<1>16. OrderInv'
  <2>1. /\ \A j \in 1 .. a : l[j].lsn <= n /\ l[j].lsn \in Nat
        /\ \A i, j \in 1 .. a : i < j => l[i].lsn < l[j].lsn
    <3>1. \A j \in 1 .. a : l[j] \in Stored
      BY SMTT(30), <1>5, <1>7
    <3> QED
      BY <1>1, <1>7, <3>1 DEF IInv, FollowerInv, OrderInv, Stored
  <2>2. \A j \in DOMAIN W : W[j].lsn <= n + b + 1
    <3>1. \A j \in 1 .. a : W[j].lsn <= n + b + 1
      BY SMTT(30), <1>5, <1>7, <1>10, <2>1
    <3>2. ASSUME NEW j \in a + 1 .. a + b PROVE W[j].lsn <= n + b + 1
      <4>1. PICK x, y : x = W[j].lsn /\ y = j - a
        OBVIOUS
      <4>2. n \in Nat /\ b \in Nat /\ y \in 1 .. b /\ x = n + y
        BY <1>5, <1>7, <1>11, <4>1
      <4>3. x <= n + b + 1
        BY SMTT(30), <4>2
      <4> QED
        BY <4>1, <4>3
    <3> QED
      BY <1>10, <1>12, <3>1, <3>2
  <2>3. ASSUME NEW i \in DOMAIN W, NEW j \in DOMAIN W, i < j
        PROVE  W[i].lsn < W[j].lsn
    <3>1. CASE i \in 1 .. a /\ j \in 1 .. a
      <4>1. W[i] = l[i] /\ W[j] = l[j] /\ l[i].lsn < l[j].lsn
        BY <1>10, <2>1, <2>3, <3>1
      <4> QED
        BY <4>1
    <3>2. CASE i \in 1 .. a /\ j \in a + 1 .. a + b
      <4>1. W[i].lsn <= n /\ W[i].lsn \in Nat
        BY <1>10, <2>1, <3>2
      <4>2. j - a \in 1 .. b /\ W[j].lsn = n + (j - a)
        BY <1>11, <3>2
      <4> QED
        BY SMTT(30), <1>5, <1>7, <4>1, <4>2
    <3>3. CASE i \in a + 1 .. a + b /\ j \in a + 1 .. a + b
      BY SMTT(30), <1>5, <1>7, <1>11, <2>3, <3>3
    <3> QED
      BY SMTT(30), <1>7, <1>10, <1>12, <2>3, <3>1, <3>2, <3>3
  <2> QED
    BY <1>3, <1>6, <1>9, <2>2, <2>3 DEF OrderInv
<1>17. SameInv'
  <2> SUFFICES ASSUME ~torn
               PROVE  recs(W) = applied \o p
    BY <1>1, <1>3, <1>9 DEF SameInv, recs
  <2>1. PICK c : c = recs(l)
    OBVIOUS
  <2>2. c = applied /\ c \in Seq(Nat) /\ Len(c) = a /\ \A j \in 1 .. a : c[j] = l[j].rec
    BY SMTT(30), <1>1, <1>3, <1>5, <1>6, <1>7, <2>1, RecsOf DEF IInv, FollowerInv, SameInv
  <2>3. PICK V : V = c \o p
    OBVIOUS
  <2>4. /\ V \in Seq(Nat) /\ DOMAIN V = 1 .. a + b /\ \A j \in 1 .. a : V[j] = c[j]
        /\ \A j \in a + 1 .. a + b : V[j] = p[j - a]
    <3>3. c \in Seq(Nat) /\ p \in Seq(Nat) /\ V = c \o p /\ b = Len(p)
      BY <1>5, <1>6, <2>2, <2>3
    <3>1. DOMAIN V = 1 .. Len(c) + b /\ V \in Seq(Nat) /\ \A j \in 1 .. Len(c) : V[j] = c[j]
      BY SMTT(30), <3>3, ConcatParts
    <3>2. \A j \in Len(c) + 1 .. Len(c) + b : V[j] = p[j - Len(c)]
      BY SMTT(30), <3>3, ConcatParts
    <3> QED
      BY <2>2, <3>1, <3>2
  <2>5. recs(W) \in Seq(Nat) /\ DOMAIN recs(W) = 1 .. a + b /\ \A j \in 1 .. a + b : recs(W)[j] = W[j].rec
    BY <1>10, RecsOf
  <2>6. \A j \in 1 .. a + b : recs(W)[j] = V[j]
    <3>1. \A j \in 1 .. a : recs(W)[j] = V[j]
      <4>1. \A j \in 1 .. a : j \in 1 .. a + b
        BY SMTT(30), <1>7
      <4> QED
        <5> SUFFICES ASSUME NEW j \in 1 .. a
                     PROVE  recs(W)[j] = V[j]
          OBVIOUS
        <5>1. recs(W)[j] = W[j].rec
          BY <2>5, <4>1
        <5>2. V[j] = l[j].rec
          BY <2>2, <2>4
        <5> QED
          BY <1>10, <5>1, <5>2
    <3>2. \A j \in a + 1 .. a + b : recs(W)[j] = V[j]
      <4>1. \A j \in a + 1 .. a + b : j \in 1 .. a + b
        BY SMTT(30), <1>7
      <4> QED
        BY <1>11, <2>4, <2>5, <4>1
    <3> QED
      BY <1>12, <3>1, <3>2
  <2>7. recs(W) = V
    <3>1. PICK U : U = recs(W)
      OBVIOUS
    <3>2. U \in Seq(Nat) /\ V \in Seq(Nat) /\ DOMAIN U = DOMAIN V /\ \A j \in DOMAIN U : U[j] = V[j]
      BY <2>4, <2>5, <2>6, <3>1
    <3>3. U = V
      BY SMTT(30), <3>2
    <3> QED
      BY <3>1, <3>3
  <2> QED
    BY <2>2, <2>3, <2>7
<1> QED
  BY <1>4, <1>13, <1>14, <1>15, <1>16, <1>17 DEF FollowerInv

\* The sync puts what was appended on disk.
LEMMA flushSyncInv ==
  ASSUME IInv, flushSync
  PROVE  StreamInv' /\ FollowerInv'
<1>1. /\ fpc = "sync" /\ fpc' = "apply" /\ localSynced' = Len(local)
      /\ UNCHANGED <<primary, sr, wire, lastLSN, pending, commit, local, localLSN, applied, gap, torn>>
  BY DEF flushSync, flushed
<1>2. StreamInv' /\ acked' = acked
  BY <1>1, StreamSame
<1>3. FollowerTypes'
  <2>1. Len(local) \in Nat
    BY SMTT(30) DEF IInv, FollowerInv, FollowerTypes
  <2>2. localSynced' \in 0 .. Len(local')
    BY SMTT(30), <1>1, <2>1
  <2> QED
    BY <1>1, <2>2 DEF IInv, FollowerInv, FollowerTypes
<1>4. TakenInv' /\ OrderInv'
  BY <1>1, <1>2 DEF IInv, FollowerInv, TakenInv, OrderInv
<1>5. FlushInv'
  <2>1. ASSUME NEW k \in DOMAIN applied
        PROVE  \E i \in 1 .. Len(local) : local[i].rec = applied[k]
    <3>1. PICK i \in 1 .. localSynced : local[i].rec = applied[k]
      BY <1>1 DEF IInv, FollowerInv, FlushInv, onDisk
    <3>2. i \in 1 .. Len(local)
      BY SMTT(30) DEF IInv, FollowerInv, FollowerTypes
    <3> QED
      BY <3>1, <3>2
  <2>2. \A k \in DOMAIN pending : \E i \in 1 .. Len(local) : local[i].rec = pending[k]
    BY <1>1 DEF IInv, FollowerInv, FlushInv, onDisk
  <2> QED
    BY <1>1, <2>1, <2>2 DEF FlushInv, onDisk
<1>6. SameInv'
  BY <1>1 DEF IInv, FollowerInv, SameInv, recs
<1> QED
  BY <1>2, <1>3, <1>4, <1>5, <1>6 DEF FollowerInv

\* The accounts take what is on disk.
LEMMA flushApplyInv ==
  ASSUME IInv, flushApply
  PROVE  StreamInv' /\ FollowerInv'
<1>1. PICK p, A, W : p = pending /\ A = applied /\ W = A \o p
  OBVIOUS
<1>2. /\ fpc = "apply" /\ fpc' = "stream" /\ applied' = W /\ lastLSN' = Max({lastLSN, commit})
      /\ pending' = <<>> /\ commit' = 0 /\ UNCHANGED <<primary, sr, wire, local, localLSN, localSynced, gap, torn>>
  BY <1>1 DEF flushApply, flushed, localWAL
<1>3. StreamInv' /\ acked' = acked
  BY <1>2, StreamSame
<1>4. A \in Seq(Nat) /\ p \in Seq(Nat) /\ lastLSN \in Nat /\ commit \in Nat
  BY <1>1 DEF IInv, FollowerInv, FollowerTypes
<1>5. PICK a, b : a = Len(A) /\ b = Len(p)
  OBVIOUS
<1>6. /\ W \in Seq(Nat) /\ a \in Nat /\ b \in Nat /\ DOMAIN A = 1 .. a /\ DOMAIN W = 1 .. a + b
      /\ \A j \in 1 .. a : W[j] = A[j]
      /\ \A j \in a + 1 .. a + b : W[j] = p[j - a]
  BY SMTT(30), <1>1, <1>4, <1>5, ConcatParts
<1>7. \A j \in 1 .. a + b : j \in 1 .. a \/ (j \in a + 1 .. a + b /\ j - a \in 1 .. b)
  BY SMTT(30), <1>6
<1>8. DOMAIN p = 1 .. b
  BY SMTT(30), <1>4, <1>5
<1>9. ASSUME NEW j \in DOMAIN W
      PROVE  (j \in DOMAIN A /\ W[j] = A[j]) \/ (j - a \in DOMAIN p /\ W[j] = p[j - a])
  BY <1>6, <1>7, <1>8
<1>10. FollowerTypes'
  <2>1. lastLSN' \in Nat
    BY <1>2, <1>4, MinMaxTwo
  <2>2. pending' \in Seq(Nat) /\ commit' \in Nat
    BY SMTT(30), <1>2
  <2> QED
    BY <1>2, <1>6, <2>1, <2>2 DEF IInv, FollowerInv, FollowerTypes
<1>11. TakenInv'
  <2>1. (\A k \in DOMAIN A : A[k] \in acked) /\ (\A k \in DOMAIN p : p[k] \in acked)
        /\ \A k \in DOMAIN local : local[k].rec \in acked
    BY <1>1 DEF IInv, FollowerInv, TakenInv
  <2>2. \A k \in DOMAIN W : W[k] \in acked
    BY <1>9, <2>1
  <2>3. DOMAIN pending' = {}
    BY SMTT(30), <1>2
  <2> QED
    BY <1>2, <1>3, <2>1, <2>2, <2>3 DEF TakenInv
<1>12. FlushInv'
  <2>1. (\A k \in DOMAIN A : onDisk(A[k], localSynced)) /\ (\A k \in DOMAIN p : onDisk(p[k], localSynced))
    BY <1>1, <1>2 DEF IInv, FollowerInv, FlushInv
  <2>2. \A k \in DOMAIN W : onDisk(W[k], localSynced)
    <3> SUFFICES ASSUME NEW k \in DOMAIN W
                 PROVE  onDisk(W[k], localSynced)
      OBVIOUS
    <3>1. CASE k \in DOMAIN A /\ W[k] = A[k]
      BY <2>1, <3>1
    <3>2. CASE k - a \in DOMAIN p /\ W[k] = p[k - a]
      BY <2>1, <3>2
    <3> QED
      BY <1>9, <3>1, <3>2
  <2> QED
    BY <1>2, <2>2 DEF FlushInv, onDisk
<1>13. SameInv'
  BY <1>1, <1>2 DEF IInv, FollowerInv, SameInv, recs
<1>14. OrderInv'
  BY <1>2 DEF IInv, FollowerInv, OrderInv
<1> QED
  BY <1>3, <1>10, <1>11, <1>12, <1>13, <1>14 DEF FollowerInv

\* A crash cuts the WAL behind its synced part, between two batches.
LEMMA CrashInv ==
  ASSUME IInv, Crash
  PROVE  StreamInv' /\ FollowerInv'
<1>1. PICK k \in localSynced .. Len(local) :
        /\ local' = SubSeq(local, 1, k) /\ localSynced' = k
        /\ localLSN' = IF k = 0 THEN 0 ELSE local[k].lsn + 1
  BY DEF Crash
<1>2. /\ fpc' = "down" /\ hangUp /\ applied' = <<>> /\ lastLSN' = 0 /\ torn' = (torn \/ half)
      /\ UNCHANGED <<primary, gap>>
  BY DEF Crash
<1>3. acked' = acked /\ pending' = <<>> /\ commit' = 0
  BY <1>2 DEF primary, hangUp
<1>4. StreamInv'
  BY <1>2, StreamFresh DEF hangUp
<1>5. PICK l, m : l = local /\ m = SubSeq(l, 1, k)
  OBVIOUS
<1>6. l \in Seq(Stored) /\ k \in 0 .. Len(l)
  BY SMTT(30), <1>1, <1>5 DEF IInv, FollowerInv, FollowerTypes
<1>7. /\ m \in Seq(Stored) /\ Len(m) = k /\ k \in Nat /\ DOMAIN m = 1 .. k
      /\ \A j \in 1 .. k : m[j] = l[j] /\ j \in DOMAIN l
      /\ \A j \in DOMAIN l : l[j] \in Stored
  BY SMTT(30), <1>5, <1>6
<1>8. \A j \in DOMAIN l : l[j].lsn \in Nat
  BY <1>7 DEF Stored
<1>9. k = 0 \/ k \in 1 .. k
  BY SMTT(30), <1>7
<1>10. localLSN' \in Nat
  BY SMTT(30), <1>1, <1>5, <1>7, <1>8, <1>9
<1>11. torn' \in BOOLEAN
  BY <1>2 DEF IInv, FollowerInv, FollowerTypes, half
<1>12. FollowerTypes'
  <2>1. local' \in Seq(Stored) /\ localSynced' \in 0 .. Len(local')
    BY SMTT(30), <1>1, <1>5, <1>7
  <2>2. lastLSN' \in Nat /\ pending' \in Seq(Nat) /\ applied' \in Seq(Nat) /\ commit' \in Nat
    BY SMTT(30), <1>2, <1>3
  <2> QED
    BY <1>2, <1>10, <1>11, <2>1, <2>2 DEF IInv, FollowerInv, FollowerTypes
<1>13. DOMAIN pending' = {} /\ DOMAIN applied' = {}
  BY SMTT(30), <1>2, <1>3
<1>14. TakenInv'
  <2>1. \A j \in DOMAIN m : m[j].rec \in acked
    BY <1>5, <1>7 DEF IInv, FollowerInv, TakenInv
  <2> QED
    BY <1>1, <1>3, <1>5, <1>13, <2>1 DEF TakenInv
<1>15. FlushInv'
  BY <1>1, <1>2, <1>5, <1>7, <1>13 DEF FlushInv
<1>16. SameInv'
  BY <1>2 DEF SameInv
<1>17. OrderInv'
  <2>1. \A i, j \in 1 .. k : i < j => l[i].lsn < l[j].lsn
    BY <1>5, <1>7 DEF IInv, FollowerInv, OrderInv
  <2>2. \A i \in 1 .. k : i < k \/ i = k
    BY SMTT(30), <1>7
  <2>3. ASSUME NEW i \in 1 .. k
        PROVE  l[i].lsn <= localLSN'
    <3>1. k # 0 /\ k \in 1 .. k /\ localLSN' = l[k].lsn + 1 /\ l[i].lsn \in Nat /\ l[k].lsn \in Nat
      BY SMTT(30), <1>1, <1>5, <1>7, <1>8
    <3>2. i = k \/ l[i].lsn < l[k].lsn
      BY <2>1, <2>2, <3>1
    <3> QED
      BY SMTT(30), <3>1, <3>2
  <2>4. (\A i \in DOMAIN m : m[i].lsn <= localLSN') /\ \A i, j \in DOMAIN m : i < j => m[i].lsn < m[j].lsn
    BY <1>7, <2>1, <2>3
  <2> QED
    BY <1>1, <1>5, <2>4 DEF OrderInv
<1> QED
  BY <1>4, <1>12, <1>14, <1>15, <1>16, <1>17 DEF FollowerInv

\* A promoted follower starts from what its WAL replays.
LEMMA PromoteToPrimaryInv ==
  ASSUME IInv, PromoteToPrimary
  PROVE  StreamInv' /\ FollowerInv'
<1>1. /\ fpc' = "promoted" /\ hangUp /\ applied' = recs(local)
      /\ UNCHANGED <<primary, lastLSN, local, localLSN, localSynced, gap, torn>>
  BY DEF PromoteToPrimary, position, localWAL
<1>2. acked' = acked /\ pending' = <<>> /\ commit' = 0
  BY <1>1 DEF primary, hangUp
<1>3. StreamInv'
  BY <1>1, StreamFresh DEF hangUp
<1>4. PICK l, c : l = local /\ c = recs(l)
  OBVIOUS
<1>5. l \in Seq(Stored)
  BY <1>4 DEF IInv, FollowerInv, FollowerTypes
<1>6. c \in Seq(Nat) /\ DOMAIN c = DOMAIN l /\ \A k \in DOMAIN l : c[k] = l[k].rec
  BY <1>4, <1>5, RecsOf
<1>7. FollowerTypes'
  <2>1. pending' \in Seq(Nat) /\ commit' \in Nat
    BY SMTT(30), <1>2
  <2> QED
    BY <1>1, <1>4, <1>6, <2>1 DEF IInv, FollowerInv, FollowerTypes
<1>8. TakenInv'
  <2>1. \A k \in DOMAIN l : l[k].rec \in acked
    BY <1>4 DEF IInv, FollowerInv, TakenInv
  <2>2. DOMAIN pending' = {}
    BY SMTT(30), <1>2
  <2> QED
    BY <1>1, <1>2, <1>4, <1>6, <2>1, <2>2 DEF TakenInv
<1>9. FlushInv' /\ SameInv'
  BY <1>1 DEF FlushInv, SameInv
<1>10. OrderInv'
  BY <1>1 DEF IInv, FollowerInv, OrderInv
<1> QED
  BY <1>3, <1>7, <1>8, <1>9, <1>10 DEF FollowerInv

-----------------------------------------------------------------------------
(* The theorems *)

\* An empty log, and a follower that has not started.
LEMMA InitInv ==
  ASSUME Init
  PROVE  IInv
<1>1. PICK e : e = <<>>
  OBVIOUS
<1>2. e \in Seq(Frame) /\ e \in Seq(Nat) /\ e \in Seq(Stored) /\ Len(e) = 0 /\ DOMAIN e = {}
  BY SMTT(30), <1>1
<1>3. segs = <<e>> /\ <<e>> \in Seq(Seq(Frame)) /\ Len(<<e>>) = 1 /\ <<e>>[1] = e /\ DOMAIN <<e>> = {1}
  BY SMTT(30), <1>1, <1>2 DEF Init
<1>4. cur = 1 /\ segs[cur] = e
  BY <1>3 DEF cur
<1>5. disk = {1} /\ synced = 0 /\ currentLSN = 0 /\ todo = e /\ ppc = "idle" /\ acked = {}
  BY <1>1 DEF Init
<1>6. PrimaryTypes
  BY SMTT(30), <1>2, <1>3, <1>4, <1>5 DEF PrimaryTypes
<1>7. \A x \in 1 .. 1 : x = 1
  BY SMTT(30)
<1>8. \A x \in 1 .. 1 : DOMAIN segs[x] = {}
  BY <1>2, <1>3, <1>4, <1>7
<1>9. WriterInv /\ CommitsClean /\ AckedWritten
  BY <1>1, <1>2, <1>4, <1>5, <1>8 DEF WriterInv, CommitsClean, AckedWritten, clean
<1>10. /\ sr = NewStreamReader(0) /\ wire = e /\ fpc = "down" /\ lastLSN = 0 /\ pending = e /\ commit = 0
       /\ local = e /\ localLSN = 0 /\ localSynced = 0 /\ applied = e /\ gap = FALSE /\ torn = FALSE
  BY <1>1 DEF Init
<1>11. /\ sr \in Reader /\ sr.ids = {} /\ sr.maxID = 0 /\ sr.pend = e /\ sr.emit = e /\ sr.id = 0
  BY <1>1, <1>2, <1>10 DEF NewStreamReader, Reader
<1>12. StreamInv
  <2>1. ReaderInv
    BY SMTT(30), <1>1, <1>4, <1>11 DEF ReaderInv
  <2>2. PendInv /\ SentInv
    BY <1>2, <1>10, <1>11 DEF PendInv, SentInv, synchronous
  <2> QED
    BY <2>1, <2>2 DEF StreamInv
<1>13. FollowerTypes
  <2>1. 0 \in Nat /\ 0 \in 0 .. 0
    BY SMTT(30)
  <2> QED
    BY <1>2, <1>10, <2>1 DEF FollowerTypes
<1>14. TakenInv /\ FlushInv /\ OrderInv
  BY <1>1, <1>2, <1>10 DEF TakenInv, FlushInv, OrderInv
<1>15. SameInv
  BY <1>10 DEF SameInv
<1> QED
  BY <1>6, <1>9, <1>12, <1>13, <1>14, <1>15 DEF IInv, PrimaryInv, FollowerInv

\* A step of the follower leaves the primary alone.
LEMMA FollowerSteps ==
  ASSUME IInv, Follower
  PROVE  IInv'
<1>1. CASE recoverLocalState
  <2>1. UNCHANGED primary
    BY <1>1 DEF recoverLocalState
  <2> QED
    BY <1>1, <2>1, recoverLocalStateInv, PrimarySame DEF IInv
<1>2. CASE dialFail
  <2>1. fpc = "dial" /\ failed(theWAL, applied, FALSE) /\ UNCHANGED primary
    BY <1>2 DEF dialFail, failed
  <2> QED
    BY <2>1, LinkFailedInv, PrimarySame DEF IInv
<1>3. CASE connLost
  <2>1. fpc = "stream" /\ failed(theWAL, applied, half) /\ UNCHANGED primary
    BY <1>3 DEF connLost, failed
  <2>2. half \in BOOLEAN
    BY DEF half
  <2> QED
    BY <2>1, <2>2, LinkFailedInv, PrimarySame DEF IInv
<1>4. CASE Crash
  <2>1. UNCHANGED primary
    BY <1>4 DEF Crash
  <2> QED
    BY <1>4, <2>1, CrashInv, PrimarySame DEF IInv
<1>5. CASE PromoteToPrimary
  <2>1. UNCHANGED primary
    BY <1>5 DEF PromoteToPrimary
  <2> QED
    BY <1>5, <2>1, PromoteToPrimaryInv, PrimarySame DEF IInv
<1>6. ASSUME NEW t \in Terms, handshake(t)
      PROVE  IInv'
  <2>1. UNCHANGED primary
    BY <1>6 DEF handshake
  <2> QED
    BY <1>6, <2>1, handshakeInv, PrimarySame DEF IInv
<1>7. ASSUME NEW t \in Terms, handshakeFail(t)
      PROVE  IInv'
  <2>1. fpc = "dial" /\ failed(theWAL, applied, FALSE) /\ UNCHANGED primary
    BY <1>7 DEF handshakeFail, failed
  <2> QED
    BY <2>1, LinkFailedInv, PrimarySame DEF IInv
<1>8. CASE receiveData
  <2>1. UNCHANGED primary
    BY <1>8 DEF receiveData, receivedOnly
  <2> QED
    BY <1>8, <2>1, receiveDataInv, PrimarySame DEF IInv
<1>9. CASE receiveCommit
  <2>1. UNCHANGED primary
    BY <1>9 DEF receiveCommit, receivedOnly
  <2> QED
    BY <1>9, <2>1, receiveCommitInv, PrimarySame DEF IInv
<1>10. CASE flushAppend
  <2>1. UNCHANGED primary
    BY <1>10 DEF flushAppend, flushed
  <2> QED
    BY <1>10, <2>1, flushAppendInv, PrimarySame DEF IInv
<1>11. CASE flushSync
  <2>1. UNCHANGED primary
    BY <1>11 DEF flushSync, flushed
  <2> QED
    BY <1>11, <2>1, flushSyncInv, PrimarySame DEF IInv
<1>12. CASE flushApply
  <2>1. UNCHANGED primary
    BY <1>12 DEF flushApply, flushed
  <2> QED
    BY <1>12, <2>1, flushApplyInv, PrimarySame DEF IInv
<1>13. CASE flushFail
  <2>1. UNCHANGED primary
    BY <1>13 DEF flushFail, failed
  <2> QED
    BY <1>13, <2>1, flushFailInv, PrimarySame DEF IInv
<1> QED
  BY <1>1, <1>2, <1>3, <1>4, <1>5, <1>6, <1>7, <1>8, <1>9, <1>10, <1>11, <1>12, <1>13 DEF Follower

\* A step that leaves the follower alone.
LEMMA FollowerSame ==
  ASSUME IInv, UNCHANGED <<primary, follower>>
  PROVE  PrimaryInv' /\ FollowerInv'
<1>1. PrimaryInv'
  BY PrimarySame DEF IInv
<1>2. UNCHANGED <<acked, fpc, lastLSN, pending, commit, local, localLSN, localSynced, applied, gap, torn>>
  BY DEF primary, follower, position, localWAL
<1>3. FollowerTypes' /\ TakenInv' /\ OrderInv'
  BY <1>2 DEF IInv, FollowerInv, FollowerTypes, TakenInv, OrderInv
<1>4. FlushInv' /\ SameInv'
  BY <1>2 DEF IInv, FollowerInv, FlushInv, SameInv, onDisk, recs
<1> QED
  BY <1>1, <1>3, <1>4 DEF FollowerInv

\* The primary's WAL is written, synced and truncated under the stream.
LEMMA PrimarySteps ==
  ASSUME IInv, Primary
  PROVE  IInv'
<1>1. UNCHANGED <<sr, wire, follower>>
  BY DEF Primary, AppendBatch, rotateLocked, writeBuffered, Sync, TruncateBefore
<1>2. PrimaryInv
  BY DEF IInv
<1>3. PrimaryInv' /\ Grows
  BY <1>2, AppendBatchInv, rotateLockedInv, writeBufferedInv, SyncInv, TruncateBeforeInv DEF Primary
<1> QED
  BY <1>1, <1>3, PrimaryStream DEF IInv

\* The sender reads the WAL's files and writes frames to the connection.
LEMMA StreamSteps ==
  ASSUME IInv, Stream
  PROVE  IInv'
<1>1. UNCHANGED <<primary, follower>>
  BY DEF Stream, ListSegments, OpenSegment, Relist, advance, readFrame, writeFrame, srOnly
<1>2. StreamInv'
  BY ListSegmentsInv, OpenSegmentInv, RelistInv, advanceInv, readFrameInv, writeFrameInv DEF Stream
<1> QED
  BY <1>1, <1>2, FollowerSame DEF IInv

\* The invariant holds in every state.
THEOREM Invariance == Spec => []IInv
<1>1. Init => IInv
  BY InitInv
<1>2. IInv /\ [Next]_vars => IInv'
  <2> SUFFICES ASSUME IInv, [Next]_vars
               PROVE  IInv'
    OBVIOUS
  <2>1. CASE Next
    BY <2>1, PrimarySteps, StreamSteps, FollowerSteps DEF Next
  <2>2. CASE UNCHANGED vars
    <3>1. UNCHANGED <<primary, sr, wire, follower>>
      BY <2>2 DEF vars
    <3> QED
      BY <3>1, StreamSame, FollowerSame DEF IInv
  <2> QED
    BY <2>1, <2>2
<1> QED
  BY <1>1, <1>2, PTL DEF Spec

\* What StreamReader delivers, and what a follower buffers, stores and applies,
\* the primary has synced: for every segment size, any batches and any number of
\* truncations, broken connections and restarts.
THEOREM DeliveredIsSynced == Spec => []NeverAhead
<1>1. IInv => NeverAhead
  <2> SUFFICES ASSUME IInv
               PROVE  NeverAhead
    OBVIOUS
  <2>1. ASSUME NEW s \in Seq(Frame), synchronous(s)
        PROVE  data(s) \subseteq acked
    BY <2>1 DEF data, synchronous, Range
  <2>2. sr.emit \in Seq(Frame) /\ synchronous(sr.emit) /\ wire \in Seq(Frame) /\ synchronous(wire)
    BY DEF IInv, StreamInv, ReaderInv, SentInv, Reader
  <2>3. data(sr.emit) \subseteq acked /\ data(wire) \subseteq acked
    BY <2>1, <2>2
  <2>4. Range(pending) \subseteq acked /\ Range(applied) \subseteq acked
    BY DEF IInv, FollowerInv, TakenInv, Range
  <2>5. Range(recs(local)) \subseteq acked
    <3>1. PICK l, c : l = local /\ c = recs(l)
      OBVIOUS
    <3>2. l \in Seq(Stored) /\ \A k \in DOMAIN l : l[k].rec \in acked
      BY <3>1 DEF IInv, FollowerInv, FollowerTypes, TakenInv
    <3>3. DOMAIN c = DOMAIN l /\ \A k \in DOMAIN l : c[k] = l[k].rec
      BY <3>1, <3>2, RecsOf
    <3>4. Range(c) \subseteq acked
      BY <3>2, <3>3 DEF Range
    <3> QED
      BY <3>1, <3>4
  <2> QED
    BY <2>3, <2>4, <2>5 DEF NeverAhead
<1> QED
  BY <1>1, Invariance, PTL

\* PromoteToPrimary may stop the loop at any point of it: what the accounts have
\* is on disk, the WAL replays to the accounts unless a flush failed, and its
\* LSNs increase.
THEOREM PromotionFromWAL == Spec => []PromotionSafe
<1>1. IInv => PromotionSafe
  <2> SUFFICES ASSUME IInv
               PROVE  PromotionSafe
    OBVIOUS
  <2>1. fpc # "promoted" => \A r \in Range(applied) : \E i \in 1 .. localSynced : local[i].rec = r
    BY ZenonT(30) DEF IInv, FollowerInv, FlushInv, onDisk, Range
  <2>2. ~torn /\ fpc \in {"dial", "stream"} => applied = recs(local)
    BY DEF IInv, FollowerInv, SameInv
  <2>3. localSynced <= Len(local) /\ \A i, j \in DOMAIN local : i < j => local[i].lsn < local[j].lsn
    BY SMTT(30) DEF IInv, FollowerInv, FollowerTypes, OrderInv
  <2> QED
    BY <2>1, <2>2, <2>3 DEF PromotionSafe
<1> QED
  BY <1>1, Invariance, PTL

-----------------------------------------------------------------------------
(* Terms.  Failover has the nodes, their roles and the terms a handshake goes *)
(* by; this module's own variables are those of one follower.                 *)

CONSTANTS Node, First, MaxPromotions

VARIABLES
  config, role, termFiles, term, followerTermFile, lastTerms, addr, conn,
  epoch, highest, seen, fed, unsaved, lost, promotions, budget

F == INSTANCE Failover WITH termFile <- termFiles, lastTerm <- lastTerms

\* The types of the variables the terms depend on.
NodeTypes ==
  /\ config \in [Node -> {"primary", "follower"}]
  /\ role \in [Node -> {"down", "primary", "follower", "stopping", "promoted"}]
  /\ conn \in [Node -> {"none", "stream", "silent"}]
  /\ addr \in [Node -> Node]
  /\ termFiles \in [Node -> Nat] /\ term \in [Node -> Nat] /\ followerTermFile \in [Node -> Nat]
  /\ lastTerms \in [Node -> Nat] /\ highest \in [Node -> Nat]
  /\ unsaved \in [Node -> BOOLEAN] /\ lost \in [Node -> BOOLEAN]

\* Node f runs as a follower.
following(f) == role[f] \in {"follower", "stopping"}
\* No write of the follower's term file failed, and the file was not lost.
kept(f) == ~unsaved[f] /\ ~lost[f]

\* A server has a term; a stream has the term of its server.
StreamTerms ==
  \A f \in Node : /\ role[f] = "primary" => term[f] > 0
                  /\ conn[f] = "stream" => /\ following(f) /\ role[addr[f]] = "primary"
                                           /\ term[addr[f]] = lastTerms[f]

\* The term in memory is the one in the file, and no lower one was streamed at.
StoredTerms ==
  \A f \in Node : kept(f) => /\ highest[f] <= followerTermFile[f]
                             /\ following(f) => lastTerms[f] = followerTermFile[f]

\* The inductive invariant of the terms.
TermInv == NodeTypes /\ StreamTerms /\ StoredTerms

-----------------------------------------------------------------------------
\* No node runs, and no follower has a term.
LEMMA TermsInitially == First \in Node /\ F!Init => TermInv
BY SMTT(30) DEF F!Init, TermInv, NodeTypes, StreamTerms, StoredTerms, following, kept

\* A node that is not a primary starts or stops something.
LEMMA ServerStep ==
  ASSUME TermInv, NEW n \in Node, F!StartServer(n) \/ F!Rejoin(n) \/ F!StartFollower(n) \/ F!Stop(n)
  PROVE  TermInv'
<1>1. CASE F!StartServer(n)
  BY SMTT(30), <1>1 DEF TermInv, NodeTypes, StreamTerms, StoredTerms, following, kept, F!StartServer,
                        F!PrimaryTerm, F!follower, F!streamed, F!excuses
<1>2. CASE F!Rejoin(n)
  BY <1>2 DEF TermInv, NodeTypes, StreamTerms, StoredTerms, following, kept, F!Rejoin, F!files, F!follower,
              F!streamed, F!excuses
<1>3. CASE F!StartFollower(n)
  BY SMTT(30), <1>3 DEF TermInv, NodeTypes, StreamTerms, StoredTerms, following, kept, F!StartFollower,
                        F!files, F!streamed, F!excuses
<1>4. CASE F!Stop(n)
  BY SMTT(30), <1>4 DEF TermInv, NodeTypes, StreamTerms, StoredTerms, following, kept, F!Stop, F!files,
                        F!follower, F!streamed, F!excuses
<1> QED BY ZenonT(30), <1>1, <1>2, <1>3, <1>4

\* A handshake streams at the term it leaves in memory, and in the file.
LEMMA HandshakeStep ==
  ASSUME TermInv, NEW n \in Node, F!Handshake(n) \/ F!handshakeFail(n)
  PROVE  TermInv'
<1>1. CASE F!handshakeNew(n)
  <2> DEFINE t == term[addr[n]]
  <2>0. t \in Nat /\ lastTerms[n] \in Nat /\ highest[n] \in Nat /\ followerTermFile[n] \in Nat
    BY DEF TermInv, NodeTypes
  <2>1. /\ role[n] = "follower" /\ role[addr[n]] = "primary" /\ t > lastTerms[n]
        /\ lastTerms' = [lastTerms EXCEPT ![n] = t]
        /\ followerTermFile' = [followerTermFile EXCEPT ![n] = t]
        /\ conn' = [conn EXCEPT ![n] = "stream"]
        /\ highest' = [highest EXCEPT ![n] = F!max(highest[n], t)]
        /\ UNCHANGED <<termFiles, config, role, term, addr, lost>>
    BY <1>1 DEF F!handshakeNew, F!dialled, F!streams, F!servers
  <2>2. unsaved' = [unsaved EXCEPT ![n] = unsaved[n] /\ t < highest[n]]
    BY <1>1 DEF F!handshakeNew
  <2>3. unsaved' \in [Node -> BOOLEAN]
    BY <2>2 DEF TermInv, NodeTypes
  <2>4. F!max(highest[n], t) \in Nat
    BY <2>0 DEF F!max
  <2> HIDE DEF t
  <2>5. NodeTypes'
    BY <2>0, <2>1, <2>3, <2>4 DEF TermInv, NodeTypes
  <2>6. StreamTerms'
    BY <2>0, <2>1 DEF TermInv, NodeTypes, StreamTerms, following, t
  <2>7. kept(n)' => highest[n] <= t
    <3>1. CASE unsaved[n]
      <4>1. unsaved'[n] = (unsaved[n] /\ t < highest[n])
        BY <2>2 DEF TermInv, NodeTypes
      <4>2. kept(n)' => ~(t < highest[n])
        BY <3>1, <4>1 DEF kept
      <4>3. PICK a, b : a = highest[n] /\ b = t
        OBVIOUS
      <4>4. a \in Nat /\ b \in Nat
        BY <2>0, <4>3
      <4>5. ~(b < a) => a <= b
        BY SMTT(30), <4>4
      <4> QED
        BY <4>2, <4>3, <4>5
    <3>2. CASE ~unsaved[n]
      BY SMTT(30), <2>0, <2>1, <3>2 DEF TermInv, NodeTypes, StoredTerms, following, kept
    <3> QED BY <3>1, <3>2
  <2>8. kept(n)' => highest'[n] <= followerTermFile'[n] /\ lastTerms'[n] = followerTermFile'[n]
    BY SMTT(30), <2>0, <2>1, <2>7 DEF TermInv, NodeTypes, F!max
  <2>9. \A f \in Node \ {n} : kept(f)' = kept(f)
    BY <2>1, <2>2 DEF TermInv, NodeTypes, kept
  <2>10. StoredTerms'
    BY <2>1, <2>8, <2>9 DEF TermInv, NodeTypes, StoredTerms, following
  <2> QED BY <2>5, <2>6, <2>10 DEF TermInv
<1>2. CASE F!handshakeSame(n)
  <2> DEFINE t == term[addr[n]]
  <2>0. t \in Nat /\ lastTerms[n] \in Nat /\ highest[n] \in Nat /\ followerTermFile[n] \in Nat
    BY DEF TermInv, NodeTypes
  <2>1. /\ role[n] = "follower" /\ role[addr[n]] = "primary"
        /\ t <= lastTerms[n] /\ (lastTerms[n] = 0 \/ t >= lastTerms[n])
        /\ conn' = [conn EXCEPT ![n] = "stream"]
        /\ highest' = [highest EXCEPT ![n] = F!max(highest[n], t)]
        /\ UNCHANGED <<termFiles, followerTermFile, lastTerms, config, role, term, addr, unsaved, lost>>
    BY <1>2 DEF F!handshakeSame, F!dialled, F!accepted, F!streams, F!files, F!servers, F!excuses
  <2>2. t = lastTerms[n]
    <3>1. PICK a, b : a = lastTerms[n] /\ b = t
      OBVIOUS
    <3>2. a \in Nat /\ b \in Nat /\ b <= a /\ (a = 0 \/ b >= a)
      BY <2>0, <2>1, <3>1
    <3>3. a = b
      BY SMTT(30), <3>2
    <3> QED
      BY <3>1, <3>3
  <2>3. F!max(highest[n], t) \in Nat
    BY <2>0 DEF F!max
  <2>4. StreamTerms'
    BY <2>1, <2>2 DEF TermInv, NodeTypes, StreamTerms, following
  <2> HIDE DEF t
  <2>5. NodeTypes'
    BY <2>1, <2>3 DEF TermInv, NodeTypes
  <2>6. kept(n)' => highest'[n] <= followerTermFile'[n]
    BY <2>0, <2>1, <2>2 DEF TermInv, NodeTypes, StoredTerms, following, kept, F!max
  <2>7. StoredTerms'
    BY <2>1, <2>6 DEF TermInv, NodeTypes, StoredTerms, following, kept
  <2> QED BY <2>4, <2>5, <2>7 DEF TermInv
<1>3. CASE F!handshakeFail(n)
  BY SMTT(30), <1>3 DEF TermInv, NodeTypes, StreamTerms, StoredTerms, following, kept, F!handshakeFail,
                        F!dialled, F!files, F!servers, F!streamed
<1> QED BY <1>1, <1>2, <1>3 DEF F!Handshake

\* A connection is read, breaks, or leads elsewhere.
LEMMA ConnStep ==
  ASSUME TermInv, NEW n \in Node, F!receive(n) \/ F!connLost(n) \/ \E p \in Node : F!Repoint(n, p)
  PROVE  TermInv'
<1>1. CASE F!receive(n)
  <2>1. UNCHANGED <<config, role, addr, termFiles, term, followerTermFile, lastTerms, highest, unsaved, lost>>
    BY <1>1 DEF F!receive, F!files, F!servers, F!excuses
  <2>2. PICK C : C = {"none", "stream", "silent"}
    OBVIOUS
  <2>3. conn \in [Node -> C] /\ "none" \in C /\ "none" # "stream"
    BY <2>2 DEF TermInv, NodeTypes
  <2>4. conn' = conn \/ conn' = [conn EXCEPT ![n] = "none"]
    BY <1>1 DEF F!receive
  <2>5. conn' \in [Node -> C] /\ \A f \in Node : conn'[f] = "stream" => conn[f] = "stream"
    BY <2>3, <2>4
  <2> QED
    BY SMTT(30), <2>1, <2>2, <2>5 DEF TermInv, NodeTypes, StreamTerms, StoredTerms, following, kept
<1>2. CASE F!connLost(n)
  <2>1. UNCHANGED <<config, role, addr, termFiles, term, followerTermFile, lastTerms, highest, unsaved, lost>>
    BY <1>2 DEF F!connLost, F!files, F!servers, F!streamed, F!excuses
  <2>2. PICK C : C = {"none", "stream", "silent"}
    OBVIOUS
  <2>3. conn \in [Node -> C] /\ "none" \in C /\ "none" # "stream"
    BY <2>2 DEF TermInv, NodeTypes
  <2>4. conn' = [conn EXCEPT ![n] = "none"]
    BY <1>2 DEF F!connLost
  <2>5. conn' \in [Node -> C] /\ \A f \in Node : conn'[f] = "stream" => conn[f] = "stream"
    BY <2>3, <2>4
  <2> QED
    BY SMTT(30), <2>1, <2>2, <2>5 DEF TermInv, NodeTypes, StreamTerms, StoredTerms, following, kept
<1>3. ASSUME NEW p \in Node, F!Repoint(n, p)
      PROVE  TermInv'
  BY SMTT(30), <1>3 DEF TermInv, NodeTypes, StreamTerms, StoredTerms, following, kept, F!Repoint, F!files,
                        F!servers, F!streamed, F!excuses
<1> QED BY <1>1, <1>2, <1>3

\* A follower without a connection becomes a primary without a server.
LEMMA PromoteStep ==
  ASSUME TermInv, NEW n \in Node, F!PromoteToPrimary(n) \/ F!PromoteFail(n)
  PROVE  TermInv'
<1>1. CASE F!PromoteToPrimary(n)
  BY SMTT(30), <1>1 DEF TermInv, NodeTypes, StreamTerms, StoredTerms, following, kept, F!PromoteToPrimary,
                        F!BumpTerm, F!follower, F!streamed, F!excuses
<1>2. CASE F!PromoteFail(n)
  BY SMTT(30), <1>2 DEF TermInv, NodeTypes, StreamTerms, StoredTerms, following, kept, F!PromoteFail,
                        F!BumpTerm, F!servers, F!follower, F!streamed, F!excuses
<1> QED BY ZenonT(30), <1>1, <1>2

\* With a node its streams end, at both ends.
LEMMA CrashStep ==
  ASSUME TermInv, NEW n \in Node, F!Kill(n) \/ F!PowerFailure(n)
  PROVE  TermInv'
<1>1. PICK c \in {"none", "silent"} : F!gone(n, c)
  BY DEF F!Kill, F!PowerFailure
<1>2. StreamTerms'
  BY <1>1 DEF TermInv, NodeTypes, StreamTerms, following, F!gone
<1>3. CASE F!Kill(n)
  BY SMTT(30), <1>1, <1>2, <1>3 DEF TermInv, NodeTypes, StoredTerms, following, kept, F!gone, F!Kill, F!files,
                                    F!streamed
<1>4. CASE F!PowerFailure(n)
  <2>1. PICK t \in {termFiles[n], 0}, u \in {followerTermFile[n], 0} :
          /\ termFiles' = [termFiles EXCEPT ![n] = t]
          /\ followerTermFile' = [followerTermFile EXCEPT ![n] = u]
    BY <1>4 DEF F!PowerFailure
  <2>2. lost' = [lost EXCEPT ![n] = lost[n] \/ F!files' # F!files]
    BY <1>4 DEF F!PowerFailure
  <2>3. NodeTypes'
    BY SMTT(30), <1>1, <2>1, <2>2 DEF TermInv, NodeTypes, F!gone, F!streamed
  <2>4. kept(n)' => followerTermFile' = followerTermFile /\ kept(n)
    BY <1>1, <2>2 DEF TermInv, NodeTypes, kept, F!files, F!gone
  <2>5. StoredTerms'
    BY <1>1, <2>1, <2>2, <2>4 DEF TermInv, NodeTypes, StoredTerms, following, kept, F!gone, F!streamed
  <2> QED BY <1>2, <2>3, <2>5 DEF TermInv
<1> QED BY <1>3, <1>4

\* Every step keeps it.
LEMMA TermsInductive == TermInv /\ [F!Next]_(F!vars) => TermInv'
<1> SUFFICES ASSUME TermInv, [F!Next]_(F!vars)
             PROVE  TermInv'
  OBVIOUS
<1>1. ASSUME NEW n \in Node, F!Follow(n)
      PROVE  TermInv'
  BY <1>1, ServerStep, HandshakeStep, ConnStep DEF F!Follow
<1>2. ASSUME NEW n \in Node, F!Promote(n)
      PROVE  TermInv'
  BY <1>2, ServerStep, PromoteStep DEF F!Promote
<1>3. ASSUME NEW n \in Node, F!Operate(n)
      PROVE  TermInv'
  BY <1>3, ServerStep, ConnStep DEF F!Operate
<1>4. ASSUME NEW n \in Node, F!Kill(n) \/ F!PowerFailure(n)
      PROVE  TermInv'
  BY <1>4, CrashStep
<1>5. CASE UNCHANGED F!vars
  BY <1>5 DEF F!vars, F!files, F!servers, F!follower, F!streamed, F!excuses, TermInv, NodeTypes, StreamTerms,
              StoredTerms, following, kept
<1> QED BY <1>1, <1>2, <1>3, <1>4, <1>5 DEF F!Next

\* However nodes are promoted, crash and come back, a follower whose term file
\* was stored takes no frame of a lower term than it has streamed at: the term
\* check of the handshake and of every frame, and the file they rest on.
THEOREM Fencing == First \in Node => (F!Spec => []F!StaleFenced)
<1>1. TermInv => F!StaleFenced
  BY DEF TermInv, NodeTypes, StreamTerms, StoredTerms, F!StaleFenced, following, kept
<1> QED BY <1>1, TermsInitially, TermsInductive, PTL DEF F!Spec

==============================================================================
