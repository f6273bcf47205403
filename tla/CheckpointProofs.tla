-------------------------- MODULE CheckpointProofs --------------------------
(***************************************************************************)
(* Proofs that snapshots, their cleanup and the truncation of the log lose *)
(* nothing, apply nothing twice and reuse no LSN, for any number of        *)
(* batches, crashes, faults and damaged files, and any number of snapshots *)
(* kept.                                                                   *)
(***************************************************************************)
EXTENDS Checkpoint, FiniteSetTheorems, TLAPS

Rec == [pos : Nat, lsn : Nat, seg : Nat]
Snapshot == [ok : BOOLEAN, state : [Batch -> Nat]]
Files == [snaps : UNION {[D -> Snapshot] : D \in SUBSET Nat}, wal : SUBSET Rec]

(* In the definitions that follow, h is the number of batches written, c the *)
(* live segment, and g tells whether a snapshot file was damaged.            *)

\* st is the state after the first n batches; damage may have cost some.
Good(st, n, g) ==
  /\ st \in [Batch -> Nat]
  /\ \A p \in Batch : /\ st[p] <= 1
                      /\ p > n => st[p] = 0
                      /\ ~g /\ p <= n => st[p] = 1

\* LSNs are positions, and the end of the log is in the live segment.
LogOK(w, h, c) ==
  /\ \A r \in w : r.pos \in 1 .. h /\ r.lsn = r.pos /\ r.seg <= c
  /\ h > 0 => \E r \in w : r.pos = h /\ r.seg = c

SnapsOK(f, h, g) ==
  \A l \in DOMAIN f : l \in 1 .. h /\ Good(f[l].state, l, g) /\ (~g => f[l].ok)

\* A batch is in the log or below a snapshot.
Complete(d, h, g) ==
  ~g => \A p \in 1 .. h : \/ \E r \in d.wal : r.pos = p
                          \/ \E l \in DOMAIN d.snaps : p <= l

Sound(d, h, c, g) == d \in Files /\ LogOK(d.wal, h, c) /\ SnapsOK(d.snaps, h, g) /\ Complete(d, h, g)

Working == {"viewed", "written", "synced", "renamed", "cleaned"}

\* The snapshot in the making.
ViewOK ==
  cp \in Working =>
    /\ view.lsn \in base .. head /\ Good(view.state, view.lsn, damaged)
    /\ cp # "viewed" => view.lsn > 0
    /\ \A l \in snaps : l <= view.lsn
    /\ cp \in {"renamed", "cleaned"} => view.lsn \in snaps

Retained ==
  cycleOK /\ node \in {"starting", "serving"} /\ base > 0 /\ ~damaged => \E l \in snaps : l >= base

Running ==
  /\ node # "down" => lsn = head /\ base <= head /\ Good(state, head, damaged)
  /\ loop => node # "down"
  /\ node \in {"starting", "serving"} => loop

Disk == dir \in cut /\ \A d \in cut : Sound(d, head, cur, damaged)

Core ==
  /\ head \in 0 .. MaxBatches /\ cur \in Nat /\ base \in Nat /\ damaged \in BOOLEAN
  /\ Disk /\ Running /\ ViewOK /\ Retained

\* Nothing is claimed of a reseeded ledger, which Next does not let go on.
IInv == ~reseeded => Core

-----------------------------------------------------------------------------
(* The files *)

\* What is in a directory.
LEMMA Fields ==
  ASSUME NEW d \in Files
  PROVE  /\ d.wal \in SUBSET Rec
         /\ DOMAIN d.snaps \in SUBSET Nat
         /\ \A l \in DOMAIN d.snaps : d.snaps[l] \in Snapshot
         /\ d.snaps \in [DOMAIN d.snaps -> Snapshot]
<1>1. PICK D \in SUBSET Nat : d.snaps \in [D -> Snapshot]
  BY DEF Files
<1> QED BY <1>1 DEF Files

\* Writing to the log leaves the snapshots alone, ...
LEMMA WithWal ==
  ASSUME NEW d \in Files, NEW w \in SUBSET Rec
  PROVE  /\ [d EXCEPT !.wal = w] \in Files
         /\ [d EXCEPT !.wal = w].wal = w
         /\ [d EXCEPT !.wal = w].snaps = d.snaps
BY DEF Files

\* ... and the other way round.
LEMMA WithSnaps ==
  ASSUME NEW d \in Files, NEW D \in SUBSET Nat, NEW f \in [D -> Snapshot]
  PROVE  /\ [d EXCEPT !.snaps = f] \in Files
         /\ [d EXCEPT !.snaps = f].snaps = f
         /\ [d EXCEPT !.snaps = f].wal = d.wal
<1>1. f \in UNION {[E -> Snapshot] : E \in SUBSET Nat}
  OBVIOUS
<1> QED BY <1>1 DEF Files

\* A segment that recovery skips holds nothing above the snapshot, so that it
\* is the LSN alone that decides what is replayed.
LEMMA ReplayedAbove ==
  ASSUME NEW w \in SUBSET Rec, NEW h \in Nat, NEW c \in Nat, LogOK(w, h, c), NEW s \in Nat
  PROVE  replayed(w, s) = {r \in w : r.pos > s}
<1>1. ASSUME NEW r \in w, r.pos > s, skipped(w, r.seg, s)
      PROVE  FALSE
  <2>1. PICK q \in w : q.seg = r.seg /\ lastOfSegment(w, q) /\ q.lsn <= s
    BY <1>1 DEF skipped
  <2>2. r.pos <= q.pos
    BY <2>1 DEF lastOfSegment
  <2>3. q.lsn = q.pos /\ q.pos \in Nat /\ r.pos \in Nat
    BY DEF LogOK, Rec
  <2> QED BY <1>1, <2>1, <2>2, <2>3
<1>2. \A r \in w : r.lsn = r.pos
  BY DEF LogOK
<1> QED BY <1>1, <1>2 DEF replayed

\* Recovery from sound files rebuilds the state after the last batch.
LEMMA Recovered ==
  ASSUME NEW h \in 0 .. MaxBatches, NEW c \in Nat, NEW g \in BOOLEAN, NEW d, Sound(d, h, c, g),
         NEW s, Latest(d, s)
  PROVE  s \in 0 .. h /\ Good(applyAll(Read(d, s), replayed(d.wal, s)), h, g)
<1>0. MaxBatches \in Nat /\ h \in Nat
  BY BoundsAssumption
<1>1. /\ d \in Files /\ LogOK(d.wal, h, c) /\ SnapsOK(d.snaps, h, g) /\ Complete(d, h, g)
      /\ d.wal \in SUBSET Rec
  BY Fields DEF Sound
<1>2. s \in 0 .. h /\ (s # 0 => s \in DOMAIN d.snaps)
  BY <1>0, <1>1 DEF Latest, readable, SnapsOK
<1>3. Good(Read(d, s), s, g)
  <2>1. CASE s = 0
    BY <1>0, <2>1 DEF Read, Good, blank, Batch
  <2>2. CASE s # 0
    BY <1>1, <1>2, <2>2 DEF Read, SnapsOK
  <2> QED BY <2>1, <2>2
<1>4. replayed(d.wal, s) = {r \in d.wal : r.pos > s}
  BY <1>0, <1>1, <1>2, ReplayedAbove
<1> DEFINE old == Read(d, s)
           recs == {r \in d.wal : r.pos > s}
           new == applyAll(old, recs)
<1>5. new \in [Batch -> Nat]
  BY <1>3 DEF applyAll, Good
<1>6. ASSUME NEW p \in Batch
      PROVE  /\ new[p] <= 1
             /\ p > h => new[p] = 0
             /\ ~g /\ p <= h => new[p] = 1
  <2>0. p \in Nat /\ p > 0 /\ s \in Nat /\ s <= h /\ old[p] \in Nat
    BY <1>0, <1>2, <1>3 DEF Batch, Good
  <2>1. /\ old[p] <= 1
        /\ p > s => old[p] = 0
        /\ ~g /\ p <= s => old[p] = 1
    BY <1>3 DEF Good
  <2>2. new[p] = IF \E r \in recs : r.pos = p THEN old[p] + 1 ELSE old[p]
    BY DEF applyAll
  <2>3. ASSUME NEW r \in recs, r.pos = p
        PROVE  p > s /\ p <= h
    BY <1>0, <1>1, <2>3 DEF LogOK
  <2>4. ASSUME ~g, p <= h, p > s
        PROVE  \E r \in recs : r.pos = p
    <3>1. ~ \E l \in DOMAIN d.snaps : p <= l
      <4>1. SUFFICES ASSUME NEW l \in DOMAIN d.snaps, p <= l
                     PROVE  FALSE
        OBVIOUS
      <4>2. l \in readable(d) /\ l \in Nat
        BY <1>0, <1>1, <2>4 DEF SnapsOK, readable
      <4>3. l <= s
        BY <4>2 DEF Latest
      <4> QED BY <2>0, <2>4, <4>1, <4>2, <4>3
    <3>2. p \in 1 .. h
      BY <1>0, <2>0, <2>4
    <3> QED BY <1>1, <2>4, <3>1, <3>2 DEF Complete
  <2> HIDE DEF old, recs, new
  <2> QED BY <1>0, <2>0, <2>1, <2>2, <2>3, <2>4
<1> QED BY <1>2, <1>4, <1>5, <1>6 DEF Good

\* ... and the LSN.
LEMMA RecoveredLSN ==
  ASSUME NEW h \in 0 .. MaxBatches, NEW c \in Nat, NEW g \in BOOLEAN, NEW d, Sound(d, h, c, g),
         NEW s \in 0 .. h, NEW l, RecoverLSN(d.wal, s, l)
  PROVE  l = h
<1>0. h \in Nat /\ d.wal \in SUBSET Rec /\ LogOK(d.wal, h, c)
  BY BoundsAssumption, Fields DEF Sound
<1>1. CASE d.wal = {} /\ l = s
  BY <1>0, <1>1 DEF LogOK
<1>2. ASSUME NEW r \in d.wal, lastRecord(d.wal, r), l = larger(r.lsn, s)
      PROVE  l = h
  <2>1. r.pos \in 1 .. h /\ r.lsn = r.pos
    BY <1>0 DEF LogOK
  <2>2. PICK q \in d.wal : q.pos = h
    BY <1>0, <2>1 DEF LogOK
  <2>3. h <= r.pos
    BY <1>2, <2>2 DEF lastRecord
  <2> QED BY <1>0, <1>2, <2>1, <2>3 DEF larger
<1> QED BY <1>1, <1>2 DEF RecoverLSN

-----------------------------------------------------------------------------
(* What the operations do to the files *)

\* A record is appended at the next LSN, perhaps to a new segment.
LEMMA Appended ==
  ASSUME NEW h \in Nat, NEW c \in Nat, NEW g \in BOOLEAN, NEW d, Sound(d, h, c, g),
         NEW k \in {c, c + 1}
  PROVE  Sound([d EXCEPT !.wal = @ \cup {[pos |-> h + 1, lsn |-> h + 1, seg |-> k]}], h + 1, k, g)
<1> DEFINE r0 == [pos |-> h + 1, lsn |-> h + 1, seg |-> k]
           w == d.wal \cup {r0}
           e == [d EXCEPT !.wal = w]
<1>1. d \in Files /\ LogOK(d.wal, h, c) /\ SnapsOK(d.snaps, h, g) /\ Complete(d, h, g)
  BY DEF Sound
<1>2. k \in Nat /\ c <= k /\ r0 \in Rec /\ w \in SUBSET Rec
  BY <1>1, Fields DEF Rec
<1>3. e \in Files /\ e.wal = w /\ e.snaps = d.snaps
  <2> HIDE DEF w
  <2> QED BY <1>1, <1>2, WithWal
<1>4. LogOK(w, h + 1, k)
  <2>1. \A r \in d.wal : r.pos \in 1 .. h /\ r.lsn = r.pos /\ r.seg <= c /\ r.seg \in Nat
    BY <1>1, <1>2 DEF LogOK, Rec
  <2>2. \A r \in d.wal : r.pos \in 1 .. h + 1 /\ r.lsn = r.pos /\ r.seg <= k
    BY <1>2, <2>1
  <2>3. r0.pos = h + 1 /\ r0.lsn = h + 1 /\ r0.seg = k
    OBVIOUS
  <2> QED BY <1>2, <2>2, <2>3 DEF LogOK
<1>5. SnapsOK(d.snaps, h + 1, g)
  BY <1>1 DEF SnapsOK
<1>6. Complete(e, h + 1, g)
  <2> SUFFICES ASSUME ~g, NEW p \in 1 .. h + 1
               PROVE  \/ \E r \in w : r.pos = p
                      \/ \E l \in DOMAIN d.snaps : p <= l
    BY <1>3 DEF Complete
  <2>1. CASE p = h + 1
    <3>1. r0 \in w /\ r0.pos = p
      BY <2>1
    <3> QED BY <3>1
  <2>2. CASE p \in 1 .. h
    BY <1>1, <2>2 DEF Complete
  <2> QED BY <2>1, <2>2
<1> HIDE DEF w
<1> QED BY <1>3, <1>4, <1>5, <1>6 DEF Sound, w

\* A snapshot of the first l batches is added.
LEMMA Added ==
  ASSUME NEW h \in Nat, NEW c \in Nat, NEW g \in BOOLEAN, NEW d, Sound(d, h, c, g),
         NEW l \in 1 .. h, NEW st, Good(st, l, g)
  PROVE  /\ Sound(withFile(d, l, [ok |-> TRUE, state |-> st]), h, c, g)
         /\ DOMAIN withFile(d, l, [ok |-> TRUE, state |-> st]).snaps = DOMAIN d.snaps \cup {l}
<1> DEFINE file == [ok |-> TRUE, state |-> st]
           D == DOMAIN d.snaps \cup {l}
           f == [k \in D |-> IF k = l THEN file ELSE d.snaps[k]]
           e == [d EXCEPT !.snaps = f]
<1>1. /\ d \in Files /\ LogOK(d.wal, h, c) /\ SnapsOK(d.snaps, h, g) /\ Complete(d, h, g)
      /\ DOMAIN d.snaps \in SUBSET Nat /\ \A k \in DOMAIN d.snaps : d.snaps[k] \in Snapshot
  BY Fields DEF Sound
<1>2. file \in Snapshot
  BY DEF Good, Snapshot
<1>3. D \in SUBSET Nat /\ f \in [D -> Snapshot]
  <2> HIDE DEF file
  <2> QED BY <1>1, <1>2
<1>4. e \in Files /\ e.snaps = f /\ e.wal = d.wal
  <2> HIDE DEF f, D
  <2> QED BY <1>1, <1>3, WithSnaps
<1>5. SnapsOK(f, h, g)
  <2> SUFFICES ASSUME NEW k \in D
               PROVE  k \in 1 .. h /\ Good(f[k].state, k, g) /\ (~g => f[k].ok)
    BY DEF SnapsOK
  <2>1. CASE k = l
    BY <2>1
  <2>2. CASE k # l
    <3>1. f[k] = d.snaps[k] /\ k \in DOMAIN d.snaps
      BY <2>2
    <3> QED BY <1>1, <3>1 DEF SnapsOK
  <2> QED BY <2>1, <2>2
<1>6. Complete(e, h, g)
  BY <1>1, <1>4 DEF Complete
<1>7. withFile(d, l, file) = e
  BY DEF withFile
<1> HIDE DEF e, f
<1> QED BY <1>1, <1>3, <1>4, <1>5, <1>6, <1>7 DEF Sound

\* Snapshots are removed, but not the newest.
LEMMA Pruned ==
  ASSUME NEW h \in Nat, NEW c \in Nat, NEW g \in BOOLEAN, NEW d, Sound(d, h, c, g),
         NEW gone, NEW m \in DOMAIN d.snaps \ gone, \A l \in DOMAIN d.snaps : l <= m
  PROVE  /\ Sound([d EXCEPT !.snaps = [l \in DOMAIN d.snaps \ gone |-> d.snaps[l]]], h, c, g)
         /\ DOMAIN [d EXCEPT !.snaps = [l \in DOMAIN d.snaps \ gone |-> d.snaps[l]]].snaps
              = DOMAIN d.snaps \ gone
<1> DEFINE D == DOMAIN d.snaps \ gone
           f == [l \in D |-> d.snaps[l]]
           e == [d EXCEPT !.snaps = f]
<1>1. /\ d \in Files /\ LogOK(d.wal, h, c) /\ SnapsOK(d.snaps, h, g) /\ Complete(d, h, g)
      /\ DOMAIN d.snaps \in SUBSET Nat /\ \A k \in DOMAIN d.snaps : d.snaps[k] \in Snapshot
  BY Fields DEF Sound
<1>2. D \in SUBSET Nat /\ f \in [D -> Snapshot]
  BY <1>1
<1>3. e \in Files /\ e.snaps = f /\ e.wal = d.wal
  <2> HIDE DEF f, D
  <2> QED BY <1>1, <1>2, WithSnaps
<1>4. SnapsOK(f, h, g)
  BY <1>1 DEF SnapsOK
<1>5. Complete(e, h, g)
  <2> SUFFICES ASSUME ~g, NEW p \in 1 .. h, NEW l \in DOMAIN d.snaps, p <= l
               PROVE  \E k \in D : p <= k
    BY <1>1, <1>3 DEF Complete
  <2>1. m \in Nat /\ l \in Nat /\ l <= m /\ m \in D
    BY <1>1
  <2> QED BY <2>1
<1>6. Sound(e, h, c, g) /\ DOMAIN e.snaps = D
  <2> HIDE DEF e, f
  <2> QED BY <1>1, <1>2, <1>3, <1>4, <1>5 DEF Sound
<1> QED BY <1>6

\* Closed segments below a snapshot are removed.
LEMMA Truncated ==
  ASSUME NEW h \in Nat, NEW c \in Nat, NEW g \in BOOLEAN, NEW d, Sound(d, h, c, g),
         NEW m \in DOMAIN d.snaps,
         NEW w \in SUBSET d.wal, \A r \in d.wal \ w : r.seg < c /\ r.pos <= m
  PROVE  Sound([d EXCEPT !.wal = w], h, c, g) /\ [d EXCEPT !.wal = w].snaps = d.snaps
<1> DEFINE e == [d EXCEPT !.wal = w]
<1>1. /\ d \in Files /\ LogOK(d.wal, h, c) /\ SnapsOK(d.snaps, h, g) /\ Complete(d, h, g)
      /\ d.wal \in SUBSET Rec
  BY Fields DEF Sound
<1>2. e \in Files /\ e.wal = w /\ e.snaps = d.snaps
  <2>1. w \in SUBSET Rec
    BY <1>1
  <2> QED BY <1>1, <2>1, WithWal
<1>3. LogOK(w, h, c)
  <2>1. h > 0 => \E r \in w : r.pos = h /\ r.seg = c
    <3>1. SUFFICES ASSUME h > 0 PROVE \E r \in w : r.pos = h /\ r.seg = c
      OBVIOUS
    <3>2. PICK r \in d.wal : r.pos = h /\ r.seg = c
      BY <1>1, <3>1 DEF LogOK
    <3>3. r \in w
      BY <3>2
    <3> QED BY <3>2, <3>3
  <2> QED BY <1>1, <2>1 DEF LogOK
<1>4. Complete(e, h, g)
  <2> SUFFICES ASSUME ~g, NEW p \in 1 .. h
               PROVE  \/ \E r \in w : r.pos = p
                      \/ \E l \in DOMAIN d.snaps : p <= l
    BY <1>2 DEF Complete
  <2> QED BY <1>1 DEF Complete
<1> QED BY <1>1, <1>2, <1>3, <1>4 DEF Sound

\* A snapshot becomes unreadable: it is still there, with the same state.
LEMMA Spoiled ==
  ASSUME NEW d \in Files, NEW l
  PROVE  /\ spoil(d, l) \in Files /\ spoil(d, l).wal = d.wal
         /\ DOMAIN spoil(d, l).snaps = DOMAIN d.snaps
         /\ \A k \in DOMAIN d.snaps : spoil(d, l).snaps[k].state = d.snaps[k].state
<1>1. CASE l \in DOMAIN d.snaps
  <2> DEFINE f == [d.snaps EXCEPT ![l].ok = FALSE]
             D == DOMAIN d.snaps
  <2>1. D \in SUBSET Nat /\ d.snaps[l] \in Snapshot /\ d.snaps \in [D -> Snapshot]
    BY <1>1, Fields
  <2>2. /\ [d.snaps[l] EXCEPT !.ok = FALSE] \in Snapshot
        /\ [d.snaps[l] EXCEPT !.ok = FALSE].state = d.snaps[l].state
    BY <2>1 DEF Snapshot
  <2>3. f \in [D -> Snapshot] /\ \A k \in D : f[k].state = d.snaps[k].state
    BY <1>1, <2>1, <2>2
  <2>4. spoil(d, l) = [d EXCEPT !.snaps = f]
    BY <1>1 DEF spoil
  <2>5. D = DOMAIN d.snaps
    OBVIOUS
  <2> HIDE DEF f, D
  <2>6. /\ [d EXCEPT !.snaps = f] \in Files
        /\ [d EXCEPT !.snaps = f].snaps = f
        /\ [d EXCEPT !.snaps = f].wal = d.wal
    BY <2>1, <2>3, WithSnaps
  <2> QED BY <2>3, <2>4, <2>5, <2>6
<1>2. CASE l \notin DOMAIN d.snaps
  BY <1>2 DEF spoil
<1> QED BY <1>1, <1>2

\* Of damaged files less is claimed.
LEMMA Damaged ==
  ASSUME NEW h \in Nat, NEW c \in Nat, NEW g \in BOOLEAN, NEW d, Sound(d, h, c, g), NEW l
  PROVE  Sound(spoil(d, l), h, c, TRUE)
<1>1. d \in Files /\ LogOK(d.wal, h, c) /\ SnapsOK(d.snaps, h, g)
  BY DEF Sound
<1>2. /\ spoil(d, l) \in Files /\ spoil(d, l).wal = d.wal
      /\ DOMAIN spoil(d, l).snaps = DOMAIN d.snaps
      /\ \A k \in DOMAIN d.snaps : spoil(d, l).snaps[k].state = d.snaps[k].state
  BY <1>1, Spoiled
<1>3. SnapsOK(spoil(d, l).snaps, h, TRUE)
  BY <1>1, <1>2 DEF SnapsOK, Good
<1> QED BY <1>1, <1>2, <1>3 DEF Sound, Complete

-----------------------------------------------------------------------------
(* The inductive invariant *)

\* The files stay as they are.
LEMMA SameFiles ==
  ASSUME Disk, UNCHANGED <<dir, cut, cur, head, damaged>>
  PROVE  Disk'
BY DEF Disk

\* The process is gone: nothing is claimed of its memory.
LEMMA Exited ==
  ASSUME exit
  PROVE  Running' /\ ViewOK' /\ Retained' /\ base' \in Nat
BY DEF exit, Running, ViewOK, Retained, Working

\* What is always known of the bounds and of the files.
LEMMA Basics ==
  ASSUME Core
  PROVE  /\ head \in Nat /\ cur \in Nat /\ base \in Nat /\ head <= MaxBatches /\ MaxBatches \in Nat
         /\ damaged \in BOOLEAN
         /\ dir \in cut /\ Sound(dir, head, cur, damaged) /\ dir \in Files
         /\ snaps \in SUBSET (1 .. head)
BY BoundsAssumption DEF Core, Disk, Sound, SnapsOK, snaps

\* It holds of an empty directory.
LEMMA Initially == Init => IInv
<1> SUFFICES ASSUME Init PROVE Core
  BY DEF IInv
<1>1. Sound(dir, head, cur, damaged)
  <2>1. dir = [snaps |-> [l \in {} |-> 0], wal |-> {}]
    BY DEF Init
  <2>2. dir.wal = {} /\ dir.snaps = [l \in {} |-> 0] /\ DOMAIN dir.snaps = {}
    BY <2>1
  <2>3. dir.snaps \in [{} -> Snapshot]
    BY <2>2
  <2>4. dir \in Files
    <3>1. dir.snaps \in UNION {[D -> Snapshot] : D \in SUBSET Nat}
      BY <2>3
    <3>2. dir = [snaps |-> dir.snaps, wal |-> dir.wal]
      BY <2>1, <2>2
    <3> QED BY <2>2, <3>1, <3>2 DEF Files
  <2> QED BY <2>2, <2>4 DEF Init, Sound, LogOK, SnapsOK, Complete
<1>2. cut = {dir} /\ head = 0 /\ cur = 1 /\ base = 0 /\ damaged = FALSE
  BY DEF Init
<1>3. Running /\ ViewOK /\ Retained
  BY DEF Init, Running, ViewOK, Retained, Working
<1>4. head \in 0 .. MaxBatches /\ cur \in Nat /\ base \in Nat /\ damaged \in BOOLEAN
  <2>1. MaxBatches \in Nat
    BY BoundsAssumption
  <2>2. damaged \in BOOLEAN
    BY <1>2, Zenon
  <2> QED BY <1>2, <2>1, <2>2
<1>5. Disk
  BY <1>1, <1>2 DEF Disk
<1> QED BY <1>3, <1>4, <1>5 DEF Core

\* NewLedger starts with what recovery rebuilds.
LEMMA NewLedgerStep ==
  ASSUME Core, NewLedger, ~reseeded'
  PROVE  Core'
<1>0. /\ head \in Nat /\ cur \in Nat /\ damaged \in BOOLEAN /\ Sound(dir, head, cur, damaged)
      /\ MaxBatches \in Nat /\ head <= MaxBatches
  BY Basics
<1>1. /\ head' \in 0 .. MaxBatches /\ Sound(dir', head', cur, damaged) /\ Disk'
  <2>1. CASE SeedAccounts
    <3>0. ~(head > 0) /\ head' = head + 1 /\ head < MaxBatches
      BY <2>1, Zenon DEF SeedAccounts
    <3>1. head = 0 /\ head' = head + 1 /\ head < MaxBatches
      BY <1>0, <3>0
    <3>2. dir' = [dir EXCEPT !.wal = @ \cup {[pos |-> head + 1, lsn |-> head + 1, seg |-> cur]}]
      BY <2>1, <3>1 DEF SeedAccounts, persist, seed
    <3>3. Sound(dir', head + 1, cur, damaged)
      BY <1>0, <3>2, Appended
    <3>4. cut' = {dir'} /\ cur' = cur /\ damaged' = damaged
      BY <2>1 DEF SeedAccounts, persist, NewLedger
    <3> QED BY <1>0, <3>1, <3>3, <3>4 DEF Disk
  <2>2. CASE UNCHANGED <<dir, cut, head, reseeded>>
    BY <1>0, <2>2, SameFiles DEF NewLedger, Core
  <2> QED BY <2>1, <2>2 DEF NewLedger
<1>2. PICK s : /\ Latest(dir', s)
               /\ state' = applyAll(Read(dir', s), replayed(dir'.wal, s))
               /\ RecoverLSN(dir'.wal, s, lsn')
               /\ base' = lsn'
  BY DEF NewLedger
<1>3. s \in 0 .. head' /\ Good(state', head', damaged)
  BY <1>0, <1>1, <1>2, Recovered
<1>4. lsn' = head'
  <2>1. PICK d, l : d = dir' /\ l = lsn' /\ RecoverLSN(d.wal, s, l)
    BY <1>2
  <2>2. Sound(d, head', cur, damaged)
    BY <1>1, <2>1
  <2>3. head' \in 0 .. MaxBatches /\ cur \in Nat /\ damaged \in BOOLEAN /\ s \in 0 .. head'
    BY <1>0, <1>1, <1>3
  <2>4. RecoverLSN(d.wal, s, l)
    BY <2>1
  <2>5. l = head'
    BY <2>2, <2>3, <2>4, RecoveredLSN, SMTT(30)
  <2> QED BY <2>1, <2>5
<1>5. /\ node' = "starting" /\ loop' = TRUE /\ cp' = "asked" /\ cycleOK' = FALSE
      /\ cur' = cur /\ damaged' = damaged
  BY DEF NewLedger
<1>6. Running' /\ ViewOK' /\ Retained' /\ base' \in Nat
  BY <1>0, <1>1, <1>2, <1>3, <1>4, <1>5 DEF Running, ViewOK, Retained, Working
<1> QED BY <1>0, <1>1, <1>5, <1>6 DEF Core

\* Commit extends the log and the state by the same batch.
LEMMA CommitStep ==
  ASSUME Core, Commit
  PROVE  Core'
<1>0. /\ head \in Nat /\ cur \in Nat /\ base \in Nat /\ damaged \in BOOLEAN
      /\ Sound(dir, head, cur, damaged) /\ MaxBatches \in Nat
  BY Basics
<1>1. /\ node = "serving" /\ head < MaxBatches /\ cur' \in {cur, cur + 1} /\ head' = head + 1
      /\ lsn' = lsn + 1 /\ damaged' = damaged /\ base' = base /\ node' = node /\ loop' = loop
      /\ cp' = cp /\ view' = view /\ cycleOK' = cycleOK
      /\ state' = [state EXCEPT ![head + 1] = @ + 1]
  BY DEF Commit, checkpointer, history
<1>2. lsn = head /\ base <= head /\ Good(state, head, damaged)
  BY <1>1 DEF Core, Running
<1>3. dir' = [dir EXCEPT !.wal = @ \cup {[pos |-> head + 1, lsn |-> head + 1, seg |-> cur']}] /\ cut' = {dir'}
  BY <1>2 DEF Commit, persist
<1>4. Sound(dir', head + 1, cur', damaged)
  BY <1>0, <1>1, <1>3, Appended
<1>5. snaps' = snaps
  <2>1. dir \in Files
    BY <1>0 DEF Sound
  <2> QED BY <1>3, <2>1 DEF snaps, Files
<1>6. Good(state', head + 1, damaged)
  BY <1>0, <1>1, <1>2 DEF Good, Batch
<1>7. Running'
  BY <1>0, <1>1, <1>2, <1>6 DEF Core, Running
<1>8. ViewOK' /\ Retained'
  BY <1>0, <1>1, <1>5 DEF Core, ViewOK, Retained
<1>9. cur' \in Nat
  BY <1>0, <1>1
<1> QED BY <1>0, <1>1, <1>3, <1>4, <1>7, <1>8, <1>9 DEF Core, Disk

\* The steps that touch no file but the temporary one.
LEMMA MemoryStep ==
  ASSUME Core,
         \/ Tick \/ ServeView \/ NoSnapshot \/ WriteTemp \/ WriteFail \/ TruncateFail
         \/ CloseBegin \/ LoopExit \/ StopTicker
  PROVE  Core'
<1>0. /\ head \in Nat /\ base \in Nat /\ snaps \in SUBSET (1 .. head)
      /\ Running /\ ViewOK /\ Retained /\ Disk
  BY Basics DEF Core
<1>1. CASE Tick
  BY <1>0, <1>1, SameFiles
     DEF Core, Tick, inCycle, files, process, history, Running, ViewOK, Retained, snaps, Working
<1>2. CASE ServeView
  <2>1. /\ UNCHANGED <<dir, cut, cur, head, damaged, node, loop, state, lsn, base, cycleOK>>
        /\ loop /\ view' = [lsn |-> lsn, state |-> state] /\ cp' = "viewed"
    BY <1>2 DEF ServeView, inCycle, files, process, history
  <2>2. lsn = head /\ base <= head /\ Good(state, head, damaged)
    BY <1>0, <2>1 DEF Running
  <2>3. ViewOK'
    BY <1>0, <2>1, <2>2 DEF ViewOK, snaps, Working
  <2> QED BY <1>0, <2>1, <2>3, SameFiles DEF Core, Running, Retained, snaps
<1>3. CASE NoSnapshot
  <2>1. /\ UNCHANGED <<dir, cut, cur, head, damaged, loop, state, lsn, base>>
        /\ cp' = "idle" /\ cycleOK' = TRUE
        /\ node' = IF node = "starting" THEN "serving" ELSE node
    BY <1>3 DEF NoSnapshot, cycleSucceeds, endCycle, files, history
  <2>2. node' \in {"starting", "serving"} => base = 0
    BY <1>0, <1>3, <2>1 DEF NoSnapshot, Running, ViewOK, Working
  <2> QED BY <1>0, <2>1, <2>2, SameFiles DEF Core, Running, ViewOK, Retained, Working
<1>4. CASE WriteTemp
  BY <1>0, <1>4, SameFiles
     DEF Core, WriteTemp, inCycle, files, process, history, Running, ViewOK, Retained, snaps, Working
<1>5. CASE WriteFail \/ TruncateFail
  <2>1. /\ UNCHANGED <<dir, cut, cur, head, damaged, loop, state, lsn, base, cycleOK>>
        /\ cp' = "idle"
        /\ node' = IF node = "starting" THEN "serving" ELSE node
    BY <1>5 DEF WriteFail, TruncateFail, cycleFails, endCycle, files, history
  <2> QED BY <1>0, <2>1, SameFiles DEF Core, Running, ViewOK, Retained, snaps, Working
<1>6. CASE CloseBegin
  BY <1>0, <1>6, SameFiles
     DEF Core, CloseBegin, files, checkpointer, history, Running, ViewOK, Retained, snaps
<1>7. CASE LoopExit
  BY <1>0, <1>7, SameFiles
     DEF Core, LoopExit, files, checkpointer, history, Running, ViewOK, Retained, snaps
<1>8. CASE StopTicker
  BY <1>0, <1>8, SameFiles
     DEF Core, StopTicker, files, process, history, Running, ViewOK, Retained, snaps, Working
<1> QED BY <1>1, <1>2, <1>3, <1>4, <1>5, <1>6, <1>7, <1>8

\* Whatever a cycle does to the files, they are sound and keep its snapshot.
LEMMA CycleStep ==
  ASSUME Core, SyncTemp \/ Rename \/ CleanupOldSnapshots \/ TruncateBefore
  PROVE  Core'
<1>0. /\ head \in Nat /\ cur \in Nat /\ base \in Nat /\ damaged \in BOOLEAN
      /\ dir \in cut /\ Sound(dir, head, cur, damaged) /\ dir \in Files
      /\ snaps \in SUBSET (1 .. head)
      /\ Running /\ ViewOK /\ Retained /\ Disk
  BY Basics DEF Core
<1>1. CASE SyncTemp
  <2>1. /\ UNCHANGED <<dir, cur, head, damaged, node, loop, state, lsn, base, cycleOK, view>>
        /\ cut' = {dir} /\ cp = "written" /\ cp' = "synced"
    BY <1>1 DEF SyncTemp, persist, inCycle, process, history
  <2>2. Disk'
    BY <1>0, <2>1 DEF Disk
  <2> QED BY <1>0, <2>1, <2>2 DEF Core, Running, ViewOK, Retained, snaps, Working
<1>2. CASE Rename
  <2>1. /\ UNCHANGED <<cur, head, damaged, node, loop, state, lsn, base, cycleOK, view>>
        /\ dir' = withFile(dir, view.lsn, [ok |-> TRUE, state |-> view.state])
        /\ cut' = cut \cup {dir'} /\ cp = "synced" /\ cp' = "renamed"
    BY <1>2 DEF Rename, change, inCycle, process, history
  <2>2. /\ view.lsn \in base .. head /\ view.lsn \in 1 .. head /\ Good(view.state, view.lsn, damaged)
        /\ \A l \in snaps : l <= view.lsn
    BY <1>0, <2>1 DEF ViewOK, Working
  <2>3. Sound(dir', head, cur, damaged) /\ snaps' = snaps \cup {view.lsn}
    BY <1>0, <2>1, <2>2, Added DEF snaps
  <2>4. Disk'
    BY <1>0, <2>1, <2>3 DEF Disk
  <2>5. ViewOK'
    BY <1>0, <2>1, <2>2, <2>3 DEF ViewOK, Working
  <2>6. Retained'
    BY <1>0, <2>1, <2>3 DEF Retained
  <2> QED BY <1>0, <2>1, <2>4, <2>5, <2>6 DEF Core, Running
<1>3. CASE CleanupOldSnapshots
  <2>1. PICK gone \in SUBSET surplus :
          dir' = [dir EXCEPT !.snaps = [l \in DOMAIN dir.snaps \ gone |-> dir.snaps[l]]]
    BY <1>3 DEF CleanupOldSnapshots, change, snaps
  <2>2. /\ UNCHANGED <<cur, head, damaged, node, loop, state, lsn, base, cycleOK, view>>
        /\ cut' = cut \cup {dir'} /\ cp = "renamed" /\ cp' = "cleaned"
    BY <1>3 DEF CleanupOldSnapshots, change, inCycle, process, history
  <2>3. /\ view.lsn \in base .. head /\ view.lsn > 0 /\ Good(view.state, view.lsn, damaged)
        /\ \A l \in snaps : l <= view.lsn
        /\ view.lsn \in snaps
    BY <1>0, <2>2 DEF ViewOK, Working
  <2>4. view.lsn \notin surplus
    <3>0. \A k \in snaps : k \in Nat /\ view.lsn \in Nat /\ k <= view.lsn
      BY <1>0, <2>3
    <3>1. {k \in snaps : k > view.lsn} = {}
      BY <3>0
    <3>2. Cardinality({k \in snaps : k > view.lsn}) = 0
      BY <3>1, FS_EmptySet
    <3>3. Kept \in Nat /\ Kept > 0
      BY KeptAssumption
    <3> QED BY <3>2, <3>3 DEF surplus
  <2>5. view.lsn \in DOMAIN dir.snaps \ gone
    BY <2>1, <2>3, <2>4 DEF snaps
  <2>6. \A l \in DOMAIN dir.snaps : l <= view.lsn
    BY <2>3 DEF snaps
  <2>7. Sound(dir', head, cur, damaged) /\ DOMAIN dir'.snaps = DOMAIN dir.snaps \ gone
    BY <1>0, <2>1, <2>5, <2>6, Pruned
  <2>8. Disk'
    BY <1>0, <2>2, <2>7 DEF Disk
  <2>9. ViewOK'
    BY <2>2, <2>3, <2>5, <2>6, <2>7 DEF ViewOK, Working, snaps
  <2>10. Retained'
    BY <1>0, <2>2, <2>3, <2>5, <2>7 DEF Retained, snaps
  <2> QED BY <1>0, <2>2, <2>8, <2>9, <2>10 DEF Core, Running
<1>4. CASE TruncateBefore
  <2>1. PICK gone \in SUBSET below : dir' = [dir EXCEPT !.wal = {r \in @ : r.seg \notin gone}]
    BY <1>4 DEF TruncateBefore, change
  <2>2. /\ UNCHANGED <<cur, head, damaged, loop, state, lsn, base>>
        /\ cut' = cut \cup {dir'} /\ cp = "cleaned" /\ cp' = "idle" /\ cycleOK' = TRUE
        /\ node' = IF node = "starting" THEN "serving" ELSE node
    BY <1>4 DEF TruncateBefore, change, cycleSucceeds, endCycle, history
  <2>3. view.lsn \in base .. head /\ view.lsn \in snaps
    BY <1>0, <2>2 DEF ViewOK, Working
  <2>4. ASSUME NEW r \in dir.wal, r.seg \in gone
        PROVE  r.seg < cur /\ r.pos <= view.lsn
    <3>1. PICK q \in dir.wal : /\ lastOfSegment(dir.wal, q) /\ q.seg < cur /\ q.lsn < view.lsn
                               /\ q.seg = r.seg
      BY <2>1, <2>4 DEF below
    <3>2. r.pos <= q.pos
      BY <3>1 DEF lastOfSegment
    <3>3. q.lsn = q.pos /\ q.pos \in 1 .. head /\ r.pos \in 1 .. head
      BY <1>0 DEF Sound, LogOK
    <3> QED BY <1>0, <2>3, <3>1, <3>2, <3>3
  <2>5. Sound(dir', head, cur, damaged) /\ dir'.snaps = dir.snaps
    <3>1. view.lsn \in DOMAIN dir.snaps
      BY <2>3 DEF snaps
    <3> DEFINE w == {r \in dir.wal : r.seg \notin gone}
    <3>2. w \in SUBSET dir.wal /\ \A r \in dir.wal \ w : r.seg < cur /\ r.pos <= view.lsn
      BY <2>4
    <3>3. dir' = [dir EXCEPT !.wal = w]
      BY <2>1
    <3> HIDE DEF w
    <3>4. head \in Nat /\ cur \in Nat /\ damaged \in BOOLEAN /\ Sound(dir, head, cur, damaged)
      BY <1>0
    <3>5. Sound([dir EXCEPT !.wal = w], head, cur, damaged) /\ [dir EXCEPT !.wal = w].snaps = dir.snaps
      BY <3>1, <3>2, <3>4, Truncated
    <3> QED BY <3>3, <3>5
  <2>6. Disk'
    BY <1>0, <2>2, <2>5 DEF Disk
  <2>7. ViewOK'
    BY <2>2 DEF ViewOK, Working
  <2>8. Retained'
    BY <1>0, <2>2, <2>3, <2>5 DEF Retained, snaps
  <2> QED BY <1>0, <2>2, <2>6, <2>7, <2>8 DEF Core, Running
<1> QED BY <1>1, <1>2, <1>3, <1>4

\* The process ends, in order or not; a power failure picks a directory.
LEMMA ExitStep ==
  ASSUME Core, CloseWait \/ Kill \/ PowerFailure
  PROVE  Core'
<1>1. exit /\ UNCHANGED <<cur, head, damaged>>
  BY DEF CloseWait, Kill, PowerFailure, crash, files, history
<1>2. Disk'
  <2>1. CASE CloseWait \/ Kill
    BY <2>1, SameFiles DEF CloseWait, Kill, crash, files, history, Core
  <2>2. CASE PowerFailure
    BY <1>1, <2>2 DEF PowerFailure, persist, Core, Disk
  <2> QED BY <2>1, <2>2
<1> QED BY <1>1, <1>2, Exited DEF Core

\* Damage weakens what is claimed of the files, the state and the view.
LEMMA DamageStep ==
  ASSUME Core, Damage
  PROVE  Core'
<1>0. /\ head \in Nat /\ cur \in Nat /\ damaged \in BOOLEAN /\ dir \in cut
      /\ Running /\ ViewOK /\ Disk
  BY Basics DEF Core
<1>1. PICK k : dir' = spoil(dir, k) /\ cut' = {spoil(d, k) : d \in cut}
  BY DEF Damage
<1>2. /\ UNCHANGED <<cur, head, node, loop, state, lsn, base, cp, view, cycleOK>> /\ damaged' = TRUE /\ damaged' \in BOOLEAN
  BY Zenon DEF Damage, process, checkpointer
<1>3. ASSUME NEW e \in cut
      PROVE  Sound(spoil(e, k), head, cur, TRUE) /\ DOMAIN spoil(e, k).snaps = DOMAIN e.snaps
  <2>1. head \in Nat /\ cur \in Nat /\ damaged \in BOOLEAN /\ Sound(e, head, cur, damaged)
    BY <1>0 DEF Disk
  <2>2. Sound(spoil(e, k), head, cur, TRUE)
    BY <2>1, Damaged
  <2>3. DOMAIN spoil(e, k).snaps = DOMAIN e.snaps
    BY <2>1, Spoiled DEF Sound
  <2> QED BY <2>2, <2>3
<1>4. Disk'
  <2>1. dir' \in cut'
    BY <1>0, <1>1
  <2>2. \A e \in cut' : Sound(e, head, cur, TRUE)
    BY <1>1, <1>3
  <2> QED BY <1>2, <2>1, <2>2 DEF Disk
<1>5. snaps' = snaps
  BY <1>0, <1>1, <1>3 DEF snaps
<1>6. \A st, n : Good(st, n, damaged) => Good(st, n, TRUE)
  BY <1>2 DEF Good
<1>7. Running'
  BY <1>0, <1>2, <1>6 DEF Running
<1>8. ViewOK'
  BY <1>0, <1>2, <1>5, <1>6 DEF ViewOK
<1>9. Retained'
  BY <1>2 DEF Retained
<1> QED BY <1>2, <1>4, <1>7, <1>8, <1>9 DEF Core

\* No step of Next breaks the invariant.
LEMMA Inductive == IInv /\ [Next]_vars => IInv'
<1> SUFFICES ASSUME IInv, [Next]_vars, ~reseeded'
             PROVE  Core'
  BY DEF IInv
<1>1. CASE Next
  <2>1. Core
    BY <1>1 DEF Next, IInv
  <2>2. CASE NewLedger
    BY <2>1, <2>2, NewLedgerStep
  <2>3. CASE Commit
    BY <2>1, <2>3, CommitStep
  <2>4. CASE Tick \/ TriggerSnapshot \/ Fail \/ CloseBegin \/ Close
    BY <2>1, <2>4, MemoryStep, CycleStep, ExitStep DEF TriggerSnapshot, Fail, Close
  <2>5. CASE Kill \/ PowerFailure
    BY <2>1, <2>5, ExitStep
  <2>6. CASE Damage
    BY <2>1, <2>6, DamageStep
  <2> QED BY <1>1, <2>2, <2>3, <2>4, <2>5, <2>6 DEF Next
<1>2. CASE UNCHANGED vars
  <2>1. UNCHANGED <<dir, cut, cur, head, node, loop, state, lsn, base, cp, view, cycleOK, damaged, reseeded>>
    BY <1>2 DEF vars, files, process, checkpointer, history
  <2>2. Core
    BY <2>1 DEF IInv
  <2> QED BY <2>1, <2>2, SameFiles DEF Core, Running, ViewOK, Retained, snaps
<1> QED BY <1>1, <1>2

\* The inductive invariant holds in every behaviour: every directory that a
\* crash may leave is sound, and a running ledger has what is in it.
THEOREM Invariance == Spec => []IInv
BY Initially, Inductive, PTL DEF Spec

-----------------------------------------------------------------------------
(* The results *)

\* Every committed batch survives every restart, for any number of snapshots
\* kept and any number of crashes, failed cycles and unfinished cleanups.
THEOREM Durability == Spec => []NothingLost
<1>1. IInv => NothingLost
  <2> SUFFICES ASSUME Core, ~damaged, NEW d \in cut, NEW s, Latest(d, s), NEW p \in 1 .. head
               PROVE  applyAll(Read(d, s), replayed(d.wal, s))[p] = 1
    <3>1. IInv /\ ~reseeded => Core /\ dir \in cut
      BY DEF IInv, Core, Disk
    <3> QED BY <3>1 DEF NothingLost
  <2>1. /\ head \in 0 .. MaxBatches /\ head \in Nat /\ MaxBatches \in Nat /\ head <= MaxBatches
        /\ cur \in Nat /\ damaged \in BOOLEAN
        /\ Sound(d, head, cur, damaged)
    BY Basics DEF Core, Disk
  <2>2. Good(applyAll(Read(d, s), replayed(d.wal, s)), head, damaged)
    BY <2>1, Recovered
  <2>3. p \in Batch /\ p <= head
    BY <2>1 DEF Batch
  <2> QED BY <2>2, <2>3 DEF Good
<1> QED BY <1>1, Invariance, PTL

\* No batch is applied twice, for any number of batches, crashes and damaged
\* snapshots.
THEOREM ExactlyOnce == Spec => []AppliedAtMostOnce
<1>1. IInv => AppliedAtMostOnce
  BY DEF IInv, Core, Running, Good, AppliedAtMostOnce, up
<1> QED BY <1>1, Invariance, PTL

\* A running ledger is above every LSN in its files, so that none is reused.
THEOREM FreshLSNs == Spec => []LSNsNotReused
<1>1. IInv => LSNsNotReused
  <2> SUFFICES ASSUME Core, up
               PROVE  /\ \A r \in dir.wal : r.lsn <= lsn
                      /\ \A l \in snaps : l <= lsn
                      /\ \A q, r \in dir.wal : q.pos < r.pos => q.lsn < r.lsn
    BY DEF IInv, LSNsNotReused
  <2>1. /\ lsn = head /\ head \in Nat /\ snaps \in SUBSET (1 .. head)
        /\ LogOK(dir.wal, head, cur)
    BY Basics DEF Core, Running, up, Sound
  <2>2. \A r \in dir.wal : r.lsn = r.pos /\ r.pos \in 1 .. head
    BY <2>1 DEF LogOK
  <2> QED BY <2>1, <2>2
<1> QED BY <1>1, Invariance, PTL

\* A ready ledger has a snapshot of at least the history it started from.
THEOREM Retention == Spec => []ReadyIsRetained
<1>1. IInv => ReadyIsRetained
  BY DEF IInv, Core, Retained, ReadyIsRetained, Ready
<1> QED BY <1>1, Invariance, PTL

=============================================================================
