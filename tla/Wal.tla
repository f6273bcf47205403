-------------------------------- MODULE Wal ---------------------------------
(***************************************************************************)
(* The write-ahead log (internal/wal: wal.go, segment.go, recovery.go) as  *)
(* the event loop, the checkpointer and NewLedger use it.                  *)
(*                                                                         *)
(* A segment file is a sequence of frames; one frame is one unit of the    *)
(* segment size.  AppendBatch is one step per Write or rotation, recovery  *)
(* one step per frame read and per file changed, so that a crash can fall  *)
(* between any two.  A crash keeps a prefix of what was written since the  *)
(* last fsync of the live segment, and may tear the next frame.            *)
(***************************************************************************)
EXTENDS Naturals, Sequences, FiniteSets, AuditFrames

CONSTANTS
  SegmentSize,   \* frames that fit into a segment
  BatchSizes,    \* numbers of records a batch may have
  MaxAppends,    \* bound: batches appended
  MaxSnapshots,  \* bound: snapshots taken
  MaxCrashes,    \* bound: crashes
  MaxErrors      \* bound: failed writes or syncs

ASSUME SegmentSizeAssumption == SegmentSize \in Nat \ {0}
ASSUME BatchSizesAssumption == BatchSizes \subseteq Nat \ {0}

VARIABLES
  segs,      \* the files: segment ID -> frames
  current,   \* ID of the live segment
  synced,    \* frames of the live segment that are on stable storage
  lsn,       \* WAL.currentLSN
  loopLSN,   \* EventLoop.currentLSN, the last acknowledged commit
  pc,        \* where the writer, or recovery, stands
  todo,      \* frames AppendBatch has still to write
  snap,      \* LSN of the latest snapshot on disk, 0 if there is none
  view,      \* LSN of the snapshot being written, 0 if none is
  cutoff,    \* LSN TruncateBefore is about to be called with, 0 if none
  rd,        \* recovery: what recoverSegments has read
  log,       \* history: records of the committed batches
  inflight,  \* history: records of the batch that is not acknowledged yet
  harm,      \* history: a failed write left frames behind, or a repair cut log
  budget     \* bound: appends, snapshots, crashes and errors still allowed

writer == <<current, synced, lsn, loopLSN, todo>>
checkpointer == <<snap, view, cutoff>>
vars == <<segs, writer, checkpointer, pc, rd, log, inflight, harm, budget>>

-----------------------------------------------------------------------------
(* Frames *)

Rec(l) == [kind |-> "record", lsn |-> l, count |-> 0]
Commit(l, n) == [kind |-> "commit", lsn |-> l, count |-> n]
Torn == [kind |-> "torn", lsn |-> 0, count |-> 0]

records(from, n) == [k \in 1 .. n |-> Rec(from + k)]

prefix(s, n) == SubSeq(s, 1, n)
larger(x, y) == IF x > y THEN x ELSE y
smaller(x, y) == IF x < y THEN x ELSE y
first(S) == CHOOSE x \in S : \A y \in S : x <= y
last(S) == CHOOSE x \in S : \A y \in S : y <= x

\* LSN of the last whole frame, 0 for none.
peekSegmentMaxLSN(frames) ==
  LET whole == {k \in DOMAIN frames : frames[k] # Torn}
  IN  IF whole = {} THEN 0 ELSE frames[last(whole)].lsn

\* What recoverSegments knows before it has read anything.
noRead == [left |-> {}, last |-> 0, off |-> 0, committed |-> 0, pending |-> <<>>,
           high |-> 0, out |-> <<>>, cuts |-> {}, stop |-> FALSE]

Init ==
  /\ segs = [id \in {1} |-> <<>>] /\ current = 1 /\ synced = 0
  /\ lsn = 0 /\ loopLSN = 0 /\ pc = "ready" /\ todo = <<>>
  /\ snap = 0 /\ view = 0 /\ cutoff = 0 /\ rd = noRead
  /\ log = <<>> /\ inflight = <<>> /\ harm = FALSE
  /\ budget = [appends |-> MaxAppends, snapshots |-> MaxSnapshots,
               crashes |-> MaxCrashes, errors |-> MaxErrors]

-----------------------------------------------------------------------------
(* The writer: AppendBatch, then Sync *)

\* Assign LSNs and encode the records and the commit marker.
AppendBatch ==
  /\ pc = "ready" /\ budget.appends > 0
  /\ \E n \in BatchSizes :
       /\ todo' = Append(records(lsn, n), Commit(lsn + n + 1, n))
       /\ inflight' = records(lsn, n)
       /\ lsn' = lsn + n + 1
  /\ pc' = "write"
  /\ budget' = [budget EXCEPT !.appends = @ - 1]
  /\ UNCHANGED <<segs, current, synced, loopLSN, checkpointer, rd, log, harm>>

space == SegmentSize - Len(segs[current])

\* Mutant: the room left is not looked at.
fitsUnchecked == Len(todo)

\* The largest run of whole frames that fits.
fits == smaller(space, Len(todo))

\* The live segment is full: fsync it and open the next file.
rotateLocked ==
  /\ pc = "write" /\ todo # <<>> /\ space <= 0
  /\ current' = current + 1
  /\ segs' = [id \in DOMAIN segs \cup {current + 1} |->
                IF id \in DOMAIN segs THEN segs[id] ELSE <<>>]
  /\ synced' = Len(segs'[current + 1])
  /\ UNCHANGED <<lsn, loopLSN, todo, checkpointer, pc, rd, log, inflight, harm, budget>>

\* One Write of writeBuffered: as many whole frames as fit.
writeBuffered ==
  /\ pc = "write" /\ todo # <<>> /\ space > 0
  /\ segs' = [segs EXCEPT ![current] = @ \o prefix(todo, fits)]
  /\ todo' = SubSeq(todo, fits + 1, Len(todo))
  /\ pc' = IF todo' = <<>> THEN "sync" ELSE "write"
  /\ UNCHANGED <<current, synced, lsn, loopLSN, checkpointer, rd, log, inflight, harm, budget>>

\* A write or a rotation fails.  Some frames, the last one torn, may be in the
\* file; writeOffset is behind them and nothing takes them back.
AppendFail ==
  /\ pc = "write" /\ todo # <<>> /\ budget.errors > 0
  /\ \E k \in 0 .. fits, torn \in BOOLEAN :
       /\ IF space > 0 THEN k < fits ELSE ~torn
       /\ segs' = [segs EXCEPT ![current] = @ \o prefix(todo, k) \o (IF torn THEN <<Torn>> ELSE <<>>)]
       /\ harm' = (harm \/ torn \/ k > 0 \/ Len(todo) <= Len(inflight))
  /\ pc' = "ready" /\ todo' = <<>> /\ inflight' = <<>>
  /\ budget' = [budget EXCEPT !.errors = @ - 1]
  /\ UNCHANGED <<current, synced, lsn, loopLSN, checkpointer, rd, log>>

\* The batch is durable and is acknowledged.
Sync ==
  /\ pc = "sync"
  /\ synced' = Len(segs[current])
  /\ loopLSN' = lsn
  /\ log' = log \o inflight /\ inflight' = <<>>
  /\ pc' = "ready"
  /\ UNCHANGED <<segs, current, lsn, todo, checkpointer, rd, harm, budget>>

\* The batch is answered with an error although its frames are in the file.
SyncFail ==
  /\ pc = "sync" /\ budget.errors > 0
  /\ harm' = TRUE /\ inflight' = <<>>
  /\ pc' = "ready"
  /\ budget' = [budget EXCEPT !.errors = @ - 1]
  /\ UNCHANGED <<segs, writer, checkpointer, rd, log>>

-----------------------------------------------------------------------------
(* The checkpointer, TriggerSnapshot *)

RequestSnapshotView ==
  /\ pc = "ready" /\ loopLSN > 0 /\ view = 0 /\ cutoff = 0 /\ budget.snapshots > 0
  /\ view' = loopLSN
  /\ budget' = [budget EXCEPT !.snapshots = @ - 1]
  /\ UNCHANGED <<segs, writer, snap, cutoff, pc, rd, log, inflight, harm>>

\* The file is written and renamed into place while the writer goes on.
WriteSnapshot ==
  /\ view > 0
  /\ snap' = larger(snap, view) /\ cutoff' = view /\ view' = 0
  /\ UNCHANGED <<segs, writer, pc, rd, log, inflight, harm, budget>>

\* Mutant: every closed segment is removed.
segmentsBelowAll(l) == {id \in DOMAIN segs : id < current}

\* Closed segments whose last LSN is below l.
segmentsBelow(l) == {id \in DOMAIN segs : id < current /\ peekSegmentMaxLSN(segs[id]) < l}

\* Under the WAL's mutex, so never inside AppendBatch.  A failed removal of a
\* file is ignored.
TruncateBefore ==
  /\ cutoff > 0 /\ pc \in {"ready", "sync"}
  /\ \E gone \in SUBSET segmentsBelow(cutoff) :
       segs' = [id \in DOMAIN segs \ gone |-> segs[id]]
  /\ cutoff' = 0
  /\ UNCHANGED <<writer, snap, view, pc, rd, log, inflight, harm, budget>>

-----------------------------------------------------------------------------
(* Crash and recovery: Open, then RecoverFromLSN(snap) *)

\* Only the live segment has frames that are not on stable storage.
Crash ==
  /\ pc # "down" /\ budget.crashes > 0
  /\ \E k \in synced .. Len(segs[current]), torn \in BOOLEAN :
       /\ torn => k < Len(segs[current])
       /\ segs' = [segs EXCEPT ![current] = prefix(@, k) \o (IF torn THEN <<Torn>> ELSE <<>>)]
       /\ synced' = Len(segs'[current])
  /\ pc' = "down"
  /\ lsn' = 0 /\ loopLSN' = 0 /\ todo' = <<>> /\ view' = 0 /\ cutoff' = 0 /\ rd' = noRead
  /\ budget' = [budget EXCEPT !.crashes = @ - 1]
  /\ UNCHANGED <<current, snap, log, inflight, harm>>

\* Open the newest segment and list the files for recoverSegments.
Open ==
  /\ pc = "down"
  /\ current' = last(DOMAIN segs) /\ synced' = Len(segs[last(DOMAIN segs)])
  /\ rd' = [noRead EXCEPT !.left = DOMAIN segs]
  /\ pc' = "read"
  /\ UNCHANGED <<segs, lsn, loopLSN, todo, checkpointer, log, inflight, harm, budget>>

reading == first(rd.left)
frame == segs[reading][rd.off + 1]

\* The snapshot covers the whole segment, which is not the newest one.
covered == snap > 0 /\ Cardinality(rd.left) > 1 /\ peekSegmentMaxLSN(segs[reading]) <= snap

\* Mutant: a batch's records are forgotten where its segment ends.
finishSegmentForgets(r) ==
  [r EXCEPT !.left = @ \ {reading}, !.last = reading, !.off = 0, !.committed = 0, !.pending = <<>>]

finishSegment(r) ==
  [r EXCEPT !.left = @ \ {reading}, !.last = reading, !.off = 0, !.committed = 0]

readUnchanged == UNCHANGED <<segs, writer, checkpointer, log, inflight, harm, budget>>

SkipSegment ==
  /\ pc = "read" /\ rd.left # {} /\ rd.off = 0 /\ covered
  /\ rd' = finishSegment(rd)
  /\ UNCHANGED pc /\ readUnchanged

\* One frame of replaySegment.  Pending records outlive the segment; a commit
\* whose count differs discards them.
ReplayFrame ==
  /\ pc = "read" /\ rd.left # {} /\ ~covered
  /\ rd.off < Len(segs[reading]) /\ frame # Torn
  /\ rd' = IF frame.kind = "record"
             THEN [rd EXCEPT !.off = @ + 1, !.pending = Append(@, frame)]
           ELSE IF Len(rd.pending) = frame.count
             THEN [rd EXCEPT !.off = @ + 1, !.pending = <<>>, !.high = frame.lsn,
                             !.committed = rd.off + 1,
                             !.out = @ \o SelectSeq(rd.pending, LAMBDA r : r.lsn > snap)]
             ELSE [rd EXCEPT !.off = @ + 1, !.pending = <<>>]
  /\ UNCHANGED pc /\ readUnchanged

\* The end of the segment, or a torn frame: remember where its last commit ends.
EndSegment ==
  /\ pc = "read" /\ rd.left # {} /\ ~covered
  /\ \/ rd.off = Len(segs[reading])
     \/ rd.off < Len(segs[reading]) /\ frame = Torn
  /\ LET stop == rd.off < Len(segs[reading]) IN
     /\ rd' = [finishSegment(rd) EXCEPT !.stop = stop,
                                        !.cuts = @ \cup {[id |-> reading, at |-> rd.committed]}]
     /\ pc' = IF stop THEN "decide" ELSE "read"
  /\ readUnchanged

EndOfLog ==
  /\ pc = "read" /\ rd.left = {}
  /\ pc' = "decide"
  /\ UNCHANGED rd /\ readUnchanged

\* Repair only a log with an uncommitted tail above the snapshot.  Segments
\* behind a torn frame, rd.left, are then stale.
strict == snap = 0 \/ \A k \in DOMAIN rd.pending : rd.pending[k].lsn > snap

\* Mutant of DecideRepair: the uncommitted tail is left where it is.
DecideRepairNever ==
  /\ pc = "decide"
  /\ rd' = [rd EXCEPT !.cuts = {}, !.left = {}]
  /\ pc' = "repair"
  /\ readUnchanged

DecideRepair ==
  /\ pc = "decide"
  /\ rd' = IF (rd.stop \/ rd.pending # <<>>) /\ strict
             THEN [rd EXCEPT !.cuts = {c \in @ : c.at < Len(segs[c.id])}]
             ELSE [rd EXCEPT !.cuts = {}, !.left = {}]
  /\ pc' = "repair"
  /\ readUnchanged

above(s) == SelectSeq(s, LAMBDA r : r.lsn > snap)
frames(s) == {s[k] : k \in DOMAIN s}

truncateSegment ==
  /\ pc = "repair" /\ rd.cuts # {}
  /\ LET cut == CHOOSE c \in rd.cuts : \A d \in rd.cuts : c.id <= d.id IN
     /\ segs' = [segs EXCEPT ![cut.id] = prefix(@, cut.at)]
     /\ harm' = (harm \/ frames(above(log)) \cap (frames(segs[cut.id]) \ frames(segs'[cut.id])) # {})
     /\ rd' = [rd EXCEPT !.cuts = @ \ {cut}]
     /\ synced' = Len(segs'[current])
  /\ UNCHANGED <<current, lsn, loopLSN, todo, checkpointer, pc, log, inflight, budget>>

RemoveStale ==
  /\ pc = "repair" /\ rd.cuts = {} /\ rd.left # {}
  /\ segs' = [id \in DOMAIN segs \ {reading} |-> segs[id]]
  /\ rd' = [rd EXCEPT !.left = @ \ {reading}]
  /\ current' = last(DOMAIN segs') /\ synced' = Len(segs'[current'])
  /\ UNCHANGED <<lsn, loopLSN, todo, checkpointer, pc, log, inflight, harm, budget>>

\* Mutant: the watermark is that of the last commit read.
recoveredLSNUnraised == rd.high

\* The watermark is never below the snapshot.
recoveredLSN == larger(rd.high, snap)

\* The last segment read becomes the live one; the new event loop starts at the
\* WAL's LSN.
Reopen ==
  /\ pc = "repair" /\ rd.cuts = {} /\ rd.left = {}
  /\ lsn' = recoveredLSN /\ loopLSN' = recoveredLSN
  /\ current' = rd.last /\ synced' = Len(segs[rd.last])
  /\ log' = IF frames(inflight) \subseteq frames(rd.out) THEN log \o inflight ELSE log
  /\ inflight' = <<>> /\ rd' = noRead
  /\ pc' = "ready"
  /\ UNCHANGED <<segs, todo, checkpointer, harm, budget>>

-----------------------------------------------------------------------------
Write == AppendBatch \/ rotateLocked \/ writeBuffered \/ AppendFail \/ Sync \/ SyncFail
Checkpoint == RequestSnapshotView \/ WriteSnapshot \/ TruncateBefore
Replay == SkipSegment \/ ReplayFrame \/ EndSegment \/ EndOfLog
Repair == DecideRepair \/ truncateSegment \/ RemoveStale \/ Reopen

Next == Write \/ Checkpoint \/ Crash \/ Open \/ Replay \/ Repair

Spec == Init /\ [][Next]_vars

-----------------------------------------------------------------------------
(* Properties *)

\* Every variable has its type, no write runs past the end of a segment, and
\* the live segment is one of the files.
TypeOK ==
  /\ current \in DOMAIN segs
  /\ \A id \in DOMAIN segs :
       /\ id \in Nat \ {0} /\ Len(segs[id]) <= SegmentSize
       /\ \A f \in frames(segs[id]) : f # Torn => f.kind \in {"record", "commit"} /\ f.lsn > 0
  /\ synced \in 0 .. Len(segs[current])
  /\ {lsn, loopLSN, snap, view, cutoff} \subseteq Nat
  /\ pc \in {"ready", "write", "sync", "down", "read", "decide", "repair"}
  /\ harm \in BOOLEAN

\* What recovery hands to the ledger after any number of crashes, rotations,
\* snapshots and segment deletions is every acknowledged record above the
\* snapshot, once and in order, with at most the one unacknowledged batch
\* behind them, whole (recoverSegments, replaySegment).  Not claimed once a
\* failed write left frames in the log or a repair cut a committed batch.
RecoveryExact ==
  pc = "decide" /\ ~harm => rd.out \in {above(log), above(log \o inflight)}

\* No LSN is given to two acknowledged records and LSNs follow the order of
\* acknowledgement, across restarts that find the log cut below the snapshot
\* (AppendBatch, RecoverFromLSN).
LSNsIncrease ==
  ~harm => \A j, k \in DOMAIN log : j < k => log[j].lsn < log[k].lsn

onDisk(r) == \E id \in DOMAIN segs : r \in frames(segs[id])

\* An acknowledged record leaves the files only when a snapshot on disk covers
\* it: neither TruncateBefore beside a running writer, nor a crash, nor the
\* removal of stale segments takes it.  truncateSegment is the exception that
\* AckedBatchesRecovered is about.
AckedStaysOnDisk ==
  [][~harm /\ ~truncateSegment => \A r \in frames(above(log)) : onDisk(r) => onDisk(r)' \/ r.lsn <= snap']_vars

\* The auditor has nothing to report of a log without a failed write but a torn
\* tail, whenever it is run: beside the writer, after a crash, inside a repair or
\* behind it.  With a snapshot it also reports count mismatches: of a batch that
\* straddles a rotation, TruncateBefore removes the records and keeps the commit,
\* and recovery, which skips covered segments, cuts the commit off and keeps the
\* records.
AuditAccepts ==
  ~harm => \A x \in Audit(segs, last(DOMAIN segs)) :
             x.kind = "torn_tail" \/ (x.kind = "batch_count_mismatch" /\ snap > 0)

\* Recovery never drops "a batch that was fsynced and acked to clients"
\* (recovery.go, comment of replayState): every acknowledged record above the
\* snapshot is replayed.
AckedBatchesRecovered ==
  pc = "decide" => frames(above(log)) \subseteq frames(rd.out)

=============================================================================
