----------------------------- MODULE Replication -----------------------------
(***************************************************************************)
(* Log shipping: the primary's WAL as the stream sees it (wal.go), the     *)
(* StreamReader behind each connection (stream.go), the replication server *)
(* (server.go), the follower with its own WAL (follower.go), leader terms  *)
(* (term.go) and promotion (failover.go).                                  *)
(*                                                                         *)
(* A frame is [lsn, n]: n = 0 for a data record, the record count for a    *)
(* BatchCommit.  The LSN the primary gave a record is its identity.  Every *)
(* frame takes one unit of a segment.  HEAD frames carry a metric only and *)
(* are left out.  Crashes of the primary are the business of Wal.          *)
(***************************************************************************)
EXTENDS Naturals, Sequences, FiniteSetsExt

CONSTANTS
  SegmentSize,     \* frames that fit in a segment
  BatchSizes,      \* records of a batch
  Terms,           \* terms of the primaries the address may lead to
  FlushThreshold,  \* followerFlushThreshold
  BreakerLimit,    \* failures in a row before a full re-sync
  MaxWire,         \* bound: frames in flight
  MaxBatches,      \* bound: batches of the primary
  MaxTruncates,    \* bound: snapshots that truncate the primary's WAL
  MaxFaults,       \* bound: failed dials and broken connections
  MaxCrashes,      \* bound: crashes of the follower
  MaxErrors        \* bound: flushes of the follower that fail

ASSUME SizeAssumption == {SegmentSize, FlushThreshold, BreakerLimit, MaxWire} \subseteq Nat \ {0}
ASSUME BatchAssumption == BatchSizes \subseteq Nat \ {0}
ASSUME TermAssumption == Terms \subseteq Nat \ {0}

VARIABLES
  \* the primary's WAL
  segs,      \* segs[id]: frames of segment id; the last one is current
  disk,      \* ids of the segments that have not been removed
  synced,    \* SyncedOffset of the current segment
  currentLSN,
  todo,      \* frames AppendBatch has encoded and not written
  ppc,       \* "idle", "write" (in AppendBatch), "sync" (before Sync)
  acked,     \* history: data LSNs of the batches that were synced
  \* the connection
  sr,        \* the StreamReader
  wire,      \* frames sent and not received
  \* the follower
  fpc,       \* where its goroutine stands
  lastLSN, lastTerm, termFile, failures,
  pending,   \* LSNs of the records buffered since the last flush
  commit,    \* LSN of the commit frame the flush is for, 0 for a threshold flush
  local,     \* its WAL: [rec |-> LSN on the primary, lsn |-> LSN in this WAL]
  localLSN, localSynced,
  applied,   \* the records applied to its accounts, in order
  leader,    \* the primary term beside its WAL, 0 before its promotion
  \* history of what it went through
  gap,       \* it was sent a record before an earlier one
  torn,      \* one of its flushes failed
  \* bounds
  truncates, faults, crashes, errors

primary == <<segs, disk, synced, currentLSN, todo, ppc, acked, truncates>>
position == <<lastLSN, lastTerm, termFile, failures>>
localWAL == <<local, localLSN, localSynced>>
bounds == <<faults, crashes, errors>>
follower == <<fpc, position, pending, commit, localWAL, applied, leader, gap, torn>>
vars == <<primary, sr, wire, follower, bounds>>

cur == Len(segs)

\* NewStreamReader: nothing listed, no file open.
NewStreamReader(fromLSN) ==
  [fromLSN |-> fromLSN, listed |-> FALSE, ids |-> {}, maxID |-> 0,
   id |-> 0, size |-> 0, offset |-> 0, pend |-> <<>>, emit |-> <<>>]

Init ==
  /\ segs = << <<>> >> /\ disk = {1} /\ synced = 0 /\ currentLSN = 0 /\ todo = <<>> /\ ppc = "idle" /\ acked = {}
  /\ sr = NewStreamReader(0) /\ wire = <<>>
  /\ fpc = "down" /\ lastLSN = 0 /\ lastTerm = 0 /\ termFile = 0 /\ failures = 0
  /\ pending = <<>> /\ commit = 0 /\ local = <<>> /\ localLSN = 0 /\ localSynced = 0
  /\ applied = <<>> /\ leader = 0 /\ gap = FALSE /\ torn = FALSE
  /\ truncates = MaxTruncates /\ faults = MaxFaults /\ crashes = MaxCrashes /\ errors = MaxErrors

-----------------------------------------------------------------------------
(* The primary's WAL.  w.mu is held while ppc = "write". *)

written == UNION {Range(segs[id]) : id \in DOMAIN segs}
batches == Cardinality({f \in written : f.n > 0})

AppendBatch(n) ==
  /\ ppc = "idle" /\ batches < MaxBatches
  /\ todo' = [i \in 1 .. n + 1 |-> [lsn |-> currentLSN + i, n |-> IF i <= n THEN 0 ELSE n]]
  /\ currentLSN' = currentLSN + n + 1
  /\ ppc' = "write"
  /\ UNCHANGED <<segs, disk, synced, acked, truncates, sr, wire, follower, bounds>>

\* The full segment is synced and closed, the next one is created.
rotateLocked ==
  /\ ppc = "write" /\ Len(segs[cur]) = SegmentSize
  /\ segs' = Append(segs, <<>>) /\ disk' = disk \cup {cur + 1} /\ synced' = 0
  /\ UNCHANGED <<currentLSN, todo, ppc, acked, truncates, sr, wire, follower, bounds>>

\* One Write: as many frames as the segment takes.
writeBuffered ==
  /\ ppc = "write" /\ Len(segs[cur]) < SegmentSize
  /\ LET k == Min({SegmentSize - Len(segs[cur]), Len(todo)}) IN
     /\ segs' = [segs EXCEPT ![cur] = @ \o SubSeq(todo, 1, k)]
     /\ todo' = SubSeq(todo, k + 1, Len(todo))
     /\ ppc' = IF k = Len(todo) THEN "sync" ELSE "write"
  /\ UNCHANGED <<disk, synced, currentLSN, acked, truncates, sr, wire, follower, bounds>>

Sync ==
  /\ ppc = "sync"
  /\ synced' = Len(segs[cur]) /\ ppc' = "idle"
  /\ acked' = {f.lsn : f \in {x \in written : x.n = 0}}
  /\ UNCHANGED <<segs, disk, currentLSN, todo, truncates, sr, wire, follower, bounds>>

peekSegmentMaxLSN(id) == IF segs[id] = <<>> THEN 0 ELSE segs[id][Len(segs[id])].lsn

\* A snapshot at the last acknowledged commit; the positions of followers are
\* not asked for.
TruncateBefore ==
  /\ ppc = "idle" /\ truncates > 0
  /\ LET below == {id \in disk \ {cur} : peekSegmentMaxLSN(id) < currentLSN} IN
     below # {} /\ disk' = disk \ below
  /\ truncates' = truncates - 1
  /\ UNCHANGED <<segs, synced, currentLSN, todo, ppc, acked, sr, wire, follower, bounds>>

-----------------------------------------------------------------------------
(* StreamReader.Next, and the server that writes what it returns *)

Connected == fpc \in {"stream", "flush", "sync", "apply"}
reading == Connected /\ sr.emit = <<>>
srOnly == UNCHANGED <<primary, wire, follower, bounds>>

\* In order of their IDs.
listSegmentIDs == disk

\* The segments whose last LSN is above fromLSN; while there is none the next
\* call lists again.
ListSegments ==
  /\ reading /\ sr.id = 0 /\ ~sr.listed
  /\ LET ids == {id \in listSegmentIDs : peekSegmentMaxLSN(id) > sr.fromLSN} IN
     ids # {} /\ sr' = [sr EXCEPT !.listed = TRUE, !.ids = ids, !.maxID = Max(listSegmentIDs)]
  /\ srOnly

\* The listed segments are opened in order.  One that has been removed since is
\* passed over.
OpenSegment ==
  /\ reading /\ sr.id = 0 /\ sr.ids # {}
  /\ LET id == Min(sr.ids) IN
     sr' = IF id \in disk THEN [sr EXCEPT !.id = id, !.size = Len(segs[id]), !.offset = 0]
           ELSE [sr EXCEPT !.ids = @ \ {id}]
  /\ srOnly

Relist ==
  /\ reading /\ sr.id = 0 /\ sr.listed /\ sr.ids = {}
  /\ LET new == {id \in listSegmentIDs : id > sr.maxID} IN
     new # {} /\ sr' = [sr EXCEPT !.ids = new, !.maxID = Max(new)]
  /\ srOnly

\* Mutant of durableLimit: the live segment is read to its end.
durableLimitWritten == Len(segs[sr.id])

\* The live segment up to its synced offset, a closed one up to the size it had
\* when it was opened.
durableLimit == IF sr.id = cur THEN synced ELSE sr.size

\* Head takes w.mu.
atFile == reading /\ sr.id # 0 /\ ppc # "write"

advance ==
  /\ atFile /\ sr.id # cur /\ sr.offset >= durableLimit
  /\ sr' = [sr EXCEPT !.id = 0, !.size = 0, !.offset = 0, !.ids = @ \ {sr.id}]
  /\ srOnly

frameAt == segs[sr.id][sr.offset + 1]

\* Data is held back until its commit; a commit with another count drops it.
readFrame ==
  /\ atFile /\ sr.offset < durableLimit
  /\ LET f == frameAt IN
     sr' = [sr EXCEPT !.offset = @ + 1,
                      !.pend = IF f.n = 0 THEN Append(@, f) ELSE <<>>,
                      !.emit = IF f.n > 0 /\ Len(sr.pend) = f.n THEN Append(sr.pend, f) ELSE <<>>]
  /\ srOnly

writeFrame ==
  /\ Connected /\ sr.emit # <<>> /\ Len(wire) < MaxWire
  /\ wire' = Append(wire, Head(sr.emit))
  /\ sr' = [sr EXCEPT !.emit = Tail(@)]
  /\ UNCHANGED <<primary, follower, bounds>>

-----------------------------------------------------------------------------
(* The follower *)

recs(frames) == [i \in DOMAIN frames |-> frames[i].rec]
\* Sequence s is the first elements of t.
isPrefix(s, t) == Len(s) <= Len(t) /\ s = SubSeq(t, 1, Len(s))
\* The records of the acknowledged batches, in order.
History == SelectSeq([i \in 1 .. currentLSN |-> i], LAMBDA l : l \in acked)

\* Records of a batch whose commit has not come are applied, or about to be.
half ==
  \/ fpc \in {"flush", "sync", "apply"} /\ commit = 0
  \/ applied # <<>> /\ applied[Len(applied)] > lastLSN

hangUp == sr' = NewStreamReader(0) /\ wire' = <<>> /\ pending' = <<>> /\ commit' = 0

\* recoverLocalState: replay the local WAL and take its last data LSN plus one
\* as the position.  Only accounts that differ from the primary's refuse a
\* record; the follower then stays down.
recoverLocalState ==
  /\ fpc = "down"
  /\ \/ /\ fpc' = "dial" /\ applied' = recs(local)
        /\ lastLSN' = IF local = <<>> THEN 0 ELSE local[Len(local)].lsn + 1
     \/ /\ ~isPrefix(recs(local), History)
        /\ fpc' = "stopped" /\ UNCHANGED <<applied, lastLSN>>
  /\ UNCHANGED <<primary, sr, wire, lastTerm, termFile, failures, pending, commit, localWAL, leader,
                 gap, torn, bounds>>

tripped == failures + 1 >= BreakerLimit

Reset == local' = <<>> /\ localLSN' = 0 /\ localSynced' = 0

fullResync == applied' = <<>> /\ lastLSN' = 0 /\ Reset /\ gap' = FALSE /\ torn' = FALSE

\* syncLoop has returned an error; the follower holds wal w and accounts a.
\* After BreakerLimit failures in a row it starts from nothing.
failed(w, a, t) ==
  /\ fpc' = "dial" /\ hangUp
  /\ IF tripped
     THEN failures' = 0 /\ fullResync
     ELSE /\ failures' = failures + 1 /\ UNCHANGED lastLSN /\ applied' = a
          /\ local' = w.frames /\ localLSN' = w.lsn /\ localSynced' = w.synced
          /\ UNCHANGED gap /\ torn' = (torn \/ t)
  /\ UNCHANGED <<primary, leader, crashes>>

theWAL == [frames |-> local, lsn |-> localLSN, synced |-> localSynced]

dialFail ==
  /\ fpc = "dial" /\ faults > 0
  /\ faults' = faults - 1
  /\ failed(theWAL, applied, FALSE)
  /\ UNCHANGED <<lastTerm, termFile, errors>>

\* The handshake with a primary of term t.  A lower term is refused, which
\* counts as no failure and leaves the follower where it was.
handshake(t) ==
  /\ fpc = "dial" /\ t >= lastTerm
  /\ lastTerm' = t /\ termFile' = t /\ failures' = 0
  /\ fpc' = "stream" /\ sr' = NewStreamReader(lastLSN + 1)
  /\ UNCHANGED <<primary, wire, lastLSN, pending, commit, localWAL, applied, leader, gap, torn, bounds>>

\* The new term is accepted and cannot be stored.
handshakeFail(t) ==
  /\ fpc = "dial" /\ t > lastTerm /\ errors > 0
  /\ lastTerm' = t /\ errors' = errors - 1
  /\ failed(theWAL, applied, FALSE)
  /\ UNCHANGED <<termFile, faults>>

\* The connection breaks, or a frame fails its CRC.
connLost ==
  /\ fpc = "stream" /\ faults > 0
  /\ faults' = faults - 1
  /\ failed(theWAL, applied, half)
  /\ UNCHANGED <<lastTerm, termFile, errors>>

receiving == fpc = "stream" /\ wire # <<>>
receivedOnly == UNCHANGED <<primary, sr, lastTerm, termFile, failures, localWAL, applied, leader, torn, bounds>>

missing(l) == \E d \in acked : d < l /\ d \notin Range(applied) \cup Range(pending)

\* Mutant of receiveData: records of a batch that was applied are not told apart.
receiveDataAgain ==
  /\ receiving /\ Head(wire).n = 0
  /\ wire' = Tail(wire)
  /\ pending' = Append(pending, Head(wire).lsn)
  /\ fpc' = IF Len(pending') >= FlushThreshold THEN "flush" ELSE "stream"
  /\ gap' = (gap \/ missing(Head(wire).lsn))
  /\ UNCHANGED <<lastLSN, commit>> /\ receivedOnly

\* A data record: skipped when it is not above lastLSN, else buffered.
receiveData ==
  /\ receiving /\ Head(wire).n = 0
  /\ wire' = Tail(wire)
  /\ LET l == Head(wire).lsn IN
     IF l <= lastLSN THEN UNCHANGED <<fpc, pending, gap>>
     ELSE /\ pending' = Append(pending, l)
          /\ fpc' = IF Len(pending') >= FlushThreshold THEN "flush" ELSE "stream"
          /\ gap' = (gap \/ missing(l))
  /\ UNCHANGED <<lastLSN, commit>> /\ receivedOnly

\* A commit: flush what is buffered, then move the position.
receiveCommit ==
  /\ receiving /\ Head(wire).n > 0
  /\ wire' = Tail(wire)
  /\ IF pending = <<>>
     THEN lastLSN' = Max({lastLSN, Head(wire).lsn}) /\ UNCHANGED <<fpc, commit>>
     ELSE fpc' = "flush" /\ commit' = Head(wire).lsn /\ UNCHANGED lastLSN
  /\ UNCHANGED <<pending, gap>> /\ receivedOnly

\* The local WAL gives the records LSNs of its own, and its commit one more.
appended == [frames |-> local \o [i \in DOMAIN pending |-> [rec |-> pending[i], lsn |-> localLSN + i]],
             lsn |-> localLSN + Len(pending) + 1, synced |-> localSynced]

flushed == UNCHANGED <<primary, sr, wire, lastTerm, termFile, failures, leader, gap, torn, bounds>>

flushAppend ==
  /\ fpc = "flush"
  /\ fpc' = "sync" /\ local' = appended.frames /\ localLSN' = appended.lsn
  /\ UNCHANGED <<lastLSN, pending, commit, localSynced, applied>> /\ flushed

\* Mutant of flushSync: the sync is left out.
flushUnsynced ==
  /\ fpc = "sync"
  /\ fpc' = "apply"
  /\ UNCHANGED <<lastLSN, pending, commit, localWAL, applied>> /\ flushed

flushSync ==
  /\ fpc = "sync"
  /\ fpc' = "apply" /\ localSynced' = Len(local)
  /\ UNCHANGED <<lastLSN, pending, commit, local, localLSN, applied>> /\ flushed

flushApply ==
  /\ fpc = "apply"
  /\ fpc' = "stream" /\ applied' = applied \o pending
  /\ lastLSN' = Max({lastLSN, commit})
  /\ pending' = <<>> /\ commit' = 0
  /\ UNCHANGED localWAL /\ flushed

\* The append fails with nothing written, or the sync fails, or a record is
\* refused by accounts that differ from the primary's.
flushFail ==
  /\ errors > 0 /\ errors' = errors - 1
  /\ \/ fpc = "flush" /\ failed([theWAL EXCEPT !.lsn = appended.lsn], applied, TRUE)
     \/ fpc = "sync" /\ failed(theWAL, applied, TRUE)
     \/ /\ fpc = "apply" /\ ~isPrefix(applied \o pending, History)
        /\ \E k \in 0 .. Len(pending) - 1 : failed(theWAL, applied \o SubSeq(pending, 1, k), TRUE)
  /\ UNCHANGED <<lastTerm, termFile, faults>>

loadFollowerTerm == termFile

\* The process dies; of the unsynced batches a prefix may survive.
Crash ==
  /\ fpc \notin {"down", "promoted"} /\ crashes > 0
  /\ \E k \in localSynced .. Len(local) :
       /\ 0 < k /\ k < Len(local) => local[k + 1].lsn # local[k].lsn + 1
       /\ local' = SubSeq(local, 1, k) /\ localSynced' = k
       /\ localLSN' = IF k = 0 THEN 0 ELSE local[k].lsn + 1
  /\ fpc' = "down" /\ hangUp
  /\ applied' = <<>> /\ lastLSN' = 0 /\ failures' = 0 /\ lastTerm' = loadFollowerTerm
  /\ torn' = (torn \/ half)
  /\ crashes' = crashes - 1
  /\ UNCHANGED <<primary, termFile, leader, gap, faults, errors>>

BumpTerm(term) == term + 1

\* PromoteToPrimary: stop the loop, bump the term beside the local WAL, and
\* build a ledger by replaying that WAL.
PromoteToPrimary ==
  /\ fpc \in {"dial", "stream", "stopped"}
  /\ fpc' = "promoted" /\ hangUp
  /\ leader' = BumpTerm(leader)
  /\ applied' = recs(local)
  /\ UNCHANGED <<primary, position, localWAL, gap, torn, bounds>>

-----------------------------------------------------------------------------
Primary == (\E n \in BatchSizes : AppendBatch(n)) \/ rotateLocked \/ writeBuffered \/ Sync \/ TruncateBefore

Stream == ListSegments \/ OpenSegment \/ Relist \/ advance \/ readFrame \/ writeFrame

Follower ==
  \/ recoverLocalState \/ dialFail \/ connLost \/ Crash \/ PromoteToPrimary
  \/ \E t \in Terms : handshake(t) \/ handshakeFail(t)
  \/ receiveData \/ receiveCommit \/ flushAppend \/ flushSync \/ flushApply \/ flushFail

Next == Primary \/ Stream \/ Follower

Spec == Init /\ [][Next]_vars

-----------------------------------------------------------------------------
(* Properties *)

data(frames) == {f.lsn : f \in {x \in Range(frames) : x.n = 0}}

\* "a record is delivered only after the primary cannot lose it in a crash"
\* (StreamReader): whatever was sent, buffered, stored or applied had been
\* synced, however reads interleave with writes, syncs and rotations.
NeverAhead ==
  data(sr.emit) \cup data(wire) \cup Range(pending) \cup Range(recs(local)) \cup Range(applied) \subseteq acked

\* No batch of the primary was stored as several: neighbours within it have
\* neighbouring LSNs in the follower's WAL too.
storedWhole ==
  \A i \in 2 .. Len(local) : local[i].rec = local[i - 1].rec + 1 => local[i].lsn = local[i - 1].lsn + 1

\* Over broken connections, restarts and re-syncs the follower has applied the
\* primary's records in order, each once, and none up to lastLSN is missing:
\* provided that no flush failed, no connection broke within a batch that was
\* partly flushed, and the stream left nothing out.  Nor is it claimed once a
\* batch above the flush threshold was stored as several: each of them takes an
\* LSN for its commit, and the position a restart takes from these LSNs is too
\* high.
ExactHistory ==
  ~gap /\ ~torn /\ storedWhole =>
    /\ isPrefix(applied, History)
    /\ \A d \in acked : d <= lastLSN => d \in Range(applied)

\* "the follower WAL is always at least as advanced as its in-memory view, so
\* promotion replays a complete history" (flush): what a follower has applied is
\* durable locally, under LSNs in order, and between flushes, none of which failed,
\* replay gives just that state.
PromotionSafe ==
  /\ fpc # "promoted" => \A r \in Range(applied) : \E i \in 1 .. localSynced : local[i].rec = r
  /\ ~torn /\ fpc \in {"dial", "stream"} => applied = recs(local)
  /\ localSynced <= Len(local) /\ \A i, j \in DOMAIN local : i < j => local[i].lsn < local[j].lsn

\* "any dropped batch is entirely at or below the caller's last applied LSN"
\* (StreamReader): no acknowledged record at or below the follower's position
\* is missing from its accounts.
NothingSkipped ==
  \A d \in acked : d <= lastLSN => d \in Range(applied)

=============================================================================
