----------------------------- MODULE Checkpoint -----------------------------
(***************************************************************************)
(* The life of a ledger process around its files: NewLedger, the           *)
(* background checkpointer, Close (internal/engine/ledger.go) and the      *)
(* snapshot files (internal/snapshot/snapshot.go).                         *)
(*                                                                         *)
(* A WAL record stands for one committed batch: its position pos in the    *)
(* history, its LSN and its segment.  A state of the accounts is a count:  *)
(* how often each batch has been applied to it.  Wal models how a batch    *)
(* gets to disk, EventLoop what it does to the accounts.                   *)
(*                                                                         *)
(* Directory changes (a rename, a removal) reach the disk in order, and an *)
(* fsync of any file takes the earlier ones along, as on a file system     *)
(* with a metadata journal: the code never syncs a directory.  cut holds   *)
(* what a power failure may leave behind.                                  *)
(***************************************************************************)
EXTENDS Naturals, FiniteSets

CONSTANTS
  Seeding,     \* whether a start may have cfg.InitialAccounts set
  Kept,        \* snapshots CleanupOldSnapshots keeps, 3 in the code
  MaxBatches,  \* bound: batches
  MaxCrashes,  \* bound: crashes of the process or the machine
  MaxFaults,   \* bound: failing file operations
  MaxDamage    \* bound: snapshot files that become unreadable

ASSUME KeptAssumption == Kept \in Nat \ {0}
ASSUME BoundsAssumption == {MaxBatches, MaxCrashes, MaxFaults, MaxDamage} \subseteq Nat
ASSUME SeedingAssumption == Seeding \subseteq BOOLEAN

VARIABLES
  dir,       \* the files: snapshots by LSN, and WAL records
  cut,       \* the states of the files a power failure may leave
  cur,       \* ID of the live segment
  head,      \* history: number of batches written so far
  node,      \* "down", "starting", "serving" or "closing"
  loop,      \* the event loop runs
  state,     \* the accounts
  lsn,       \* EventLoop.currentLSN and WAL.currentLSN
  cp,        \* where the checkpointer stands
  view,      \* the snapshot it works on
  cycleOK,   \* Ledger.snapshotCycleOK
  base,      \* history: the LSN the process started at
  damaged,   \* history: a snapshot file is unreadable
  reseeded,  \* history: a start added its initial accounts to a used log
  budget     \* bound: crashes, faults and damage still allowed

files == <<dir, cut, cur, head>>
process == <<node, loop, state, lsn, base>>
checkpointer == <<cp, view, cycleOK>>
history == <<damaged, reseeded>>
vars == <<files, process, checkpointer, history, budget>>

-----------------------------------------------------------------------------
(* Files and states *)

Batch == 1 .. MaxBatches
blank == [p \in Batch |-> 0]

\* Apply the batches of a set of records once more.
applyAll(s, recs) == [p \in Batch |-> IF \E r \in recs : r.pos = p THEN s[p] + 1 ELSE s[p]]

larger(x, y) == IF x > y THEN x ELSE y

snaps == DOMAIN dir.snaps
readable(d) == {l \in DOMAIN d.snaps : d.snaps[l].ok}

NoView == [lsn |-> 0, state |-> blank]

\* r is the last record of its segment among recs.
lastOfSegment(recs, r) == \A q \in recs : q.seg = r.seg => q.pos <= r.pos

lastRecord(recs, r) == \A q \in recs : q.pos <= r.pos

Init ==
  /\ dir = [snaps |-> [l \in {} |-> 0], wal |-> {}] /\ cut = {dir}
  /\ cur = 1 /\ head = 0
  /\ node = "down" /\ loop = FALSE /\ state = blank /\ lsn = 0 /\ base = 0
  /\ cp = "off" /\ view = NoView /\ cycleOK = FALSE
  /\ damaged = FALSE /\ reseeded = FALSE
  /\ budget = [crashes |-> MaxCrashes, faults |-> MaxFaults, damage |-> MaxDamage]

\* A change of the directories that no fsync has confirmed yet.
change(d) == dir' = d /\ cut' = cut \cup {d}

\* A change that an fsync confirms, with all the earlier ones.
persist(d) == dir' = d /\ cut' = {d}

-----------------------------------------------------------------------------
(* NewLedger *)

\* Latest: the snapshot with the highest LSN that Read accepts; 0 for none.
Latest(d, s) == s \in readable(d) \cup {0} /\ \A l \in readable(d) : l <= s

\* The state in a snapshot.
Read(d, s) == IF s = 0 THEN blank ELSE d.snaps[s].state

\* recoverSegments skips a segment below the snapshot, unless it is the last.
skipped(recs, g, s) ==
  /\ s > 0
  /\ \E q \in recs : q.seg > g
  /\ \E q \in recs : q.seg = g /\ lastOfSegment(recs, q) /\ q.lsn <= s

\* Mutant of replayed: the record with the snapshot's LSN is replayed again.
replayedTwice(recs, s) == {r \in recs : r.lsn >= s /\ ~skipped(recs, r.seg, s)}

\* The records RecoverFromLSN(s) hands to the ledger.
replayed(recs, s) == {r \in recs : r.lsn > s /\ ~skipped(recs, r.seg, s)}

\* Mutant of RecoverLSN: the watermark is the snapshot's LSN.
RecoverLSNOfSnapshot(recs, s, l) == l = s

\* The LSN of the last commit in the log, and never less than the snapshot's.
RecoverLSN(recs, s, l) ==
  \/ recs = {} /\ l = s
  \/ \E r \in recs : lastRecord(recs, r) /\ l = larger(r.lsn, s)

\* Open leaves CurrentLSN at 0 until recovery has run, so NewLedger appends the
\* configured accounts to whatever log there is, with LSNs from 1.
seed == [pos |-> head + 1, lsn |-> 1, seg |-> cur]

SeedAccounts ==
  /\ head < MaxBatches
  /\ head' = head + 1 /\ reseeded' = (reseeded \/ head > 0)
  /\ persist([dir EXCEPT !.wal = @ \cup {seed}])

\* Load the latest snapshot, replay what is behind it, start the loop and ask
\* for a first snapshot before returning.
NewLedger ==
  /\ node = "down"
  /\ \/ TRUE \in Seeding /\ SeedAccounts
     \/ FALSE \in Seeding /\ UNCHANGED <<dir, cut, head, reseeded>>
  /\ \E s \in readable(dir) \cup {0} :
       /\ Latest(dir', s)
       /\ state' = applyAll(Read(dir', s), replayed(dir'.wal, s))
       /\ RecoverLSN(dir'.wal, s, lsn')
       /\ base' = lsn'
  /\ node' = "starting" /\ loop' = TRUE
  /\ cp' = "asked" /\ view' = NoView /\ cycleOK' = FALSE
  /\ UNCHANGED <<cur, damaged, budget>>

\* A batch is written, synced and applied; the segment may have been full.
Commit ==
  /\ node = "serving" /\ loop /\ head < MaxBatches
  /\ cur' \in {cur, cur + 1}
  /\ persist([dir EXCEPT !.wal = @ \cup {[pos |-> head + 1, lsn |-> lsn + 1, seg |-> cur']}])
  /\ state' = [state EXCEPT ![head + 1] = @ + 1]
  /\ head' = head + 1 /\ lsn' = lsn + 1
  /\ UNCHANGED <<node, loop, base, checkpointer, history, budget>>

-----------------------------------------------------------------------------
(* The checkpointer: StartCheckpointer and TriggerSnapshot *)

\* The end of a cycle.  NewLedger returns after the first one, whatever came of
\* it.
endCycle ==
  /\ cp' = "idle" /\ view' = NoView
  /\ node' = IF node = "starting" THEN "serving" ELSE node

cycleSucceeds == endCycle /\ cycleOK' = TRUE

\* Mutant of cycleFails: the failed cycle counts.
cycleFailsReady ==
  /\ endCycle /\ cycleOK' = TRUE
  /\ budget.faults > 0 /\ budget' = [budget EXCEPT !.faults = @ - 1]

cycleFails ==
  /\ endCycle /\ UNCHANGED cycleOK
  /\ budget.faults > 0 /\ budget' = [budget EXCEPT !.faults = @ - 1]

inCycle == UNCHANGED <<process, cycleOK, history>>

\* The ticker fires.  The select may prefer it to a cancelled context.
Tick ==
  /\ cp = "idle" /\ node \in {"serving", "closing"}
  /\ cp' = "asked"
  /\ UNCHANGED <<files, view, budget>> /\ inCycle

\* The loop answers the request with its state and LSN.
ServeView ==
  /\ cp = "asked" /\ loop
  /\ view' = [lsn |-> lsn, state |-> state]
  /\ cp' = "viewed"
  /\ UNCHANGED <<files, budget>> /\ inCycle

\* Mutant of NoSnapshot: the request does not look at the loop's closed channel.
NoSnapshotBlind ==
  /\ cp = "viewed" /\ view.lsn = 0
  /\ cycleSucceeds
  /\ UNCHANGED <<files, loop, state, lsn, base, history, budget>>

\* Nothing to write, or the loop has exited and closed is taken.
NoSnapshot ==
  /\ \/ cp = "viewed" /\ view.lsn = 0
     \/ cp \in {"asked", "viewed"} /\ ~loop
  /\ cycleSucceeds
  /\ UNCHANGED <<files, loop, state, lsn, base, history, budget>>

\* Write: the temporary file.  Its name does not end in .snap, so neither
\* Latest nor CleanupOldSnapshots ever looks at it, even if a crash leaves it.
WriteTemp ==
  /\ cp = "viewed" /\ view.lsn > 0
  /\ cp' = "written"
  /\ UNCHANGED <<files, view, budget>> /\ inCycle

SyncTemp ==
  /\ cp = "written"
  /\ persist(dir)
  /\ cp' = "synced"
  /\ UNCHANGED <<cur, head, view, budget>> /\ inCycle

withFile(d, l, file) ==
  [d EXCEPT !.snaps = [k \in DOMAIN d.snaps \cup {l} |-> IF k = l THEN file ELSE d.snaps[k]]]

\* Mutant of Rename: the file is renamed without having been synced.
RenameUnsynced ==
  /\ cp \in {"written", "synced"}
  /\ dir' = withFile(dir, view.lsn, [ok |-> TRUE, state |-> view.state])
  /\ cut' = cut \cup {dir'} \cup
            (IF cp = "written" THEN {withFile(dir, view.lsn, [ok |-> FALSE, state |-> blank])} ELSE {})
  /\ cp' = "renamed"
  /\ UNCHANGED <<cur, head, view, budget>> /\ inCycle

Rename ==
  /\ cp = "synced"
  /\ change(withFile(dir, view.lsn, [ok |-> TRUE, state |-> view.state]))
  /\ cp' = "renamed"
  /\ UNCHANGED <<cur, head, view, budget>> /\ inCycle

\* Any error of Write, the rename included; the temporary file is removed.
WriteFail ==
  /\ cp \in {"viewed", "written", "synced"} /\ view.lsn > 0
  /\ cycleFails
  /\ UNCHANGED <<files, loop, state, lsn, base, history>>

\* The files behind the Kept newest, readable or not.
surplus == {l \in snaps : Cardinality({k \in snaps : k > l}) >= Kept}

\* A removal that fails is ignored.
CleanupOldSnapshots ==
  /\ cp = "renamed"
  /\ \E gone \in SUBSET surplus :
       /\ change([dir EXCEPT !.snaps = [l \in snaps \ gone |-> dir.snaps[l]]])
       /\ \/ gone = surplus /\ UNCHANGED budget
          \/ gone # surplus /\ budget.faults > 0 /\ budget' = [budget EXCEPT !.faults = @ - 1]
  /\ cp' = "cleaned"
  /\ UNCHANGED <<cur, head, view>> /\ inCycle

\* Mutant of below: the newest closed segment is taken for the live one.
belowLess ==
  {r.seg : r \in {q \in dir.wal : lastOfSegment(dir.wal, q) /\ q.seg + 1 < cur /\ q.lsn < view.lsn}}

\* Closed segments whose last LSN is below the snapshot's.
below ==
  {r.seg : r \in {q \in dir.wal : lastOfSegment(dir.wal, q) /\ q.seg < cur /\ q.lsn < view.lsn}}

TruncateBefore ==
  /\ cp = "cleaned"
  /\ \E gone \in SUBSET below :
       /\ change([dir EXCEPT !.wal = {r \in @ : r.seg \notin gone}])
       /\ \/ gone = below /\ UNCHANGED budget
          \/ gone # below /\ budget.faults > 0 /\ budget' = [budget EXCEPT !.faults = @ - 1]
  /\ cycleSucceeds
  /\ UNCHANGED <<cur, head, loop, state, lsn, base, history>>

\* The segments cannot be listed.
TruncateFail ==
  /\ cp = "cleaned"
  /\ cycleFails
  /\ UNCHANGED <<files, loop, state, lsn, base, history>>

-----------------------------------------------------------------------------
(* Ready, Close, and what may go wrong *)

\* Recovery is over and the checkpointer has completed a cycle.
Ready == node \in {"serving", "closing"} /\ cycleOK

\* The memory of the process is gone.
exit ==
  /\ node' = "down" /\ loop' = FALSE /\ state' = blank /\ lsn' = 0 /\ base' = 0
  /\ cp' = "off" /\ view' = NoView /\ cycleOK' = FALSE

\* Close cancels the context, ...
CloseBegin ==
  /\ node = "serving"
  /\ node' = "closing"
  /\ UNCHANGED <<files, loop, state, lsn, base, checkpointer, history, budget>>

\* ... which ends the loop, its queued requests answered, ...
LoopExit ==
  /\ node = "closing" /\ loop
  /\ loop' = FALSE
  /\ UNCHANGED <<files, node, state, lsn, base, checkpointer, history, budget>>

\* ... and the ticker goroutine, ...
StopTicker ==
  /\ node = "closing" /\ cp = "idle"
  /\ cp' = "off"
  /\ UNCHANGED <<files, process, view, cycleOK, history, budget>>

\* ... and waits for both before it closes the WAL.
CloseWait ==
  /\ node = "closing" /\ ~loop /\ cp = "off"
  /\ exit
  /\ UNCHANGED <<files, history, budget>>

crash ==
  /\ exit
  /\ budget.crashes > 0 /\ budget' = [budget EXCEPT !.crashes = @ - 1]
  /\ UNCHANGED <<cur, head, history>>

\* The process dies; the files are as it left them.
Kill == node # "down" /\ crash /\ UNCHANGED <<dir, cut>>

\* The machine dies.
PowerFailure == \E d \in cut : crash /\ persist(d)

spoil(d, l) == IF l \in DOMAIN d.snaps THEN [d EXCEPT !.snaps[l].ok = FALSE] ELSE d

\* A snapshot file can no longer be read, or is of a version this one refuses.
Damage ==
  /\ budget.damage > 0
  /\ \E l \in readable(dir) : dir' = spoil(dir, l) /\ cut' = {spoil(d, l) : d \in cut}
  /\ damaged' = TRUE
  /\ budget' = [budget EXCEPT !.damage = @ - 1]
  /\ UNCHANGED <<cur, head, process, checkpointer, reseeded>>

TriggerSnapshot ==
  ServeView \/ NoSnapshot \/ WriteTemp \/ SyncTemp \/ Rename \/ CleanupOldSnapshots \/ TruncateBefore
Fail == WriteFail \/ TruncateFail
Close == LoopExit \/ StopTicker \/ CloseWait

\* Bound: a reseeded ledger, of which nothing is claimed, takes no more steps.
Next ==
  /\ ~reseeded
  /\ \/ NewLedger \/ Commit \/ Tick \/ TriggerSnapshot \/ Fail
     \/ CloseBegin \/ Close \/ Kill \/ PowerFailure \/ Damage

Spec == Init /\ [][Next]_vars

\* The goroutines are scheduled and the ticker keeps firing; nothing makes a
\* client commit, an operator close or restart, or a fault happen.  A select
\* between a tick and the cancelled context does not prefer the tick for ever.
FairSpec ==
  Spec /\ WF_vars(Tick) /\ WF_vars(TriggerSnapshot) /\ WF_vars(LoopExit)
       /\ SF_vars(StopTicker) /\ WF_vars(CloseWait)

-----------------------------------------------------------------------------
(* Properties *)

\* Every variable has its type.
TypeOK ==
  /\ \A d \in cut \cup {dir} :
       /\ DOMAIN d.snaps \subseteq Batch
       /\ \A l \in DOMAIN d.snaps : d.snaps[l] \in [ok : BOOLEAN, state : [Batch -> 0 .. head]]
       /\ d.wal \subseteq [pos : 1 .. head, lsn : 1 .. head, seg : 1 .. cur]
  /\ head \in 0 .. MaxBatches /\ {lsn, base, view.lsn} \subseteq 0 .. head
  /\ {state, view.state} \subseteq [Batch -> 0 .. head]
  /\ node \in {"down", "starting", "serving", "closing"} /\ loop \in BOOLEAN
  /\ cp \in {"off", "idle", "asked", "viewed", "written", "synced", "renamed", "cleaned"}
  /\ {cycleOK, damaged, reseeded} \subseteq BOOLEAN

up == node # "down"

\* A running ledger has applied no batch twice, whatever snapshot it started
\* from and whatever was left of the log: the LSN filter of RecoverFromLSN and
\* the LSN in the snapshot agree.
AppliedAtMostOnce ==
  up /\ ~reseeded => \A p \in Batch : state[p] <= 1

\* Every committed batch survives every restart: at any moment, whatever a
\* kill or a power failure leaves of the directories, the latest readable
\* snapshot and the log behind it hold all of them.  Neither the cleanup nor
\* the truncation of a cycle that a failure cuts short takes what recovery
\* needs (TriggerSnapshot, Write, CleanupOldSnapshots, TruncateBefore).  An
\* unreadable snapshot voids this: the segments below it are gone.
NothingLost ==
  ~damaged /\ ~reseeded =>
    \A d \in cut \cup {dir}, s \in 0 .. head :
      Latest(d, s) =>
        \A p \in 1 .. head : applyAll(Read(d, s), replayed(d.wal, s))[p] = 1

\* LSNs are never reused: a ledger goes on above every LSN in its log and its
\* snapshots, even when the snapshots are damaged (NewLedger: "new records
\* must never reuse LSNs at or below it").
LSNsNotReused ==
  up /\ ~reseeded =>
    /\ \A r \in dir.wal : r.lsn <= lsn
    /\ \A l \in snaps : l <= lsn
    /\ \A q, r \in dir.wal : q.pos < r.pos => q.lsn < r.lsn

\* A ready ledger that started on history has a snapshot of at least that
\* history, "so WAL retention is actually running" (Ready).  Once Close has
\* begun, a cycle that found the loop gone counts as a success as well.
ReadyIsRetained ==
  Ready /\ node = "serving" /\ base > 0 /\ ~damaged /\ ~reseeded => \E l \in snaps : l >= base

\* Closed segments that a snapshot of the present would cover are removed in
\* the end, unless the process stops: "production WALs stop growing without
\* bound" (StartCheckpointer).
SegmentsReclaimed ==
  \A g \in 1 .. MaxBatches - 1 :
    (node = "serving" /\ \E r \in dir.wal : r.seg = g /\ g < cur)
      ~> (node # "serving" \/ \A r \in dir.wal : r.seg # g)

\* Close returns: the checkpointer never waits for a loop that has exited.
CloseReturns == node = "closing" ~> node = "down"

=============================================================================
