----------------------------- MODULE EventLoopInv -----------------------------
(***************************************************************************)
(* The inductive invariant of the event loop (loop.go) and of recovery     *)
(* (ledger.go), for all batches, account batches and bounds, crashes and   *)
(* recoveries included: amounts fit, accounts are solvent, the log is well *)
(* formed, and what is left of a batch leads to what was staged.           *)
(***************************************************************************)
EXTENDS EventLoop, LedgerProofs

\* Leaves with arithmetic, or too many functions and records for Zenon, name SMT.
USE Zenon

(* What the rest of a batch does *)

\* Accounts and holds of a state.
stage(x) == [acc |-> x.acc, pending |-> x.pending]

\* Transfer t takes accounts and holds from p to q, whatever else the manager
\* holds.
Takes(p, t, q) ==
  \A s : s.acc = p.acc /\ s.pending = p.pending =>
           /\ ApplyTransferState(s, t).err = OK
           /\ ApplyTransferState(s, t).m.acc = q.acc /\ ApplyTransferState(s, t).m.pending = q.pending

\* s[k] is what event k meets: it takes s[k] to s[k + 1] if it passed.
Traced(s, ev, out, from, to) ==
  \A k \in from .. to : IF out[k] = OK THEN Takes(s[k], ev[k], s[k + 1]) ELSE s[k + 1] = s[k]

\* What the validator accepts from a view, ApplyTransferState applies to a
\* manager with the same accounts and holds.
LEMMA AgreeTakes ==
  ASSUME NEW w, View(w), w.acc \in [DOMAIN w.acc -> Account], w.pending \in [DOMAIN w.pending -> Transfer],
         NEW t \in Transfer, NEW recorded, NEW g, g = validateAndApply(w, t, recorded), g.err = OK
  PROVE  Takes(stage(w), t, stage(g.v))
<1> SUFFICES ASSUME NEW s, s.acc = stage(w).acc, s.pending = stage(w).pending
             PROVE  /\ ApplyTransferState(s, t).err = OK
                    /\ ApplyTransferState(s, t).m.acc = stage(g.v).acc
                    /\ ApplyTransferState(s, t).m.pending = stage(g.v).pending
  BY DEF Takes
<1>1. s.acc = w.acc /\ s.pending = w.pending
  BY DEF stage
<1>2. PICK r : r = ApplyTransferState(s, t)
  OBVIOUS
<1>3. w = [acc |-> w.acc, pending |-> w.pending, seen |-> w.seen]
  BY DEF View
<1>4. r.err = OK /\ r.m.acc = g.v.acc /\ r.m.pending = g.v.pending
  BY SMTT(30), <1>1, <1>2, <1>3, Agree
<1>5. stage(g.v).acc = g.v.acc /\ stage(g.v).pending = g.v.pending
  BY DEF stage
<1> QED
  BY <1>2, <1>4, <1>5

\* u is trace s with one event more, which leads to x.
Longer(u, s, ev, out, n, x) == Traced(u, ev, out, 1, n) /\ u[n + 1] = x /\ \A k \in 1 .. n : u[k] = s[k]

\* A trace goes on with one more event that passes.
LEMMA TraceOn ==
  ASSUME NEW s, NEW ev, NEW out, NEW n \in Nat \ {0}, NEW p, p = n - 1, Traced(s, ev, out, 1, p),
         NEW x, out[n] = OK, Takes(s[n], ev[n], x)
  PROVE  \E u : Longer(u, s, ev, out, n, x)
<1> DEFINE u == [k \in 1 .. (n + 1) |-> IF k = n + 1 THEN x ELSE s[k]]
<1>1. u[n + 1] = x /\ \A k \in 1 .. n : u[k] = s[k]
  BY SMTT(30)
<1>2. ASSUME NEW k \in 1 .. n
      PROVE  IF out[k] = OK THEN Takes(u[k], ev[k], u[k + 1]) ELSE u[k + 1] = u[k]
  <2>1. CASE k = n
    BY <1>1, <2>1
  <2>2. CASE k # n
    <3>1. k \in 1 .. (n - 1) /\ k + 1 \in 1 .. n
      BY SMTT(30), <2>2
    <3>2. IF out[k] = OK THEN Takes(s[k], ev[k], s[k + 1]) ELSE s[k + 1] = s[k]
      BY <3>1 DEF Traced
    <3> QED
      BY <1>1, <3>1, <3>2
  <2> QED
    BY <2>1, <2>2
<1> QED
  BY <1>1, <1>2 DEF Traced, Longer

Back(u, s, ev, out, c, n) == Traced(u, ev, out, 1, n) /\ u[n + 1] = s[c] /\ u[1] = s[1]

\* A trace falls back to event c, all events from there to n having failed.
LEMMA TraceBack ==
  ASSUME NEW s, NEW ev, NEW out, NEW c \in Nat \ {0}, NEW i0 \in Nat, c <= i0, Traced(s, ev, out, 1, i0 - 1),
         NEW n \in Nat, c <= n, NEW out2, \A k \in 1 .. (c - 1) : out2[k] = out[k], \A k \in c .. n : out2[k] # OK
  PROVE  \E u : Back(u, s, ev, out2, c, n)
<1> DEFINE u == [k \in 1 .. (n + 1) |-> IF k <= c THEN s[k] ELSE s[c]]
<1>1. u[n + 1] = s[c] /\ u[1] = s[1]
  BY SMTT(30)
<1>2. ASSUME NEW k \in 1 .. n
      PROVE  IF out2[k] = OK THEN Takes(u[k], ev[k], u[k + 1]) ELSE u[k + 1] = u[k]
  <2>1. CASE k < c
    <3>1. u[k] = s[k] /\ u[k + 1] = s[k + 1] /\ k \in 1 .. (i0 - 1) /\ out2[k] = out[k]
      BY SMTT(30), <2>1
    <3>2. IF out[k] = OK THEN Takes(s[k], ev[k], s[k + 1]) ELSE s[k + 1] = s[k]
      BY <3>1 DEF Traced
    <3> QED
      BY <3>1, <3>2
  <2>2. CASE c <= k
    <3>1. u[k] = s[c] /\ u[k + 1] = s[c] /\ out2[k] # OK
      BY SMTT(30), <2>2
    <3> QED
      BY <3>1
  <2> QED
    BY SMTT(30), <2>1, <2>2
<1> QED
  BY <1>1, <1>2 DEF Traced, Back

-----------------------------------------------------------------------------
(* The inductive invariant *)

\* Finitely many well-formed accounts.
Accs(acc) == acc \in [DOMAIN acc -> Account] /\ IsFiniteSet(DOMAIN acc)

\* What makeWALRecords and processAccountCreate write.
Record == [type : {"account"}, id : STRING, a : NewAccount] \cup [type : {"transfer"}, t : Transfer]

\* The outcomes of a batch.
Outcomes == Rejections \cup {OK, "ErrLinkedChainFailed", "ErrLinkedChainOpen"}

\* Counters, clocks and phases.
CountersOK ==
  /\ phase \in {"idle", "expire", "validate", "apply", "down", "replay", "replayExpire", "failed"}
  /\ clock \in Int /\ wall \in Int
  /\ budget = [next |-> budget.next, crashes |-> budget.crashes, walErrors |-> budget.walErrors]
  /\ budget.next \in Nat \ {0} /\ budget.crashes \in 0 .. MaxCrashes

\* The account manager, solvent but for accounts that stretched their funds.
Manager(x) ==
  /\ x = [acc |-> x.acc, pending |-> x.pending, orphans |-> x.orphans, transfers |-> x.transfers]
  /\ Accs(x.acc) /\ Pending(x.pending) /\ x.orphans \subseteq Transfer
\* The manager is well formed and solvent unless recovery failed.
ManagerOK == phase # "failed" => Manager(m) /\ SolventBut(m.acc, stretched)

\* What a snapshot holds, up to a position of the journal, and the journal.
Snapshot(s, n, X) == s.lsn \in 0 .. n /\ Accs(s.acc) /\ Pending(s.pending) /\ SolventBut(s.acc, X)
\* The journal has no empty batch; snapshot and view are of positions it has.
DiskOK ==
  /\ journal \in Seq(Seq(Record) \ {<<>>}) /\ lsn \in 0 .. Len(journal)
  /\ Snapshot(snap, Len(journal), stretched) /\ Snapshot(view, Len(journal), stretched)

\* The position of recovery.
ReplayOK ==
  /\ phase = "replay" => rb \in 1 .. (Len(journal) + 1) /\ (rb <= Len(journal) => ri \in 1 .. Len(journal[rb]))
  /\ phase = "replayExpire" => /\ rb \in 1 .. Len(journal) /\ ri \in 1 .. Len(journal[rb])
                               /\ replayed.type = "transfer"

\* A validator's view of accounts and holds.
Staging(w) == View(w) /\ Accs(w.acc) /\ Pending(w.pending)

\* Chains of ev that end before c have failed or passed as a whole; the one
\* that starts at c is open and has no event that failed.
Chains(ev, out, c, n) ==
  /\ \A k \in 1 .. (c - 1) : isLinked(ev[k]) =>
       IF k = Len(ev) THEN out[k] # OK ELSE k + 1 < c /\ (out[k] = OK <=> out[k + 1] = OK)
  /\ \A k \in c .. Len(ev) : out[k] = OK
  /\ \A k \in c .. (n - 1) : isLinked(ev[k])
  /\ n > Len(ev) => c = n
\* A linked event and the next one pass or fail together, and none is left
\* open.
Atomic(ev, out) ==
  \A k \in DOMAIN ev : isLinked(ev[k]) => IF k = Len(ev) THEN out[k] # OK ELSE (out[k] = OK) <=> (out[k + 1] = OK)

\* What the events before i made of the accounts and holds the batch met.
ValidateOK ==
  /\ i \in 1 .. (Len(events) + 1) /\ chainStart \in 1 .. i /\ outcomes \in [DOMAIN events -> Outcomes]
  /\ Staging(v) /\ Staging(chainView) /\ Chains(events, outcomes, chainStart, i)
  /\ \E s : /\ Traced(s, events, outcomes, 1, i - 1)
            /\ s[1] = stage(m) /\ s[i] = stage(v) /\ s[chainStart] = stage(chainView)

\* State x has the accounts and holds of p.
At(p, x) == p.acc = x.acc /\ p.pending = x.pending

\* What is left to apply takes the manager to what was staged.
ApplyOK ==
  /\ i \in 1 .. (Len(events) + 1) /\ outcomes \in [DOMAIN events -> Outcomes] /\ Atomic(events, outcomes)
  /\ \E s : /\ Traced(s, events, outcomes, i, Len(events))
            /\ At(s[i], m) /\ At(s[Len(events) + 1], v)

\* The batch in progress.
BatchOK ==
  /\ events \in Seq(Transfer)
  /\ phase = "validate" => ValidateOK
  /\ phase = "apply" => ApplyOK

\* The inductive invariant of the event loop and of recovery.
LoopState == CountersOK /\ ManagerOK /\ DiskOK /\ ReplayOK /\ BatchOK

\* LoopInv names it in statements; a proof opens LoopInv once and LoopState
\* where it is used.
LoopInv == LoopState

\* A ledger without accounts and holds is well formed.
LEMMA EmptyMap ==
  Accs(emptyMap) /\ Pending(emptyMap) /\ DOMAIN emptyMap = {}
<1>1. IsFiniteSet({})
  BY FS_EmptySet
<1> QED
  BY <1>1 DEF Accs, Pending, emptyMap

\* The view is well formed when there is none.
LEMMA NoViewSnapshot ==
  ASSUME NEW n \in Nat, NEW X
  PROVE  Snapshot(NoView, n, X)
BY SMTT(30), EmptyMap DEF Snapshot, NoView, SolventBut

\* A snapshot stays one of a journal that has grown.
LEMMA SnapshotGrows ==
  ASSUME NEW s, NEW n \in Nat, NEW X, Snapshot(s, n, X), NEW k \in Nat, n <= k, NEW Z, X \subseteq Z
  PROVE  Snapshot(s, k, Z)
BY SMTT(30) DEF Snapshot, SolventBut

\* A member of a sequence over S is in S.
LEMMA SeqElement ==
  ASSUME NEW S, NEW s \in Seq(S), NEW k \in DOMAIN s
  PROVE  s[k] \in S
BY SMTT(30)

\* Accounts become account records.
LEMMA AccountRecords ==
  ASSUME NEW s \in Seq([id : STRING, a : NewAccount]), NEW r, r = each(accountRecord, s)
  PROVE  r \in Seq(Record) /\ Len(r) = Len(s)
<1>1. \A k \in DOMAIN s : accountRecord(s[k]) \in Record
  <2> SUFFICES ASSUME NEW k \in DOMAIN s PROVE accountRecord(s[k]) \in Record
    OBVIOUS
  <2>1. s[k] \in [id : STRING, a : NewAccount]
    BY SeqElement
  <2>2. PICK x : x = s[k]
    OBVIOUS
  <2>3. x.id \in STRING /\ x.a \in NewAccount
    BY <2>1, <2>2
  <2>4. accountRecord(x) \in Record
    BY <2>3 DEF accountRecord, Record
  <2> QED
    BY <2>2, <2>4
<1>2. r = [k \in DOMAIN s |-> accountRecord(s[k])]
  BY DEF each
<1>3. DOMAIN s = 1 .. Len(s) /\ Len(s) \in Nat
  BY SMTT(30)
<1> QED
  BY SMTT(30), <1>1, <1>2, <1>3

\* Transfers become transfer records.
LEMMA TransferRecords ==
  ASSUME NEW s \in Seq(Transfer), NEW r, r = each(transferRecord, s)
  PROVE  /\ r \in Seq(Record) /\ Len(r) = Len(s)
         /\ \A k \in DOMAIN s : r[k] = transferRecord(s[k])
<1>1. \A k \in DOMAIN s : transferRecord(s[k]) \in Record
  <2> SUFFICES ASSUME NEW k \in DOMAIN s PROVE transferRecord(s[k]) \in Record
    OBVIOUS
  <2>1. s[k] \in Transfer
    BY SeqElement
  <2> QED
    BY <2>1 DEF transferRecord, Record
<1>2. r = [k \in DOMAIN s |-> transferRecord(s[k])]
  BY DEF each
<1>3. DOMAIN s = 1 .. Len(s) /\ Len(s) \in Nat
  BY SMTT(30)
<1> QED
  BY SMTT(30), <1>1, <1>2, <1>3

\* Part of a sequence is a sequence over the same set, and not empty if any
\* position was picked.
LEMMA PicksSeq ==
  ASSUME NEW X, NEW s \in Seq(X), NEW K, NEW r, Picks(s, K, Len(s), r)
  PROVE  r \in Seq(X) /\ ((\E k \in DOMAIN s : k \in K) => r # <<>>)
<1>1. PICK len, pos : PicksAt(s, K, Len(s), r, len, pos)
  BY DEF Picks
<1>2. len \in Nat /\ pos \in [1 .. len -> 1 .. Len(s)] /\ r = [j \in 1 .. len |-> s[pos[j]]]
  BY <1>1 DEF PicksAt
<1>3. \A k \in 1 .. Len(s) : k \in K => \E j \in 1 .. len : pos[j] = k
  BY <1>1 DEF PicksAt
<1>4. \A j \in 1 .. len : s[pos[j]] \in X
  BY SMTT(30), <1>2
<1>5. r \in Seq(X) /\ Len(r) = len
  BY SMTT(30), <1>2, <1>4
<1>6. ASSUME \E k \in DOMAIN s : k \in K PROVE len # 0
  BY SMTT(30), <1>2, <1>3, <1>6
<1> QED
  BY ZenonT(30), <1>2, <1>5, <1>6

\* The invariant holds after the first accounts were created.
LEMMA InitLoop ==
  Init => LoopInv
<1> SUFFICES ASSUME Init PROVE LoopInv
  OBVIOUS
<1>1. PICK r : r = createAll(emptyMap, FirstAccounts)
  OBVIOUS
<1>2. m = [acc |-> r, pending |-> emptyMap, orphans |-> {}, transfers |-> {}]
  BY <1>1 DEF Init
<1>3. FirstAccounts \in Seq([id : STRING, a : NewAccount]) /\ FirstAccounts # <<>>
  BY BatchAssumption
<1>4. \A k \in DOMAIN FirstAccounts : FirstAccounts[k].a \in NewAccount
  <2>1. \A k \in DOMAIN FirstAccounts : FirstAccounts[k] \in [id : STRING, a : NewAccount]
    BY <1>3, SeqElement
  <2> QED
    BY <2>1
<1>5. Creates(emptyMap, r)
  BY <1>1, <1>3, <1>4, EmptyMap, CreateAll DEF Accs
<1>6. Accs(r)
  BY <1>5 DEF Creates, Accs
<1>7. SolventBut(emptyMap, {})
  BY EmptyMap DEF SolventBut
<1>8. SolventBut(r, {})
  BY <1>5, <1>7, CreatesSolvent
<1>9. ManagerOK
  BY SMTT(30), <1>2, <1>6, <1>8, EmptyMap DEF Init, ManagerOK, Manager
<1>10. PICK recs : recs = each(accountRecord, FirstAccounts)
  OBVIOUS
<1>11. journal = <<recs>> /\ recs \in Seq(Record) /\ Len(recs) = Len(FirstAccounts)
  BY ZenonT(30), <1>3, <1>10, AccountRecords DEF Init
<1>12. journal \in Seq(Seq(Record) \ {<<>>}) /\ Len(journal) = 1
  BY SMTT(30), <1>3, <1>11
<1>13. DiskOK
  BY SMTT(30), <1>12, NoViewSnapshot DEF Init, DiskOK
<1>14. CountersOK
  BY SMTT(30), BatchAssumption DEF Init, CountersOK
<1>15. ReplayOK /\ BatchOK
  BY SMTT(30) DEF Init, ReplayOK, BatchOK
<1> QED
  BY <1>9, <1>13, <1>14, <1>15 DEF LoopInv, LoopState

-----------------------------------------------------------------------------
(* Steps that apply no transfer *)

\* Steps that write nothing leave the disk well formed,
LEMMA DiskSame ==
  DiskOK /\ UNCHANGED <<journal, snap, stretched, view, lsn>> => DiskOK'
BY DEF DiskOK, Snapshot

\* steps that move no clock leave the counters so,
LEMMA CountersSame ==
  CountersOK /\ UNCHANGED <<clock, wall, budget>>
    /\ phase' \in {"idle", "expire", "validate", "apply", "down", "replay", "replayExpire", "failed"} => CountersOK'
BY DEF CountersOK

\* and steps that apply nothing the manager.
LEMMA ManagerSame ==
  ManagerOK /\ phase # "failed" /\ UNCHANGED <<m, stretched>> => ManagerOK'
BY DEF ManagerOK, Manager

\* Nothing happens.
LEMMA StutterLoop ==
  LoopInv /\ UNCHANGED vars => LoopInv'
BY ZenonT(30) DEF LoopInv, LoopState, CountersOK, ManagerOK, Manager, DiskOK, Snapshot, ReplayOK, replayed, BatchOK,
                  ValidateOK, ApplyOK, chainView, stage, At, vars, manager, clocks, batch, disk

\* processBatch advances the clock and takes the next batch.
LEMMA ProcessBatchLoop ==
  LoopInv /\ processBatch => LoopInv'
<1> SUFFICES ASSUME LoopInv, processBatch, LoopState PROVE LoopState'
  BY DEF LoopInv
<1>1. PICK b \in Batches[budget.next], d \in ClockSteps : wall' = wall + d /\ events' = b
  BY DEF processBatch
<1>2. budget.next \in 1 .. Len(Batches)
  BY SMTT(30), BatchAssumption DEF processBatch, LoopState, CountersOK
<1>3. Batches[budget.next] \subseteq Seq(Transfer)
  BY SMTT(30), <1>2, BatchAssumption
<1>4. d \in Int /\ wall' \in Int
  BY SMTT(30), <1>1, BatchAssumption DEF LoopState, CountersOK
<1>5. CountersOK'
  BY SMTT(30), <1>4 DEF processBatch, LoopState, CountersOK
<1>6. DiskOK'
  BY DiskSame DEF processBatch, LoopState, disk
<1>7. ManagerOK'
  BY ManagerSame DEF processBatch, LoopState
<1>8. ReplayOK' /\ BatchOK'
  BY <1>1, <1>3 DEF processBatch, ReplayOK, BatchOK
<1> QED
  BY <1>5, <1>6, <1>7, <1>8 DEF LoopState

\* Back to "idle", with no batch.
LEMMA IdleLoop ==
  LoopInv /\ phase' = "idle" /\ events' = <<>> => ReplayOK' /\ BatchOK'
BY SMTT(30) DEF ReplayOK, BatchOK

\* Acknowledge answers the batch.
LEMMA AcknowledgeLoop ==
  LoopInv /\ Acknowledge => LoopInv'
<1> SUFFICES ASSUME LoopInv, Acknowledge, LoopState PROVE LoopState'
  BY DEF LoopInv
<1>1. CountersOK' /\ DiskOK'
  BY DiskSame, CountersSame DEF Acknowledge, LoopState, disk, manager, clocks
<1>2. ManagerOK'
  BY ManagerSame DEF Acknowledge, LoopState, manager
<1>3. ReplayOK' /\ BatchOK'
  BY IdleLoop DEF Acknowledge, endBatch
<1> QED
  BY <1>1, <1>2, <1>3 DEF LoopState

\* RequestSnapshotView copies accounts and holds between two batches.
LEMMA RequestSnapshotViewLoop ==
  LoopInv /\ RequestSnapshotView => LoopInv'
<1> SUFFICES ASSUME LoopInv, RequestSnapshotView, LoopState PROVE LoopState'
  BY DEF LoopInv
<1>1. CountersOK'
  BY CountersSame DEF RequestSnapshotView, LoopState, CountersOK, clocks
<1>2. ManagerOK'
  BY ManagerSame DEF RequestSnapshotView, LoopState, manager
<1>3. Snapshot(view', Len(journal), stretched)
  BY DEF RequestSnapshotView, LoopState, DiskOK, ManagerOK, Manager, Snapshot
<1>4. DiskOK'
  BY <1>3 DEF RequestSnapshotView, LoopState, DiskOK, disk, manager, Snapshot
<1>5. ReplayOK' /\ BatchOK'
  BY DEF RequestSnapshotView, LoopState, ReplayOK, BatchOK, batch
<1> QED
  BY <1>1, <1>2, <1>4, <1>5 DEF LoopState

\* A step beside the batch leaves it alone,
LEMMA BatchSame ==
  BatchOK /\ UNCHANGED <<batch, m, phase>> => BatchOK'
BY DEF BatchOK, ValidateOK, ApplyOK, chainView, stage, At, batch

\* and recovery where it is.
LEMMA ReplaySame ==
  ReplayOK /\ UNCHANGED <<journal, rb, ri, phase>> => ReplayOK'
BY DEF ReplayOK, replayed

\* WriteSnapshot saves the copy, and TruncateBefore cuts the log.
LEMMA WriteSnapshotLoop ==
  LoopInv /\ WriteSnapshot => LoopInv'
<1> SUFFICES ASSUME LoopInv, WriteSnapshot, LoopState PROVE LoopState'
  BY DEF LoopInv
<1>1. CountersOK'
  BY CountersSame DEF WriteSnapshot, LoopState, CountersOK, clocks
<1>2. ManagerOK'
  BY DEF WriteSnapshot, LoopState, manager, ManagerOK, Manager
<1>3. Snapshot(view', Len(journal), stretched)
  BY SMTT(30), NoViewSnapshot DEF WriteSnapshot, LoopState, DiskOK
<1>4. snap' \in {view, snap}
  BY DEF WriteSnapshot
<1>5. DiskOK'
  BY <1>3, <1>4 DEF WriteSnapshot, LoopState, DiskOK, manager, Snapshot
<1>6. BatchOK'
  BY BatchSame DEF WriteSnapshot, LoopState, manager
<1>7. ReplayOK'
  BY ReplaySame DEF WriteSnapshot, LoopState
<1> QED
  BY <1>1, <1>2, <1>5, <1>6, <1>7 DEF LoopState

\* RecoverFromSnapshot starts from the saved accounts and holds.
LEMMA LoadSnapshotLoop ==
  LoopInv /\ LoadSnapshot => LoopInv'
<1> SUFFICES ASSUME LoopInv, LoadSnapshot, LoopState PROVE LoopState'
  BY DEF LoopInv
<1>1. CountersOK'
  BY CountersSame DEF LoadSnapshot, LoopState, CountersOK, clocks
<1>2. DiskOK'
  BY DiskSame DEF LoadSnapshot, LoopState, disk
<1>3. ManagerOK'
  BY DEF LoadSnapshot, LoopState, DiskOK, Snapshot, ManagerOK, Manager
<1>4. journal' = journal /\ rb' = snap.lsn + 1 /\ ri' = 1 /\ phase' = "replay"
  BY DEF LoadSnapshot, disk
<1>5. rb' \in 1 .. (Len(journal) + 1)
  BY SMTT(30), <1>4 DEF LoopState, DiskOK, Snapshot
<1>6. ASSUME rb' <= Len(journal) PROVE 1 \in 1 .. Len(journal[rb'])
  <2>1. journal[rb'] \in Seq(Record) \ {<<>>}
    BY SMTT(30), <1>5, <1>6 DEF LoopState, DiskOK
  <2> QED
    BY SMTT(30), <2>1
<1>7. ReplayOK'
  BY <1>4, <1>5, <1>6 DEF ReplayOK
<1>8. BatchOK'
  BY DEF LoadSnapshot, LoopState, BatchOK, batch
<1> QED
  BY <1>1, <1>2, <1>3, <1>7, <1>8 DEF LoopState

\* It finds a transfer record, and advances the clock.
LEMMA ReplayTransferLoop ==
  LoopInv /\ ReplayTransfer => LoopInv'
<1> SUFFICES ASSUME LoopInv, ReplayTransfer, LoopState PROVE LoopState'
  BY DEF LoopInv
<1>1. CountersOK'
  BY CountersSame DEF ReplayTransfer, LoopState, CountersOK, clocks
<1>2. DiskOK'
  BY DiskSame DEF ReplayTransfer, LoopState, disk
<1>3. ManagerOK'
  BY ManagerSame DEF ReplayTransfer, LoopState
<1>4. ReplayOK'
  BY SMTT(30) DEF ReplayTransfer, LoopState, ReplayOK, DiskOK, replayed, disk
<1>5. BatchOK'
  BY DEF ReplayTransfer, LoopState, BatchOK, batch
<1> QED
  BY <1>1, <1>2, <1>3, <1>4, <1>5 DEF LoopState

\* It has read the whole log, and the loop starts.
LEMMA StartLoopLoop ==
  LoopInv /\ StartLoop => LoopInv'
<1> SUFFICES ASSUME LoopInv, StartLoop, LoopState PROVE LoopState'
  BY DEF LoopInv
<1>1. CountersOK'
  BY SMTT(30) DEF StartLoop, LoopState, CountersOK
<1>2. DiskOK'
  BY SMTT(30) DEF StartLoop, LoopState, disk, DiskOK, manager, Snapshot
<1>3. ManagerOK'
  BY ManagerSame DEF StartLoop, LoopState, manager
<1>4. ReplayOK' /\ BatchOK'
  BY DEF StartLoop, LoopState, ReplayOK, BatchOK, batch
<1> QED
  BY <1>1, <1>2, <1>3, <1>4 DEF LoopState

\* The record after record k of batch b.
LEMMA NextRecordOK ==
  ASSUME NEW j \in Seq(Seq(Record) \ {<<>>}), NEW b \in 1 .. Len(j), NEW k \in 1 .. Len(j[b]),
         NEW b2, NEW k2, IF k < Len(j[b]) THEN b2 = b /\ k2 = k + 1 ELSE b2 = b + 1 /\ k2 = 1
  PROVE  b2 \in 1 .. (Len(j) + 1) /\ (b2 <= Len(j) => k2 \in 1 .. Len(j[b2]))
<1>1. \A x \in 1 .. Len(j) : j[x] \in Seq(Record) \ {<<>>}
  BY SMTT(30)
<1>2. \A x \in 1 .. Len(j) : Len(j[x]) \in Nat /\ Len(j[x]) # 0
  BY SMTT(30), <1>1
<1>3. CASE k < Len(j[b])
  BY SMTT(30), <1>2, <1>3
<1>4. CASE ~(k < Len(j[b]))
  BY SMTT(30), <1>2, <1>4
<1> QED
  BY <1>3, <1>4

\* It creates the account of an account record again.
LEMMA ReplayAccountLoop ==
  LoopInv /\ ReplayAccount => LoopInv'
<1> SUFFICES ASSUME LoopInv, ReplayAccount, LoopState PROVE LoopState'
  BY DEF LoopInv
<1>1. CountersOK'
  BY CountersSame DEF ReplayAccount, LoopState, CountersOK, clocks
<1>2. DiskOK'
  BY DiskSame DEF ReplayAccount, LoopState, disk
<1>3. rb \in 1 .. Len(journal) /\ ri \in 1 .. Len(journal[rb])
  BY SMTT(30) DEF ReplayAccount, LoopState, ReplayOK, DiskOK
<1>4. replayed \in Record
  <2>1. journal[rb] \in Seq(Record)
    BY SMTT(30), <1>3 DEF LoopState, DiskOK
  <2> QED
    BY SMTT(30), <1>3, <2>1 DEF replayed
<1>5. replayed.type = "account" /\ replayed.a \in NewAccount
  <2>1. PICK x : x = replayed
    OBVIOUS
  <2>2. x \in Record /\ x.type = "account"
    BY <1>4, <2>1 DEF ReplayAccount
  <2>3. x.a \in NewAccount
    BY <2>2 DEF Record
  <2> QED
    BY <2>1, <2>2, <2>3
<1>6. PICK y : y = m.acc
  OBVIOUS
<1>7. PICK s : s = <<replayed>>
  OBVIOUS
<1>8. s \in Seq({replayed}) /\ \A k \in DOMAIN s : s[k].a \in NewAccount
  BY SMTT(30), <1>5, <1>7
<1>9. PICK r : r = createAll(y, s)
  OBVIOUS
<1>10. Manager(m) /\ SolventBut(m.acc, stretched)
  BY DEF ReplayAccount, LoopState, ManagerOK
<1>11. Creates(y, r)
  BY ZenonT(30), <1>6, <1>8, <1>9, <1>10, CreateAll DEF Manager, Accs
<1>12. m' = [acc |-> r, pending |-> m.pending, orphans |-> m.orphans, transfers |-> m.transfers]
  <2>1. m' = [m EXCEPT !.acc = r]
    BY <1>6, <1>7, <1>9 DEF ReplayAccount
  <2> QED
    BY <1>10, <2>1 DEF Manager
<1>13. SolventBut(r, stretched)
  BY <1>6, <1>10, <1>11, CreatesSolvent
<1>14. Accs(r)
  BY <1>11 DEF Creates, Accs
<1>15. stretched' = stretched
  BY DEF ReplayAccount
<1>16. ManagerOK'
  BY <1>10, <1>12, <1>13, <1>14, <1>15 DEF ManagerOK, Manager
<1>17. ReplayOK'
  <2>1. journal \in Seq(Seq(Record) \ {<<>>})
    BY DEF LoopState, DiskOK
  <2>2. rb' \in 1 .. (Len(journal) + 1) /\ (rb' <= Len(journal) => ri' \in 1 .. Len(journal[rb']))
    BY <1>3, <2>1, NextRecordOK DEF ReplayAccount, nextRecord
  <2> QED
    BY <2>2 DEF ReplayOK, ReplayAccount, disk
<1>18. BatchOK'
  BY DEF ReplayAccount, LoopState, BatchOK, batch
<1> QED
  BY <1>1, <1>2, <1>16, <1>17, <1>18 DEF LoopState

-----------------------------------------------------------------------------
(* Expiry and recovery *)

\* A hold that expires is one the manager knows.
LEMMA ExpiredHold ==
  ASSUME NEW x, Manager(x), NEW c, NEW e \in nextExpired(x, c)
  PROVE  e \in Transfer /\ (e \in x.orphans \/ \E k \in DOMAIN x.pending : e = x.pending[k])
<1>1. e \in heap(x)
  BY DEF nextExpired, expired
<1>2. e \in x.orphans \/ \E k \in DOMAIN x.pending : e = x.pending[k]
  BY <1>1 DEF heap
<1>3. x.orphans \subseteq Transfer /\ \A k \in DOMAIN x.pending : x.pending[k] \in Transfer
  BY DEF Manager, Pending
<1> QED
  BY <1>2, <1>3

\* Giving reservations back, even only one side of them, overdraws nobody.
LEMMA ReleaseSolvent ==
  ASSUME NEW acc, Accs(acc), NEW e \in Transfer, NEW q, q = releasePending(acc, e), NEW X, SolventBut(acc, X)
  PROVE  Accs(q.acc) /\ DOMAIN q.acc = DOMAIN acc /\ SolventBut(q.acc, X)
<1>1. acc \in [DOMAIN acc -> Account]
  BY DEF Accs
<1>2. PICK a : a = e.amount
  OBVIOUS
<1>3. a \in Nat /\ -a \in Int /\ 0 + -a <= 0
  BY SMTT(30), <1>2, Amounts DEF Transfer
<1>4. q.acc = acc \/ \E ch \in {0, -a} : Shifts(acc, q.acc, e.debit, e.credit, 0, -a, 0, ch)
  BY <1>1, <1>2, ReleasePending
<1>5. CASE q.acc = acc
  BY <1>5
<1>6. ASSUME NEW ch \in {0, -a}, Shifts(acc, q.acc, e.debit, e.credit, 0, -a, 0, ch)
      PROVE  Accs(q.acc) /\ DOMAIN q.acc = DOMAIN acc /\ SolventBut(q.acc, X)
  <2>1. DOMAIN q.acc = DOMAIN acc /\ q.acc \in [DOMAIN q.acc -> Account]
    BY <1>6 DEF Shifts
  <2>2. SolventBut(q.acc, X)
    BY SMTT(30), <1>1, <1>3, <1>6, SolventShift
  <2> QED
    BY <2>1, <2>2 DEF Accs
<1> QED
  BY <1>4, <1>5, <1>6

\* Closing an expired hold keeps the manager well formed and solvent.
LEMMA ExpireManager ==
  ASSUME NEW x, Manager(x), NEW c, NEW e \in nextExpired(x, c), NEW r, r = expireOne(x, e), NEW X, SolventBut(x.acc, X)
  PROVE  Manager(r.m) /\ SolventBut(r.m.acc, X) /\ DOMAIN r.m.acc = DOMAIN x.acc
<1>1. e \in Transfer
  BY ExpiredHold
<1>2. PICK q : q = releasePending(x.acc, e)
  OBVIOUS
<1>3. PICK lost : lost = IF e.id \in DOMAIN x.pending /\ x.pending[e.id] # e THEN replaced(x, e) ELSE {}
  OBVIOUS
<1>4. r.m = [x EXCEPT !.acc = q.acc, !.pending = without(x.pending, e.id), !.orphans = (x.orphans \ {e}) \cup lost]
  BY <1>2, <1>3 DEF expireOne
<1>5. r.m = [acc |-> q.acc, pending |-> without(x.pending, e.id), orphans |-> (x.orphans \ {e}) \cup lost,
             transfers |-> x.transfers]
  BY ZenonT(30), <1>4 DEF Manager
<1>6. Accs(q.acc) /\ DOMAIN q.acc = DOMAIN x.acc /\ SolventBut(q.acc, X)
  BY <1>1, <1>2, ReleaseSolvent DEF Manager
<1>7. lost \subseteq Transfer
  BY <1>3 DEF replaced, Manager, Pending
<1>8. Pending(without(x.pending, e.id))
  BY WithoutHold DEF Manager
<1> QED
  BY SMTT(30), <1>5, <1>6, <1>7, <1>8 DEF Manager

\* CloseExpired closes one expired hold.
LEMMA CloseExpiredLoop ==
  LoopInv /\ CloseExpired => LoopInv'
<1> SUFFICES ASSUME LoopInv, CloseExpired, LoopState PROVE LoopState'
  BY DEF LoopInv
<1>1. CountersOK'
  BY CountersSame DEF CloseExpired, LoopState, CountersOK, clocks
<1>2. DiskOK'
  BY DiskSame DEF CloseExpired, LoopState, disk
<1>3. PICK x, c : x = m /\ c = mclock
  OBVIOUS
<1>4. PICK e \in nextExpired(x, c) : m' = expireOne(x, e).m
  BY <1>3 DEF CloseExpired
<1>5. Manager(x) /\ SolventBut(x.acc, stretched)
  BY <1>3 DEF CloseExpired, LoopState, ManagerOK
<1>6. Manager(m') /\ SolventBut(m'.acc, stretched)
  BY <1>4, <1>5, ExpireManager
<1>7. ManagerOK'
  BY <1>6 DEF ManagerOK, Manager, CloseExpired
<1>8. ReplayOK'
  BY ReplaySame DEF CloseExpired, LoopState, disk
<1>9. BatchOK'
  BY DEF CloseExpired, LoopState, BatchOK, batch
<1> QED
  BY <1>1, <1>2, <1>7, <1>8, <1>9 DEF LoopState

\* An applied transfer keeps the manager well formed.
LEMMA ApplyManager ==
  ASSUME NEW x, Manager(x), NEW t \in Transfer, NEW r, r = ApplyTransferState(x, t), r.err = OK,
         NEW X, SolventBut(x.acc, X), NEW Z, X \subseteq Z,
         /\ isNew(t) /\ t.debit \in DOMAIN x.acc
         /\ x.acc[t.debit].postedCredits < x.acc[t.debit].postedDebits + x.acc[t.debit].pendingDebits + t.amount
         => t.debit \in Z
  PROVE  /\ Manager(r.m) /\ SolventBut(r.m.acc, Z) /\ DOMAIN r.m.acc = DOMAIN x.acc
         /\ Effect(x.acc, x.pending, t, r.m.acc, r.m.pending)
<1>1. x.acc \in [DOMAIN x.acc -> Account] /\ x.pending \in [DOMAIN x.pending -> Transfer] /\ Pending(x.pending)
  BY DEF Manager, Accs, Pending
<1>2. Effect(x.acc, x.pending, t, r.m.acc, r.m.pending)
  BY ZenonT(30), <1>1, ApplyEffect
<1>3. DOMAIN r.m.acc = DOMAIN x.acc /\ r.m.acc \in [DOMAIN r.m.acc -> Account] /\ Pending(r.m.pending)
  BY <1>1, <1>2, EffectTypes
<1>4. SolventBut(r.m.acc, Z)
  BY SMTT(30), <1>1, <1>2, EffectSolvent
<1>5. r.m = [acc |-> amountsMoved(x, t).acc, pending |-> holdsAfter(x, t),
             orphans |-> x.orphans \cup (IF isPending(t) THEN replaced(x, t) ELSE {}),
             transfers |-> x.transfers \cup {t.id}]
  BY ZenonT(30), ApplyParts
<1>6. (IF isPending(t) THEN replaced(x, t) ELSE {}) \subseteq Transfer
  BY <1>1 DEF replaced
<1>7. r.m = [acc |-> r.m.acc, pending |-> r.m.pending, orphans |-> r.m.orphans, transfers |-> r.m.transfers]
      /\ r.m.orphans \subseteq Transfer
  BY SMTT(30), <1>5, <1>6 DEF Manager
<1> QED
  BY <1>2, <1>3, <1>4, <1>7 DEF Manager, Accs

\* Recovery applies a transfer, or fails.
LEMMA ReplayApplyLoop ==
  LoopInv /\ ReplayApply => LoopInv'
<1> SUFFICES ASSUME LoopInv, ReplayApply, LoopState PROVE LoopState'
  BY DEF LoopInv
<1>1. PICK x : x = m
  OBVIOUS
<1>2. PICK t : t = replayed.t
  OBVIOUS
<1>3. PICK r : r = ApplyTransferState(x, t)
  OBVIOUS
<1>4. m' = r.m /\ stretched' = stretched \cup stretching(t)
  BY <1>1, <1>2, <1>3 DEF ReplayApply
<1>5. IF r.err = OK THEN phase' = "replay" /\ nextRecord ELSE phase' = "failed" /\ UNCHANGED <<rb, ri>>
  BY <1>1, <1>2, <1>3 DEF ReplayApply
<1>6. phase' \in {"replay", "failed"}
  BY <1>5
<1>7. CountersOK'
  BY <1>6, CountersSame DEF ReplayApply, LoopState, CountersOK, clocks
<1>8. DiskOK'
  <2>1. lsn' = lsn /\ view' = view /\ snap' = snap /\ journal' = journal /\ stretched \subseteq stretched'
    BY <1>4 DEF ReplayApply, disk
  <2>2. Len(journal) \in Nat
    BY SMTT(30) DEF LoopState, DiskOK
  <2>3. Snapshot(snap, Len(journal), stretched') /\ Snapshot(view, Len(journal), stretched')
    BY SMTT(30), <2>1, <2>2, SnapshotGrows DEF LoopState, DiskOK
  <2> QED
    BY ZenonT(30), <2>1, <2>3 DEF LoopState, DiskOK, Snapshot
<1>9. rb \in 1 .. Len(journal) /\ ri \in 1 .. Len(journal[rb]) /\ replayed.type = "transfer"
  BY DEF ReplayApply, LoopState, ReplayOK, DiskOK
<1>10. t \in Transfer
  <2>1. journal[rb] \in Seq(Record)
    BY SMTT(30), <1>9 DEF LoopState, DiskOK
  <2>2. PICK y : y = replayed
    OBVIOUS
  <2>3. y \in Record /\ y.type = "transfer"
    BY SMTT(30), <1>9, <2>1, <2>2 DEF replayed
  <2>4. y.t \in Transfer
    BY <2>3 DEF Record
  <2> QED
    BY <1>2, <2>2, <2>4
<1>11. Manager(x) /\ SolventBut(x.acc, stretched)
  BY <1>1 DEF ReplayApply, LoopState, ManagerOK
<1>12. ManagerOK'
  <2>1. CASE r.err = OK
    <3>1. isNew(t) /\ t.debit \in DOMAIN x.acc
          /\ x.acc[t.debit].postedCredits < x.acc[t.debit].postedDebits + x.acc[t.debit].pendingDebits + t.amount
          => t.debit \in stretched'
      BY <1>1, <1>4 DEF stretching, isNew
    <3>2. stretched \subseteq stretched'
      BY <1>4
    <3>3. Manager(r.m) /\ SolventBut(r.m.acc, stretched')
      BY ZenonT(30), <1>3, <1>10, <1>11, <2>1, <3>1, <3>2, ApplyManager
    <3> QED
      BY <1>4, <3>3 DEF ManagerOK, Manager
  <2>2. CASE r.err # OK
    BY <1>5, <2>2 DEF ManagerOK
  <2> QED
    BY <2>1, <2>2
<1>13. ReplayOK'
  <2>1. journal' = journal /\ journal \in Seq(Seq(Record) \ {<<>>})
    BY DEF LoopState, DiskOK, ReplayApply, disk
  <2>2. CASE r.err = OK
    <3>1. rb' \in 1 .. (Len(journal) + 1) /\ (rb' <= Len(journal) => ri' \in 1 .. Len(journal[rb']))
      BY <1>5, <1>9, <2>1, <2>2, NextRecordOK DEF nextRecord
    <3> QED
      BY <1>5, <2>1, <2>2, <3>1 DEF ReplayOK
  <2>3. CASE r.err # OK
    BY <1>5, <2>3 DEF ReplayOK
  <2> QED
    BY <2>2, <2>3
<1>14. BatchOK'
  BY <1>6 DEF ReplayApply, LoopState, BatchOK, batch
<1> QED
  BY <1>7, <1>8, <1>12, <1>13, <1>14 DEF LoopState

-----------------------------------------------------------------------------
(* The journal *)

\* The journal with a batch more.
LEMMA Appended ==
  ASSUME NEW j \in Seq(Seq(Record) \ {<<>>}), NEW r \in Seq(Record) \ {<<>>}, NEW j2, j2 = Append(j, r)
  PROVE  /\ j2 \in Seq(Seq(Record) \ {<<>>}) /\ Len(j2) = Len(j) + 1 /\ Len(j) \in Nat
         /\ j2[Len(j) + 1] = r /\ \A k \in 1 .. Len(j) : j2[k] = j[k]
BY SMTT(30)

\* The disk after an append, or after none.
LEMMA DiskAppended ==
  ASSUME DiskOK, NEW recs \in Seq(Record) \ {<<>>}, journal' = journal \/ journal' = Append(journal, recs),
         lsn' \in {lsn, Len(journal')}, view' \in {view, NoView}, snap' = snap, stretched' = stretched
  PROVE  DiskOK'
<1>1. journal' \in Seq(Seq(Record) \ {<<>>}) /\ Len(journal') \in Nat /\ Len(journal) \in Nat /\ Len(journal) <= Len(journal')
  <2>1. PICK j, j2 : j = journal /\ j2 = journal'
    OBVIOUS
  <2>2. j \in Seq(Seq(Record) \ {<<>>}) /\ Len(j) \in Nat
    BY SMTT(30), <2>1 DEF DiskOK
  <2>3. CASE j2 = j
    BY SMTT(30), <2>1, <2>2, <2>3
  <2>4. CASE j2 = Append(j, recs)
    <3>1. j2 \in Seq(Seq(Record) \ {<<>>}) /\ Len(j2) = Len(j) + 1
      BY <2>2, <2>4, Appended
    <3> QED
      BY SMTT(30), <2>1, <2>2, <3>1
  <2> QED
    BY <2>1, <2>3, <2>4
<1>2. Snapshot(snap, Len(journal'), stretched) /\ Snapshot(view, Len(journal'), stretched)
  BY <1>1, SnapshotGrows DEF DiskOK
<1>3. Snapshot(view', Len(journal'), stretched)
  BY <1>1, <1>2, NoViewSnapshot
<1>4. lsn' \in 0 .. Len(journal')
  BY SMTT(30), <1>1 DEF DiskOK
<1> QED
  BY <1>1, <1>2, <1>3, <1>4 DEF DiskOK, Snapshot

\* makeWALRecords writes the records of the events that passed, in order.
LEMMA RecordsMade ==
  ASSUME events \in Seq(Transfer)
  PROVE  /\ Picks(each(transferRecord, events), passed, Len(events), makeWALRecords)
         /\ makeWALRecords \in Seq(Record)
         /\ passed # {} => makeWALRecords # <<>>
<1>1. PICK ev, K : ev = events /\ K = passed
  OBVIOUS
<1>2. PICK s : s = each(transferRecord, ev)
  OBVIOUS
<1>3. s \in Seq(Record) /\ Len(s) = Len(ev) /\ ev \in Seq(Transfer)
  BY ZenonT(30), <1>1, <1>2, TransferRecords
<1>4. PICK r : r = selected(s, K)
  OBVIOUS
<1>5. Picks(s, K, Len(s), r)
  BY <1>3, <1>4, SelectedPicks
<1>6. r \in Seq(Record) /\ ((\E k \in DOMAIN s : k \in K) => r # <<>>)
  BY <1>3, <1>5, PicksSeq
<1>7. r = makeWALRecords
  BY <1>1, <1>2, <1>4 DEF makeWALRecords
<1>8. passed # {} => \E k \in DOMAIN s : k \in K
  BY SMTT(30), <1>1, <1>3 DEF passed
<1>9. Picks(each(transferRecord, events), passed, Len(events), r)
  BY <1>1, <1>2, <1>3, <1>5
<1> QED
  BY <1>6, <1>7, <1>8, <1>9

\* processAccountCreate writes the records of accounts that can be created.
LEMMA CreatableRecords ==
  ASSUME NEW accounts \in AccountBatches, NEW recs, recs = creatable(accounts), recs # <<>>
  PROVE  /\ recs \in Seq([id : STRING, a : NewAccount])
         /\ each(accountRecord, recs) \in Seq(Record) \ {<<>>}
<1>1. accounts \in Seq([id : STRING, a : NewAccount])
  BY BatchAssumption
<1>2. PICK K : recs = selected(accounts, K)
  BY DEF creatable
<1>3. Picks(accounts, K, Len(accounts), recs)
  BY <1>1, <1>2, SelectedPicks
<1>4. recs \in Seq([id : STRING, a : NewAccount])
  BY <1>1, <1>3, PicksSeq
<1>5. PICK r : r = each(accountRecord, recs)
  OBVIOUS
<1>6. r \in Seq(Record) /\ Len(r) = Len(recs)
  BY ZenonT(30), <1>4, <1>5, AccountRecords
<1>7. Len(recs) \in Nat /\ Len(recs) # 0
  BY SMTT(30), <1>4
<1>8. r \in Seq(Record) \ {<<>>}
  BY <1>6, <1>7
<1> QED
  BY <1>4, <1>5, <1>8

\* It journals and creates them.
LEMMA ProcessAccountCreateLoop ==
  LoopInv /\ processAccountCreate => LoopInv'
<1> SUFFICES ASSUME LoopInv, processAccountCreate, LoopState PROVE LoopState'
  BY DEF LoopInv
<1>1. PICK accounts \in AccountBatches : 
         /\ creatable(accounts) # <<>>
         /\ journal' = Append(journal, each(accountRecord, creatable(accounts)))
         /\ m' = [m EXCEPT !.acc = createAll(m.acc, creatable(accounts))]
  BY DEF processAccountCreate
<1>2. PICK recs : recs = creatable(accounts)
  OBVIOUS
<1>3. PICK out : out = each(accountRecord, recs)
  OBVIOUS
<1>4. recs \in Seq([id : STRING, a : NewAccount]) /\ out \in Seq(Record) \ {<<>>} /\ journal' = Append(journal, out)
  BY ZenonT(30), <1>1, <1>2, <1>3, CreatableRecords
<1>5. DiskOK'
  BY <1>4, DiskAppended DEF processAccountCreate, LoopState
<1>6. CountersOK'
  BY CountersSame DEF processAccountCreate, LoopState, CountersOK, clocks
<1>7. PICK y : y = m.acc
  OBVIOUS
<1>8. PICK r : r = createAll(y, recs)
  OBVIOUS
<1>9. Manager(m) /\ SolventBut(m.acc, stretched)
  BY DEF processAccountCreate, LoopState, ManagerOK
<1>10. \A k \in DOMAIN recs : recs[k].a \in NewAccount
  <2>1. \A k \in DOMAIN recs : recs[k] \in [id : STRING, a : NewAccount]
    BY ZenonT(30), <1>4, SeqElement
  <2> QED
    BY <2>1
<1>11. Creates(y, r)
  BY ZenonT(30), <1>4, <1>7, <1>8, <1>9, <1>10, CreateAll DEF Manager, Accs
<1>12. m' = [acc |-> r, pending |-> m.pending, orphans |-> m.orphans, transfers |-> m.transfers]
  <2>1. m' = [m EXCEPT !.acc = r]
    BY <1>1, <1>2, <1>7, <1>8
  <2> QED
    BY <1>9, <2>1 DEF Manager
<1>13. SolventBut(r, stretched)
  BY <1>7, <1>9, <1>11, CreatesSolvent
<1>14. Accs(r)
  BY <1>11 DEF Creates, Accs
<1>15. ManagerOK'
  BY <1>9, <1>12, <1>13, <1>14 DEF ManagerOK, Manager, processAccountCreate
<1>16. ReplayOK' /\ BatchOK'
  BY DEF processAccountCreate, LoopState, ReplayOK, BatchOK, batch
<1> QED
  BY <1>5, <1>6, <1>15, <1>16 DEF LoopState

\* The append or the sync fails, and nothing is created.
LEMMA ProcessAccountCreateFailLoop ==
  LoopInv /\ processAccountCreateFail => LoopInv'
<1> SUFFICES ASSUME LoopInv, processAccountCreateFail, LoopState PROVE LoopState'
  BY DEF LoopInv
<1>1. PICK accounts \in AccountBatches :
         /\ creatable(accounts) # <<>>
         /\ journal' = journal \/ journal' = Append(journal, each(accountRecord, creatable(accounts)))
  BY DEF processAccountCreateFail
<1>2. PICK recs : recs = creatable(accounts)
  OBVIOUS
<1>3. PICK out : out = each(accountRecord, recs)
  OBVIOUS
<1>4. out \in Seq(Record) \ {<<>>} /\ (journal' = journal \/ journal' = Append(journal, out))
  BY <1>1, <1>2, <1>3, CreatableRecords
<1>5. DiskOK'
  BY <1>4, DiskAppended DEF processAccountCreateFail, LoopState, manager
<1>6. CountersOK'
  BY DEF processAccountCreateFail, LoopState, CountersOK, clocks
<1>7. ManagerOK'
  BY ManagerSame DEF processAccountCreateFail, LoopState, manager
<1>8. ReplayOK' /\ BatchOK'
  BY DEF processAccountCreateFail, LoopState, ReplayOK, BatchOK, batch
<1> QED
  BY <1>5, <1>6, <1>7, <1>8 DEF LoopState

\* The append or the sync of a batch fails, and nothing is applied.
LEMMA JournalFailLoop ==
  LoopInv /\ JournalFail => LoopInv'
<1> SUFFICES ASSUME LoopInv, JournalFail, LoopState PROVE LoopState'
  BY DEF LoopInv
<1>1. makeWALRecords \in Seq(Record) \ {<<>>}
  BY RecordsMade DEF LoopState, BatchOK, JournalFail
<1>2. DiskOK'
  BY <1>1, DiskAppended DEF JournalFail, LoopState, manager
<1>3. CountersOK'
  BY DEF JournalFail, LoopState, CountersOK, clocks
<1>4. ManagerOK'
  BY ManagerSame DEF JournalFail, LoopState, manager
<1>5. ReplayOK' /\ BatchOK'
  BY IdleLoop DEF JournalFail, endBatch
<1> QED
  BY <1>2, <1>3, <1>4, <1>5 DEF LoopState

\* A crash loses all but the disk.
LEMMA CrashLoop ==
  LoopInv /\ Crash => LoopInv'
<1> SUFFICES ASSUME LoopInv, Crash, LoopState PROVE LoopState'
  BY DEF LoopInv
<1>1. journal' = journal \/ (passed # {} /\ journal' = Append(journal, makeWALRecords))
  BY DEF Crash
<1>2. makeWALRecords \in Seq(Record) /\ (passed # {} => makeWALRecords # <<>>)
  BY RecordsMade DEF LoopState, BatchOK
<1>3. DiskOK'
  <2>1. CASE journal' = journal
    <3>1. Snapshot(NoView, Len(journal), stretched)
      BY SMTT(30), NoViewSnapshot DEF LoopState, DiskOK
    <3> QED
      BY <2>1, <3>1 DEF Crash, LoopState, manager, DiskOK, Snapshot
  <2>2. CASE passed # {} /\ journal' = Append(journal, makeWALRecords)
    BY SMTT(30), <1>2, <2>2, DiskAppended DEF Crash, LoopState, manager
  <2> QED
    BY <1>1, <2>1, <2>2
<1>4. CountersOK'
  <2>1. budget' = [next |-> budget.next, crashes |-> budget.crashes - 1, walErrors |-> budget.walErrors]
    BY DEF Crash, LoopState, CountersOK
  <2>2. clock' = clock /\ wall' = wall /\ phase' = "down"
    BY DEF Crash, clocks
  <2>3. budget.crashes - 1 \in 0 .. MaxCrashes
    BY SMTT(30), BatchAssumption DEF Crash, LoopState, CountersOK
  <2> QED
    BY <2>1, <2>2, <2>3 DEF LoopState, CountersOK
<1>5. ManagerOK'
  BY ManagerSame DEF Crash, LoopState, manager
<1>6. ReplayOK' /\ BatchOK'
  BY SMTT(30) DEF Crash, endBatch, ReplayOK, BatchOK
<1> QED
  BY <1>3, <1>4, <1>5, <1>6 DEF LoopState

-----------------------------------------------------------------------------
(* Linked chains *)

\* The chain of event n ends at event last.
ChainLast(ev, n, last) ==
  /\ last \in n .. Len(ev) /\ \A k \in n .. (last - 1) : isLinked(ev[k])
  /\ last = Len(ev) \/ ~isLinked(ev[last])

\* chainEnd is where the loop over the rest of a chain stops.
LEMMA ChainEnd ==
  ASSUME events \in Seq(Transfer), i \in 1 .. Len(events)
  PROVE  ChainLast(events, i, chainEnd)
<1>1. PICK ends : ends = {k \in i .. Len(events) : ~isLinked(events[k])}
  OBVIOUS
<1>2. chainEnd = IF ends = {} THEN Len(events) ELSE CHOOSE k \in ends : \A l \in ends : k <= l
  BY SMTT(30), <1>1 DEF chainEnd
<1>3. Len(events) \in Nat /\ ends \subseteq Nat
  BY SMTT(30), <1>1
<1>4. CASE ends = {}
  <2>1. chainEnd = Len(events)
    BY <1>2, <1>4
  <2>2. \A k \in i .. (Len(events) - 1) : isLinked(events[k])
    BY SMTT(30), <1>1, <1>3, <1>4
  <2> QED
    BY SMTT(30), <1>3, <2>1, <2>2 DEF ChainLast
<1>5. CASE ends # {}
  <2>1. \E k \in ends : \A l \in ends : k <= l
    BY ZenonT(30), <1>3, <1>5, LeastNat
  <2>2. chainEnd \in ends /\ \A l \in ends : chainEnd <= l
    BY <1>2, <1>5, <2>1
  <2>3. chainEnd \in i .. Len(events) /\ ~isLinked(events[chainEnd])
    BY <1>1, <2>2
  <2>4. \A k \in i .. (chainEnd - 1) : isLinked(events[k])
    <3> SUFFICES ASSUME NEW k \in i .. (chainEnd - 1) PROVE k \notin ends /\ k \in i .. Len(events)
      BY <1>1
    <3>1. k \in Int /\ k < chainEnd /\ chainEnd \in Int
      BY SMTT(30), <2>3
    <3> QED
      BY SMTT(30), <2>2, <2>3, <3>1
  <2> QED
    BY <2>3, <2>4 DEF ChainLast
<1> QED
  BY <1>4, <1>5

\* Event n fails with err, and the rest of its chain with it.
FailsChain(out, n, err, c, last, out2) ==
  out2 = [k \in DOMAIN out |-> IF k = n THEN err ELSE IF k \in c .. last THEN "ErrLinkedChainFailed" ELSE out[k]]

\* The outcomes of events c to last are errors, all others stay.
Downs(out, out2, c, last, len) ==
  /\ \A k \in 1 .. (c - 1) : out2[k] = out[k]
  /\ \A k \in c .. last : out2[k] # OK
  /\ \A k \in (last + 1) .. len : out2[k] = out[k]

\* Then all of the chain has failed, and nothing else.
LEMMA FailsDowns ==
  ASSUME NEW len \in Nat, NEW n \in 1 .. len, NEW c \in 1 .. n, NEW out \in [1 .. len -> Outcomes], NEW last \in n .. len,
         NEW err \in Outcomes, err # OK, NEW out2, FailsChain(out, n, err, c, last, out2)
  PROVE  Downs(out, out2, c, last, len) /\ out2 \in [1 .. len -> Outcomes]
<1>1. \A k \in 1 .. (c - 1) : out2[k] = out[k]
  BY SMTT(30) DEF FailsChain
<1>2. \A k \in c .. last : out2[k] # OK
  BY SMTT(30) DEF OK, FailsChain
<1>3. out2 \in [1 .. len -> Outcomes]
  BY DEF Outcomes, FailsChain
<1>4. \A k \in (last + 1) .. len : out2[k] = out[k]
  BY SMTT(30) DEF FailsChain
<1> QED
  BY <1>1, <1>2, <1>3, <1>4 DEF Downs

\* A chain that failed is behind the validator,
LEMMA ChainsFail ==
  ASSUME NEW ev, NEW len \in Nat, Len(ev) = len, NEW n \in 1 .. len, NEW c \in 1 .. n, NEW out, Chains(ev, out, c, n),
         NEW last \in n .. len, last = len \/ ~isLinked(ev[last]), NEW out2, Downs(out, out2, c, last, len)
  PROVE  Chains(ev, out2, last + 1, last + 1)
<1>2. \A k \in 1 .. (c - 1) : out2[k] = out[k]
  BY DEF Downs
<1>3. \A k \in c .. last : out2[k] # OK
  BY DEF Downs
<1>5. \A k \in (last + 1) .. len : out2[k] = OK
  <2> SUFFICES ASSUME NEW k \in (last + 1) .. len PROVE out2[k] = OK
    OBVIOUS
  <2>1. k \in c .. len
    BY SMTT(30)
  <2> QED
    BY <2>1 DEF Chains, Downs
<1>6. ASSUME NEW k \in 1 .. last, isLinked(ev[k])
      PROVE  IF k = len THEN out2[k] # OK ELSE k + 1 < last + 1 /\ (out2[k] = OK <=> out2[k + 1] = OK)
  <2>1. CASE k < c
    <3>1. k \in 1 .. (c - 1) /\ k # len
      BY SMTT(30), <2>1
    <3>2. k + 1 < c /\ (out[k] = OK <=> out[k + 1] = OK)
      BY <1>6, <3>1 DEF Chains
    <3>3. k + 1 \in 1 .. (c - 1) /\ k + 1 < last + 1
      BY SMTT(30), <3>1, <3>2
    <3> QED
      BY <1>2, <3>1, <3>2, <3>3
  <2>2. CASE k >= c
    <3>1. out2[k] # OK
      BY SMTT(30), <1>3, <2>2
    <3>2. CASE k = len
      BY <3>1, <3>2
    <3>3. CASE k # len
      <4>1. k # last
        BY <1>6, <3>3
      <4>2. k + 1 \in c .. last /\ k + 1 < last + 1
        BY SMTT(30), <2>2, <4>1
      <4>3. out2[k + 1] # OK
        BY <1>3, <4>2
      <4> QED
        BY <3>1, <3>3, <4>2, <4>3
    <3> QED
      BY <3>2, <3>3
  <2> QED
    BY SMTT(30), <2>1, <2>2
<1>7. (last + 1) - 1 = last /\ \A k : k \notin (last + 1) .. last
  BY SMTT(30)
<1> QED
  BY <1>5, <1>6, <1>7 DEF Chains

\* so is one that passed,
LEMMA ChainsClose ==
  ASSUME NEW ev \in Seq(Transfer), NEW n \in 1 .. Len(ev), NEW c \in 1 .. n, NEW out,
         Chains(ev, out, c, n), ~isLinked(ev[n])
  PROVE  Chains(ev, out, n + 1, n + 1)
<1>1. Len(ev) \in Nat
  BY SMTT(30)
<1>2. \A k \in (n + 1) .. Len(ev) : out[k] = OK
  BY SMTT(30), <1>1 DEF Chains
<1>3. ASSUME NEW k \in 1 .. n, isLinked(ev[k])
      PROVE  IF k = Len(ev) THEN out[k] # OK ELSE k + 1 < n + 1 /\ (out[k] = OK <=> out[k + 1] = OK)
  <2>1. k # n
    BY <1>3
  <2>2. CASE k < c
    <3>1. k \in 1 .. (c - 1) /\ k # Len(ev)
      BY SMTT(30), <1>1, <2>2
    <3>2. k + 1 < c /\ (out[k] = OK <=> out[k + 1] = OK)
      BY <1>3, <3>1 DEF Chains
    <3> QED
      BY SMTT(30), <3>1, <3>2
  <2>3. CASE k >= c
    <3>1. k \in c .. Len(ev) /\ k + 1 \in c .. Len(ev) /\ k # Len(ev) /\ k + 1 < n + 1
      BY SMTT(30), <1>1, <2>1, <2>3
    <3>2. out[k] = OK /\ out[k + 1] = OK
      BY <3>1 DEF Chains
    <3> QED
      BY <3>1, <3>2
  <2> QED
    BY SMTT(30), <2>2, <2>3
<1>4. (n + 1) - 1 = n /\ \A k : k \notin (n + 1) .. n
  BY SMTT(30), <1>1
<1> QED
  BY <1>2, <1>3, <1>4 DEF Chains

\* and one that goes on stays open.
LEMMA ChainsLink ==
  ASSUME NEW ev \in Seq(Transfer), NEW n \in 1 .. Len(ev), NEW c \in 1 .. n, NEW out,
         Chains(ev, out, c, n), isLinked(ev[n]), n < Len(ev)
  PROVE  Chains(ev, out, c, n + 1)
<1>1. Len(ev) \in Nat /\ ~(n + 1 > Len(ev))
  BY SMTT(30)
<1>2. \A k \in c .. ((n + 1) - 1) : isLinked(ev[k])
  <2> SUFFICES ASSUME NEW k \in c .. ((n + 1) - 1) PROVE isLinked(ev[k])
    OBVIOUS
  <2>1. k = n \/ k \in c .. (n - 1)
    BY SMTT(30)
  <2> QED
    BY <2>1 DEF Chains
<1> QED
  BY <1>1, <1>2 DEF Chains

\* Behind the last event all chains are closed.
LEMMA ChainsAtomic ==
  ASSUME NEW ev \in Seq(Transfer), NEW c, NEW out, NEW n \in Nat, n > Len(ev), Chains(ev, out, c, n), n <= Len(ev) + 1
  PROVE  Atomic(ev, out)
<1>1. c = n /\ DOMAIN ev = 1 .. (c - 1) /\ Len(ev) \in Nat
  BY SMTT(30) DEF Chains
<1> QED
  BY <1>1 DEF Chains, Atomic

\* What the validator accepts, ApplyTransferState does.
LEMMA ValidatedStaging ==
  ASSUME NEW w, Staging(w), NEW t \in Transfer, NEW recorded, NEW g, g = validateAndApply(w, t, recorded), g.err = OK
  PROVE  Staging(g.v) /\ Takes(stage(w), t, stage(g.v))
<1>1. View(w) /\ w.acc \in [DOMAIN w.acc -> Account] /\ w.pending \in [DOMAIN w.pending -> Transfer] /\ Pending(w.pending)
  BY DEF Staging, Accs, Pending
<1>2. Takes(stage(w), t, stage(g.v))
  BY ZenonT(30), <1>1, AgreeTakes
<1>3. PICK r : r = ApplyTransferState(w, t)
  OBVIOUS
<1>4. r.err = OK /\ r.m.acc = g.v.acc /\ r.m.pending = g.v.pending
  BY ZenonT(30), <1>2, <1>3 DEF Takes, stage
<1>5. Effect(w.acc, w.pending, t, g.v.acc, g.v.pending)
  BY ZenonT(30), <1>1, <1>3, <1>4, ApplyEffect
<1>6. DOMAIN g.v.acc = DOMAIN w.acc /\ g.v.acc \in [DOMAIN g.v.acc -> Account] /\ Pending(g.v.pending)
  BY <1>1, <1>5, EffectTypes
<1>7. View(g.v)
  BY <1>1, ValidatorView
<1> QED
  BY ZenonT(30), <1>2, <1>6, <1>7 DEF Staging, Accs

\* rollbackChain returns to the accounts and holds before the chain, and keeps
\* the IDs it saw.
LEMMA RolledBack ==
  ASSUME NEW w, NEW cv, Staging(cv), NEW u, u = rollbackChain(w, cv)
  PROVE  Staging(u) /\ stage(u) = stage(cv) /\ u.seen = w.seen
<1>1. u = [acc |-> cv.acc, pending |-> cv.pending, seen |-> w.seen]
  BY DEF rollbackChain, Staging, View
<1> QED
  BY SMTT(30), <1>1 DEF Staging, View, stage

-----------------------------------------------------------------------------
(* The validator *)

\* The validator starts from the manager's accounts and holds.
LEMMA BeginValidateLoop ==
  LoopInv /\ BeginValidate => LoopInv'
<1> SUFFICES ASSUME LoopInv, BeginValidate, LoopState PROVE LoopState'
  BY DEF LoopInv
<1>1. CountersOK' /\ DiskOK'
  BY DiskSame, CountersSame DEF BeginValidate, LoopState, disk, manager, clocks
<1>2. ManagerOK' /\ m' = m
  BY ManagerSame DEF BeginValidate, LoopState, manager
<1>3. ReplayOK'
  BY DEF BeginValidate, ReplayOK
<1>4. PICK ev, ev2, out : ev = events /\ ev2 = events' /\ out = outcomes'
  OBVIOUS
<1>5. ev \in Seq(Transfer) /\ ev2 = [k \in DOMAIN ev |-> [ev[k] EXCEPT !.timestamp = clock]] /\ out = [k \in DOMAIN ev |-> OK]
  BY <1>4 DEF LoopState, BatchOK, BeginValidate
<1>6. clock \in Int
  BY DEF LoopState, CountersOK
<1>7. \A k \in DOMAIN ev : [ev[k] EXCEPT !.timestamp = clock] \in Transfer
  <2> SUFFICES ASSUME NEW k \in DOMAIN ev PROVE [ev[k] EXCEPT !.timestamp = clock] \in Transfer
    OBVIOUS
  <2>1. ev[k] \in Transfer
    BY <1>5, SeqElement
  <2> QED
    BY <1>6, <2>1 DEF Transfer
<1>8. DOMAIN ev = 1 .. Len(ev) /\ Len(ev) \in Nat
  BY SMTT(30), <1>5
<1>9. ev2 \in Seq(Transfer) /\ Len(ev2) = Len(ev) /\ DOMAIN ev2 = DOMAIN ev
  BY SMTT(30), <1>5, <1>7, <1>8
<1>10. v' = [acc |-> m.acc, pending |-> m.pending, seen |-> {}] /\ i' = 1 /\ chainStart' = 1 /\ phase' = "validate"
  BY DEF BeginValidate, newBatchValidator
<1>11. chainView' = v'
  BY <1>10 DEF chainView
<1>12. Staging(v') /\ stage(v') = stage(m)
  BY SMTT(30), <1>10 DEF BeginValidate, LoopState, ManagerOK, Manager, Staging, View, stage
<1>13. \A k \in DOMAIN ev : out[k] = OK
  BY <1>5
<1>14. Chains(ev2, out, 1, 1)
  BY SMTT(30), <1>8, <1>9, <1>13 DEF Chains
<1>15. out \in [DOMAIN ev2 -> Outcomes]
  BY <1>5, <1>9 DEF Outcomes
<1>16. PICK s : s = [k \in {1} |-> stage(m)]
  BY ZenonT(30)
<1>17. Traced(s, ev2, out, 1, 1 - 1) /\ s[1] = stage(m)
  BY SMTT(30), <1>16 DEF Traced
<1>18. 1 \in 1 .. (Len(ev2) + 1)
  BY SMTT(30), <1>8, <1>9
<1>19. ValidateOK'
  <2>1. /\ Traced(s, events', outcomes', 1, i' - 1)
        /\ s[1] = stage(m') /\ s[i'] = stage(v') /\ s[chainStart'] = stage(chainView')
    BY <1>2, <1>4, <1>10, <1>11, <1>12, <1>17
  <2>2. i' \in 1 .. (Len(events') + 1) /\ chainStart' \in 1 .. i' /\ outcomes' \in [DOMAIN events' -> Outcomes]
    BY SMTT(30), <1>4, <1>10, <1>15, <1>18
  <2>3. Chains(events', outcomes', chainStart', i')
    BY <1>4, <1>10, <1>14
  <2> QED
    BY <1>11, <1>12, <2>1, <2>2, <2>3 DEF ValidateOK
<1>20. BatchOK'
  BY <1>4, <1>9, <1>10, <1>19 DEF BatchOK
<1> QED
  BY <1>1, <1>2, <1>3, <1>20 DEF LoopState

\* Validation changes only the batch.
LEMMA ValidateSame ==
  ASSUME LoopInv, phase = "validate", phase' = "validate", ValidateOK', events' = events,
         UNCHANGED <<manager, clocks, wall, disk, lsn, view, rb, ri, budget>>
  PROVE  LoopInv'
<1> SUFFICES ASSUME LoopState PROVE LoopState'
  BY DEF LoopInv
<1>1. CountersOK' /\ DiskOK'
  BY DiskSame, CountersSame DEF LoopState, disk, manager, clocks
<1>2. ManagerOK'
  BY ManagerSame DEF LoopState, manager
<1>3. ReplayOK' /\ BatchOK'
  BY DEF LoopState, ReplayOK, BatchOK
<1> QED
  BY <1>1, <1>2, <1>3 DEF LoopState

\* A chain that goes down, at event i and up to event last.
LEMMA DownLoop ==
  ASSUME LoopInv, phase = "validate", i <= Len(events), NEW last, ChainLast(events, i, last), NEW err \in Outcomes, err # OK,
         outcomes' = chainFailed(err, last), v' = rollbackChain(validated.v, chainView),
         i' = last + 1, chainStart' = last + 1, phase' = phase, events' = events,
         UNCHANGED <<manager, clocks, wall, disk, lsn, view, rb, ri, budget>>
  PROVE  LoopInv'
<1> LoopState
  BY DEF LoopInv
<1>1. ValidateOK /\ events \in Seq(Transfer)
  BY DEF LoopState, BatchOK
<1>2. PICK ev, out, out2, n, c, cv : /\ ev = events /\ out = outcomes /\ out2 = outcomes' /\ n = i /\ c = chainStart
                                     /\ cv = chainView
  OBVIOUS
<1>3. PICK len : len = Len(ev)
  BY ZenonT(30)
<1>4. len \in Nat /\ DOMAIN ev = 1 .. len /\ ev \in Seq(Transfer)
  BY SMTT(30), <1>1, <1>2, <1>3
<1>5. n \in 1 .. len /\ c \in 1 .. n /\ out \in [1 .. len -> Outcomes] /\ Chains(ev, out, c, n) /\ Staging(cv)
  BY SMTT(30), <1>1, <1>2, <1>3, <1>4 DEF ValidateOK
<1>6. last \in n .. len /\ (last = len \/ ~isLinked(ev[last]))
  BY <1>2, <1>3 DEF ChainLast
<1>7. FailsChain(out, n, err, c, last, out2)
  BY <1>2 DEF FailsChain, chainFailed
<1>8. Downs(out, out2, c, last, len) /\ out2 \in [1 .. len -> Outcomes]
  BY <1>4, <1>5, <1>6, <1>7, FailsDowns
<1>9. Chains(ev, out2, last + 1, last + 1)
  BY <1>3, <1>4, <1>5, <1>6, <1>8, ChainsFail
<1>10. Staging(v') /\ stage(v') = stage(cv)
  BY <1>2, <1>5, RolledBack
<1>11. PICK s : /\ Traced(s, ev, out, 1, n - 1) /\ s[1] = stage(m) /\ s[n] = stage(v) /\ s[c] = stage(cv)
  BY <1>1, <1>2 DEF ValidateOK
<1>13. (\A k \in 1 .. (c - 1) : out2[k] = out[k]) /\ (\A k \in c .. last : out2[k] # OK)
  BY <1>8 DEF Downs
<1>14. c \in Nat \ {0} /\ n \in Nat /\ c <= n /\ last \in Nat /\ c <= last
  BY SMTT(30), <1>4, <1>5, <1>6
<1>12. PICK u : Back(u, s, ev, out2, c, last)
  <2>1. Traced(s, ev, out, 1, n - 1)
    BY <1>11
  <2> QED
    BY <1>13, <1>14, <2>1, TraceBack
<1>15. Traced(u, ev, out2, 1, last) /\ u[last + 1] = s[c] /\ u[1] = s[1]
  BY <1>12 DEF Back
<1>16. chainView' = v'
  BY DEF chainView
<1>17. last + 1 \in 1 .. (len + 1) /\ last + 1 \in 1 .. (last + 1) /\ (last + 1) - 1 = last
  BY SMTT(30), <1>4, <1>5, <1>6
<1>18. m' = m
  BY DEF manager
<1>19. \E w : /\ Traced(w, events', outcomes', 1, i' - 1)
              /\ w[1] = stage(m') /\ w[i'] = stage(v') /\ w[chainStart'] = stage(chainView')
  <2>1. Traced(u, events', outcomes', 1, i' - 1)
    BY ZenonT(30), <1>2, <1>15, <1>17
  <2>2. u[1] = stage(m') /\ u[i'] = stage(v') /\ u[chainStart'] = stage(chainView')
    BY <1>10, <1>11, <1>15, <1>16, <1>18
  <2> QED
    BY <2>1, <2>2
<1>20. ValidateOK'
  <2>1. i' \in 1 .. (Len(events') + 1) /\ chainStart' \in 1 .. i'
    BY <1>2, <1>3, <1>17
  <2>2. outcomes' \in [DOMAIN events' -> Outcomes]
    BY <1>2, <1>4, <1>8
  <2>3. Chains(events', outcomes', chainStart', i')
    BY <1>2, <1>9
  <2> QED
    BY <1>10, <1>16, <1>19, <2>1, <2>2, <2>3 DEF ValidateOK
<1> QED
  BY <1>20, ValidateSame

\* An event fails, and its chain with it.
LEMMA ValidateFailLoop ==
  LoopInv /\ ValidateFail => LoopInv'
<1> SUFFICES ASSUME LoopInv, ValidateFail, LoopState PROVE LoopInv'
  BY DEF LoopInv
<1>1. ValidateOK /\ events \in Seq(Transfer)
  BY DEF LoopState, BatchOK, ValidateFail
<1>2. i \in 1 .. Len(events)
  BY SMTT(30), <1>1 DEF ValidateOK, ValidateFail
<1>3. PICK last : last = chainEnd
  OBVIOUS
<1>4. ChainLast(events, i, last)
  BY <1>1, <1>2, <1>3, ChainEnd
<1>5. PICK err : err = validated.err
  OBVIOUS
<1>6. err \in Outcomes /\ err # OK
  <2>1. View(v)
    BY <1>1 DEF ValidateOK, Staging
  <2>2. validated.err \in Rejections \cup {OK}
    BY SMTT(30), <2>1, ValidatorView DEF validated
  <2> QED
    BY <1>5, <2>2 DEF ValidateFail, Outcomes
<1> QED
  BY <1>3, <1>4, <1>5, <1>6, DownLoop DEF ValidateFail

\* A chain is cut off by the end of the batch.
LEMMA ValidateDanglingLoop ==
  LoopInv /\ ValidateDangling => LoopInv'
<1> SUFFICES ASSUME LoopInv, ValidateDangling, LoopState PROVE LoopInv'
  BY DEF LoopInv
<1>1. ValidateOK /\ events \in Seq(Transfer)
  BY DEF LoopState, BatchOK, ValidateDangling
<1>2. PICK last : last = i
  OBVIOUS
<1>3. ChainLast(events, i, last)
  BY SMTT(30), <1>1, <1>2 DEF ValidateOK, ValidateDangling, ChainLast
<1>4. PICK err : err = "ErrLinkedChainOpen"
  OBVIOUS
<1>5. err \in Outcomes /\ err # OK
  BY <1>4 DEF Outcomes, OK
<1>6. outcomes' = chainFailed(err, last)
  BY <1>2, <1>4 DEF ValidateDangling
<1>7. i <= Len(events)
  BY SMTT(30), <1>1, <1>3, <1>2 DEF ChainLast, ValidateOK
<1> QED
  BY <1>2, <1>3, <1>5, <1>6, <1>7, DownLoop DEF ValidateDangling

\* An event that passes: its chain is closed by it, or goes on.
LEMMA PassLoop ==
  ASSUME LoopInv, phase = "validate", i <= Len(events), validated.err = OK,
         v' = validated.v, saved' = chainView, i' = i + 1, phase' = phase, events' = events, outcomes' = outcomes,
         \/ ~isLinked(events[i]) /\ chainStart' = i + 1
         \/ isLinked(events[i]) /\ i < Len(events) /\ chainStart' = chainStart,
         UNCHANGED <<manager, clocks, wall, disk, lsn, view, rb, ri, budget>>
  PROVE  LoopInv'
<1> LoopState
  BY DEF LoopInv
<1>1. ValidateOK /\ events \in Seq(Transfer)
  BY DEF LoopState, BatchOK
<1>2. PICK ev, out, n, c, cv, w, g : /\ ev = events /\ out = outcomes /\ n = i /\ c = chainStart
                                     /\ cv = chainView /\ w = v /\ g = validated
  OBVIOUS
<1>3. PICK len : len = Len(ev)
  OBVIOUS
<1>4. len \in Nat /\ DOMAIN ev = 1 .. len /\ ev \in Seq(Transfer)
  BY SMTT(30), <1>1, <1>2, <1>3
<1>5. n \in 1 .. len /\ c \in 1 .. n /\ Chains(ev, out, c, n) /\ Staging(cv) /\ Staging(w)
  BY SMTT(30), <1>1, <1>2, <1>3, <1>4 DEF ValidateOK
<1>6. PICK t : t = ev[n]
  OBVIOUS
<1>7. t \in Transfer
  BY <1>4, <1>5, <1>6, SeqElement
<1>8. PICK recorded : g = validateAndApply(w, t, recorded)
  BY <1>2, <1>6 DEF validated
<1>9. Staging(g.v) /\ Takes(stage(w), t, stage(g.v))
  BY <1>2, <1>5, <1>7, <1>8, ValidatedStaging
<1>10. PICK s : /\ Traced(s, ev, out, 1, n - 1) /\ s[1] = stage(m) /\ s[n] = stage(w) /\ s[c] = stage(cv)
  BY <1>1, <1>2 DEF ValidateOK
<1>11. PICK x : x = stage(g.v)
  OBVIOUS
<1>13. out[n] = OK
  BY SMTT(30), <1>3, <1>4, <1>5 DEF Chains
<1>14. n \in Nat \ {0} /\ Takes(s[n], ev[n], x)
  BY SMTT(30), <1>5, <1>6, <1>9, <1>10, <1>11
<1>12. PICK p : p = n - 1
  OBVIOUS
<1>15. PICK u : Longer(u, s, ev, out, n, x)
  <2>1. Traced(s, ev, out, 1, p)
    BY <1>10, <1>12
  <2> QED
    BY ZenonT(30), <1>12, <1>13, <1>14, <2>1, TraceOn
<1>16. u[1] = stage(m) /\ u[c] = stage(cv)
  BY SMTT(30), <1>4, <1>5, <1>10, <1>15 DEF Longer
<1>17. n + 1 \in 1 .. (len + 1) /\ (n + 1) - 1 = n /\ c # n + 1 /\ n + 1 \in 1 .. (n + 1) /\ c \in 1 .. (n + 1)
  BY SMTT(30), <1>4, <1>5
<1>18. m' = m /\ outcomes \in [DOMAIN events -> Outcomes]
  BY <1>1 DEF manager, ValidateOK
<1>19. v' = g.v /\ i' = n + 1
  BY <1>2
<1>20. CASE ~isLinked(ev[n]) /\ chainStart' = n + 1
  <2>1. chainView' = v'
    BY <1>19, <1>20 DEF chainView
  <2>2. Chains(ev, out, n + 1, n + 1)
    BY <1>3, <1>4, <1>5, <1>20, ChainsClose
  <2>3. /\ Traced(u, events', outcomes', 1, i' - 1)
        /\ u[1] = stage(m') /\ u[i'] = stage(v') /\ u[chainStart'] = stage(chainView')
    BY ZenonT(30), <1>2, <1>11, <1>15, <1>16, <1>17, <1>18, <1>19, <1>20, <2>1 DEF Longer
  <2>4. i' \in 1 .. (Len(events') + 1) /\ chainStart' \in 1 .. i'
    BY <1>2, <1>3, <1>17, <1>19, <1>20
  <2>5. Chains(events', outcomes', chainStart', i')
    BY <1>2, <1>19, <1>20, <2>2
  <2>6. ValidateOK'
    BY ZenonT(30), <1>9, <1>18, <1>19, <2>1, <2>3, <2>4, <2>5 DEF ValidateOK
  <2> QED
    BY <2>6, ValidateSame
<1>21. CASE isLinked(ev[n]) /\ n < len /\ chainStart' = c
  <2>1. chainView' = cv
    BY <1>2, <1>17, <1>19, <1>21 DEF chainView
  <2>2. Chains(ev, out, c, n + 1)
    BY ZenonT(30), <1>3, <1>4, <1>5, <1>21, ChainsLink
  <2>3. /\ Traced(u, events', outcomes', 1, i' - 1)
        /\ u[1] = stage(m') /\ u[i'] = stage(v') /\ u[chainStart'] = stage(chainView')
    BY ZenonT(30), <1>2, <1>11, <1>15, <1>16, <1>17, <1>18, <1>19, <1>21, <2>1 DEF Longer
  <2>4. i' \in 1 .. (Len(events') + 1) /\ chainStart' \in 1 .. i'
    BY <1>2, <1>3, <1>17, <1>19, <1>21
  <2>5. Chains(events', outcomes', chainStart', i')
    BY <1>2, <1>19, <1>21, <2>2
  <2>6. ValidateOK'
    BY ZenonT(30), <1>5, <1>9, <1>18, <1>19, <2>1, <2>3, <2>4, <2>5 DEF ValidateOK
  <2> QED
    BY <2>6, ValidateSame
<1> QED
  BY <1>2, <1>3, <1>20, <1>21

\* An event passes.
LEMMA ValidatePassLoop ==
  LoopInv /\ (ValidateCloseChain \/ ValidateLink) => LoopInv'
<1>1. ASSUME LoopInv, ValidateCloseChain PROVE LoopInv'
  BY <1>1, PassLoop DEF ValidateCloseChain
<1>2. ASSUME LoopInv, ValidateLink PROVE LoopInv'
  <2>1. i <= Len(events)
    BY SMTT(30), <1>2 DEF ValidateLink, LoopInv, LoopState, BatchOK, ValidateOK
  <2> QED
    BY <1>2, <2>1, PassLoop DEF ValidateLink
<1> QED
  BY <1>1, <1>2

\* Journal writes what passed, before any of it is applied.
LEMMA JournalLoop ==
  LoopInv /\ Journal => LoopInv'
<1> SUFFICES ASSUME LoopInv, Journal, LoopState PROVE LoopState'
  BY DEF LoopInv
<1>1. ValidateOK /\ events \in Seq(Transfer)
  BY DEF LoopState, BatchOK, Journal
<1>2. DiskOK'
  <2>1. CASE passed = {}
    BY <2>1, DiskSame DEF Journal, LoopState, manager
  <2>2. CASE passed # {}
    <3>1. makeWALRecords \in Seq(Record) \ {<<>>}
      BY <1>1, <2>2, RecordsMade
    <3> QED
      BY <2>2, <3>1, DiskAppended DEF Journal, LoopState, manager
  <2> QED
    BY <2>1, <2>2
<1>3. CountersOK'
  BY CountersSame DEF Journal, LoopState, clocks
<1>4. ManagerOK'
  BY ManagerSame DEF Journal, LoopState, manager
<1>5. ReplayOK'
  BY DEF Journal, ReplayOK
<1>6. PICK len : len = Len(events)
  BY ZenonT(30)
<1>7. len \in Nat /\ i = len + 1 /\ i > Len(events) /\ i \in Nat /\ i <= Len(events) + 1 /\ i - 1 = len /\ 1 \in 1 .. (len + 1)
  BY SMTT(30), <1>1, <1>6 DEF Journal, ValidateOK
<1>8. PICK ev, out, c, n : ev = events /\ out = outcomes /\ c = chainStart /\ n = i
  OBVIOUS
<1>9. Atomic(ev, out)
  BY <1>1, <1>7, <1>8, ChainsAtomic DEF ValidateOK
<1>10. PICK s : /\ Traced(s, ev, out, 1, n - 1) /\ s[1] = stage(m) /\ s[n] = stage(v)
  BY <1>1, <1>8 DEF ValidateOK
<1>11. m' = m /\ v' = v /\ events' = ev /\ outcomes' = out /\ i' = 1 /\ phase' = "apply"
  BY <1>8 DEF Journal, manager
<1>12. Traced(s, events', outcomes', i', Len(events')) /\ At(s[i'], m') /\ At(s[Len(events') + 1], v')
  BY SMTT(30), <1>6, <1>7, <1>8, <1>10, <1>11 DEF At, stage
<1>13. ApplyOK'
  BY <1>1, <1>6, <1>7, <1>8, <1>9, <1>11, <1>12 DEF ApplyOK, ValidateOK
<1>14. BatchOK'
  BY <1>1, <1>8, <1>11, <1>13 DEF BatchOK
<1> QED
  BY <1>2, <1>3, <1>4, <1>5, <1>14 DEF LoopState

-----------------------------------------------------------------------------
(* Applying a batch, and what follows *)

\* What one step of ApplyBatch does: nothing for an event that failed, else
\* what ApplyTransferState does, which never fails.
LEMMA ApplyStep ==
  ASSUME LoopInv, ApplyBatch
  PROVE  /\ outcomes' = outcomes /\ alarms' = alarms /\ stretched \subseteq stretched'
         /\ i \in 1 .. Len(events) /\ events[i] \in Transfer
         /\ Manager(m') /\ SolventBut(m'.acc, stretched') /\ DOMAIN m'.acc = DOMAIN m.acc
         /\ outcomes[i] # OK => m' = m
         /\ outcomes[i] = OK => /\ Effect(m.acc, m.pending, events[i], m'.acc, m'.pending)
                                /\ ApplyTransferState(m, events[i]).err = OK
                                /\ m' = ApplyTransferState(m, events[i]).m
         /\ ApplyOK'
<1> LoopState
  BY DEF LoopInv
<1>1. ApplyOK /\ events \in Seq(Transfer)
  BY DEF LoopState, BatchOK, ApplyBatch
<1>2. PICK ev, out, n, x, t, len : /\ ev = events /\ out = outcomes /\ n = i /\ x = m /\ t = events[i] /\ len = Len(events)
  BY ZenonT(30)
<1>3. len \in Nat /\ n \in 1 .. len /\ DOMAIN ev = 1 .. len /\ ev \in Seq(Transfer) /\ t = ev[n] /\ len = Len(ev)
  BY SMTT(30), <1>1, <1>2 DEF ApplyOK, ApplyBatch
<1>4. t \in Transfer
  BY <1>3, SeqElement
<1>5. out \in [DOMAIN ev -> Outcomes] /\ Atomic(ev, out)
  BY <1>1, <1>2 DEF ApplyOK
<1>6. PICK s : Traced(s, ev, out, n, len) /\ At(s[n], x) /\ At(s[len + 1], v)
  BY <1>1, <1>2 DEF ApplyOK
<1>7. Manager(x) /\ SolventBut(x.acc, stretched)
  BY <1>2 DEF ApplyBatch, LoopState, ManagerOK
<1>8. i' = n + 1 /\ events' = ev /\ v' = v
  BY <1>2 DEF ApplyBatch
<1>9. n + 1 \in 1 .. (len + 1) /\ n \in n .. len /\ \A k \in (n + 1) .. len : k \in n .. len
  BY SMTT(30), <1>3
<1>10. Traced(s, ev, out, n + 1, len)
  BY <1>6, <1>9 DEF Traced
<1>11. IF out[n] = OK THEN Takes(s[n], t, s[n + 1]) ELSE s[n + 1] = s[n]
  BY <1>3, <1>6, <1>9 DEF Traced
<1>12. ASSUME outcomes' = out, At(s[n + 1], m') PROVE ApplyOK'
  BY <1>3, <1>5, <1>6, <1>8, <1>9, <1>10, <1>12 DEF ApplyOK
<1>13. CASE out[n] # OK
  <2>1. m' = m /\ outcomes' = outcomes /\ alarms' = alarms /\ stretched' = stretched
    BY <1>2, <1>13 DEF ApplyBatch
  <2>2. At(s[n + 1], m')
    BY <1>2, <1>6, <1>11, <1>13, <2>1
  <2>3. ApplyOK'
    BY <1>2, <1>12, <2>1, <2>2
  <2> QED
    BY ZenonT(30), <1>2, <1>3, <1>4, <1>7, <1>13, <2>1, <2>3
<1>14. CASE out[n] = OK
  <2>1. PICK r : r = ApplyTransferState(x, t)
    OBVIOUS
  <2>2. /\ m' = r.m /\ stretched' = stretched \cup stretching(t)
        /\ outcomes' = [out EXCEPT ![n] = r.err]
        /\ alarms' = IF r.err = OK THEN alarms ELSE alarms + 1
    BY <1>2, <1>14, <2>1 DEF ApplyBatch
  <2>3. r.err = OK /\ r.m.acc = s[n + 1].acc /\ r.m.pending = s[n + 1].pending
    BY ZenonT(30), <1>6, <1>11, <1>14, <2>1 DEF Takes, At
  <2>4. outcomes' = out /\ alarms' = alarms
    BY ZenonT(30), <1>3, <1>5, <1>14, <2>2, <2>3
  <2>5. At(s[n + 1], m')
    BY ZenonT(30), <2>2, <2>3 DEF At
  <2>6. ApplyOK'
    BY <1>12, <2>4, <2>5
  <2>7. isNew(t) /\ t.debit \in DOMAIN x.acc
        /\ x.acc[t.debit].postedCredits < x.acc[t.debit].postedDebits + x.acc[t.debit].pendingDebits + t.amount
        => t.debit \in stretched'
    BY ZenonT(30), <1>2, <2>2 DEF stretching, isNew
  <2>8. stretched \subseteq stretched'
    BY <2>2
  <2>9. /\ Manager(r.m) /\ SolventBut(r.m.acc, stretched') /\ DOMAIN r.m.acc = DOMAIN x.acc
        /\ Effect(x.acc, x.pending, t, r.m.acc, r.m.pending)
    BY ZenonT(30), <1>4, <1>7, <2>1, <2>3, <2>7, <2>8, ApplyManager
  <2> QED
    BY ZenonT(30), <1>2, <1>3, <1>4, <1>14, <2>1, <2>2, <2>3, <2>4, <2>6, <2>8, <2>9
<1> QED
  BY ZenonT(30), <1>13, <1>14

\* ApplyBatch applies the next event.
LEMMA ApplyBatchLoop ==
  LoopInv /\ ApplyBatch => LoopInv'
<1> SUFFICES ASSUME LoopInv, ApplyBatch, LoopState PROVE LoopState'
  BY DEF LoopInv
<1>1. Manager(m') /\ SolventBut(m'.acc, stretched') /\ ApplyOK' /\ stretched \subseteq stretched'
  BY ZenonT(30), ApplyStep
<1>2. CountersOK'
  BY ZenonT(30), CountersSame DEF ApplyBatch, LoopState, clocks, CountersOK
<1>3. ManagerOK'
  BY <1>1 DEF ManagerOK, Manager
<1>4. DiskOK'
  <2>1. lsn' = lsn /\ view' = view /\ snap' = snap /\ journal' = journal
    BY DEF ApplyBatch, disk
  <2>2. Len(journal) \in Nat
    BY SMTT(30) DEF LoopState, DiskOK
  <2>3. Snapshot(snap, Len(journal), stretched') /\ Snapshot(view, Len(journal), stretched')
    BY SMTT(30), <1>1, <2>2, SnapshotGrows DEF LoopState, DiskOK
  <2> QED
    BY ZenonT(30), <2>1, <2>3 DEF LoopState, DiskOK, Snapshot
<1>5. ReplayOK' /\ BatchOK'
  BY <1>1 DEF ApplyBatch, LoopState, ReplayOK, BatchOK
<1> QED
  BY <1>2, <1>3, <1>4, <1>5 DEF LoopState

\* Every step keeps the invariant.
LEMMA NextLoop ==
  LoopInv /\ [Next]_vars => LoopInv'
BY StutterLoop, ProcessBatchLoop, CloseExpiredLoop, BeginValidateLoop, ValidateFailLoop, ValidatePassLoop, ValidateDanglingLoop,
   JournalLoop, JournalFailLoop, ApplyBatchLoop, AcknowledgeLoop, ProcessAccountCreateLoop, ProcessAccountCreateFailLoop,
   RequestSnapshotViewLoop, WriteSnapshotLoop, CrashLoop, LoadSnapshotLoop, ReplayAccountLoop, ReplayTransferLoop,
   ReplayApplyLoop, StartLoopLoop DEF Next

\* The event loop and recovery keep their inductive invariant: amounts fit,
\* accounts are solvent, the log is well formed, and whatever prefix of a batch
\* has been validated or applied, the rest leads to what was staged
\* (processBatch).
THEOREM LoopInvariance ==
  Spec => []LoopInv
BY InitLoop, NextLoop, PTL DEF Spec

===============================================================================
