----------------------------- MODULE EventLoop ------------------------------
(***************************************************************************)
(* The single-writer event loop (internal/engine/loop.go) and the recovery *)
(* of its state (NewLedger and RecoverFromSnapshot in ledger.go).          *)
(*                                                                         *)
(* A batch goes through the phases of processBatch: close expired holds,   *)
(* validate against a staged copy, journal, apply, acknowledge.  Each loop *)
(* iteration of the code is one step, so a crash can fall between any two. *)
(* The WAL is abstract here: a sequence of committed batches, LSN k being  *)
(* the k-th.  A batch is any sequence of client transfers the batcher      *)
(* collected; RingBuffer models how they got there.                        *)
(***************************************************************************)
EXTENDS Transfers, AuditLedger, FrontEnd, Sequences, FiniteSetsExt

CONSTANTS
  FirstAccounts,    \* the first account-create batch, processed before Init
  AccountBatches,   \* later account-create batches: sequences of [id, a] pairs
  Batches,          \* Batches[k]: what Collect may return as the k-th batch
  MaxTime,          \* bound: wall clock, in ticks
  MaxCrashes,       \* bound: crashes
  MaxWalErrors,     \* bound: failed appends or syncs
  ClockSteps        \* how far the wall clock may move between batches

ASSUME BatchAssumption ==
  /\ FirstAccounts \in Seq([id : STRING, a : NewAccount]) \ {<<>>}
  /\ AccountBatches \subseteq Seq([id : STRING, a : NewAccount])
  /\ Batches \in Seq(SUBSET Seq(Transfer))
  /\ ClockSteps \subseteq Int
  /\ MaxTime \in Nat /\ MaxCrashes \in Nat /\ MaxWalErrors \in Nat

VARIABLES
  m,            \* the account manager
  mclock,       \* AccountManager.clock
  clock,        \* EventLoop.clock
  wall,         \* the wall clock time.Now reads
  phase,        \* where the loop, or recovery, stands
  events,       \* the batch in progress
  i,            \* index of the next event
  v, saved,     \* validator view, and the view at the start of the chain
  chainStart,   \* first event of the current linked chain
  outcomes,     \* per event: OK or the error
  journal,      \* committed batches of records
  lsn,          \* EventLoop.currentLSN
  view, snap,   \* snapshot being written, and the latest one on disk
  rb, ri,       \* recovery: batch and record being replayed
  alarms,       \* aequitas_invariant_violations_total from apply and expiry
  committed,    \* history: staged accounts and holds at the last commit
  dirty,        \* history: a batch was reported as failed but reached the disk
  back,         \* history: a batch was taken at a time before the manager's clock
  high,         \* history: the highest logical clock so far
  stretched,    \* history: accounts that gave or promised more than they had free
  budget        \* bound: the next batch, crashes and WAL errors still allowed

manager == <<m, mclock, alarms, stretched>>
batch == <<events, i, v, saved, chainStart, outcomes>>
disk == <<journal, snap, dirty, committed>>
clocks == <<clock, back, high>>
vars == <<manager, clocks, wall, phase, batch, disk, lsn, view, rb, ri, budget>>

emptyMap == [x \in {} |-> 0]
NoView == [lsn |-> 0, acc |-> emptyMap, pending |-> emptyMap]
accountRecord(x) == [type |-> "account", id |-> x.id, a |-> x.a]
transferRecord(t) == [type |-> "transfer", t |-> t]

\* Map a sequence through op.
each(op(_), s) == [k \in DOMAIN s |-> op(s[k])]

emptyView == [acc |-> emptyMap, pending |-> emptyMap, seen |-> {}]

\* The ledger has started on an empty WAL and created its first accounts.
Init ==
  /\ m = [acc |-> createAll(emptyMap, FirstAccounts), pending |-> emptyMap,
          orphans |-> {}, transfers |-> {}]
  /\ mclock = 0 /\ clock = 0 /\ wall = 1 /\ phase = "idle"
  /\ events = <<>> /\ i = 1 /\ v = emptyView /\ saved = emptyView
  /\ chainStart = 1 /\ outcomes = <<>>
  /\ journal = <<each(accountRecord, FirstAccounts)>>
  /\ lsn = 1 /\ view = NoView /\ snap = NoView /\ rb = 1 /\ ri = 1
  /\ alarms = 0 /\ dirty = FALSE /\ back = FALSE /\ high = 0 /\ stretched = {}
  /\ committed = [acc |-> m.acc, pending |-> m.pending]
  /\ budget = [next |-> 1, crashes |-> MaxCrashes, walErrors |-> MaxWalErrors]

\* The variables of processBatch go out of scope.
endBatch ==
  /\ events' = <<>> /\ i' = 1 /\ v' = emptyView /\ saved' = emptyView
  /\ chainStart' = 1 /\ outcomes' = <<>>

-----------------------------------------------------------------------------
(* processBatch *)

\* Take a batch and advance the logical clock.
processBatch ==
  /\ phase = "idle" /\ budget.next <= Len(Batches)
  /\ \E b \in Batches[budget.next], d \in ClockSteps :
       /\ wall + d \in 1 .. MaxTime
       /\ wall' = wall + d
       /\ events' = b
  /\ clock' = IF wall' <= clock THEN clock + 1 ELSE wall'
  /\ clock' <= MaxTime
  /\ mclock' = clock'
  /\ back' = (back \/ clock' < mclock) /\ high' = Max({high, clock'})
  /\ phase' = "expire"
  /\ budget' = [budget EXCEPT !.next = @ + 1]
  /\ UNCHANGED <<m, alarms, stretched, i, v, saved, chainStart, outcomes, disk, lsn, view, rb, ri>>

\* CloseExpired pops one hold; the same loop serves recovery.
CloseExpired ==
  /\ phase \in {"expire", "replayExpire"}
  /\ \E e \in nextExpired(m, mclock) :
       LET r == expireOne(m, e) IN
       /\ m' = r.m
       /\ alarms' = IF r.err = OK THEN alarms ELSE alarms + 1
  /\ UNCHANGED <<mclock, stretched, clocks, wall, phase, batch, disk, lsn, view, rb, ri, budget>>

\* Stamp the events and set up the validator.
BeginValidate ==
  /\ phase = "expire" /\ expired(m, mclock) = {}
  /\ events' = [k \in DOMAIN events |-> [events[k] EXCEPT !.timestamp = clock]]
  /\ outcomes' = [k \in DOMAIN events |-> OK]
  /\ v' = newBatchValidator(m) /\ saved' = v'
  /\ i' = 1 /\ chainStart' = 1
  /\ phase' = "validate"
  /\ UNCHANGED <<manager, clocks, wall, disk, lsn, view, rb, ri, budget>>

\* beginChain at the first event of a chain.
chainView == IF i = chainStart THEN v ELSE saved

\* The last event of the chain that event i belongs to, or of the batch.
chainEnd ==
  LET ends == {k \in i .. Len(events) : ~isLinked(events[k])}
  IN  IF ends = {} THEN Len(events) ELSE CHOOSE k \in ends : \A l \in ends : k <= l

validated == validateAndApply(v, events[i], m.transfers)

\* Mutant of chainFailed: the events before i keep their outcome.
chainFailedForward(err, last) ==
  [k \in DOMAIN outcomes |->
     IF k = i THEN err ELSE IF k \in i .. last THEN "ErrLinkedChainFailed" ELSE outcomes[k]]

\* The outcomes when event i brings its chain, up to event last, down.
chainFailed(err, last) ==
  [k \in DOMAIN outcomes |->
     IF k = i THEN err
     ELSE IF k \in chainStart .. last THEN "ErrLinkedChainFailed"
     ELSE outcomes[k]]

\* ValidateBatch, one event: it failed, and so does its chain.
ValidateFail ==
  /\ phase = "validate" /\ i <= Len(events) /\ validated.err # OK
  /\ outcomes' = chainFailed(validated.err, chainEnd)
  /\ saved' = chainView
  /\ v' = rollbackChain(validated.v, chainView)
  /\ i' = chainEnd + 1 /\ chainStart' = chainEnd + 1
  /\ UNCHANGED <<manager, clocks, wall, phase, events, disk, lsn, view, rb, ri, budget>>

\* It passed and closes its chain.
ValidateCloseChain ==
  /\ phase = "validate" /\ i <= Len(events) /\ validated.err = OK
  /\ ~isLinked(events[i])
  /\ saved' = chainView
  /\ v' = validated.v
  /\ i' = i + 1 /\ chainStart' = i + 1
  /\ UNCHANGED <<manager, clocks, wall, phase, events, outcomes, disk, lsn, view, rb, ri, budget>>

\* It passed and the chain goes on.
ValidateLink ==
  /\ phase = "validate" /\ i < Len(events) /\ validated.err = OK
  /\ isLinked(events[i])
  /\ saved' = chainView
  /\ v' = validated.v
  /\ i' = i + 1
  /\ UNCHANGED <<manager, clocks, wall, phase, events, chainStart, outcomes, disk, lsn, view, rb, ri, budget>>

\* It passed but the batch ends inside its chain.
ValidateDangling ==
  /\ phase = "validate" /\ i = Len(events) /\ validated.err = OK
  /\ isLinked(events[i])
  /\ outcomes' = chainFailed("ErrLinkedChainOpen", i)
  /\ saved' = chainView
  /\ v' = rollbackChain(validated.v, chainView)
  /\ i' = i + 1 /\ chainStart' = i + 1
  /\ UNCHANGED <<manager, clocks, wall, phase, events, disk, lsn, view, rb, ri, budget>>

\* makeWALRecords: the events that passed, in order.
passed == {k \in DOMAIN events : outcomes[k] = OK}
makeWALRecords == selected(each(transferRecord, events), passed)

staged == [acc |-> v.acc, pending |-> v.pending]

\* AppendBatch and Sync succeed; a batch without records is not journaled.
Journal ==
  /\ phase = "validate" /\ i > Len(events)
  /\ IF passed = {}
     THEN UNCHANGED <<journal, lsn, committed>>
     ELSE /\ journal' = Append(journal, makeWALRecords)
          /\ lsn' = Len(journal')
          /\ committed' = staged
  /\ phase' = "apply" /\ i' = 1
  /\ UNCHANGED <<manager, clocks, wall, events, v, saved, chainStart, outcomes, snap, dirty, view, rb, ri, budget>>

\* AppendBatch or Sync fails: every event is answered with the error, and the
\* frames may or may not be in the file.
JournalFail ==
  /\ phase = "validate" /\ i > Len(events) /\ passed # {} /\ budget.walErrors > 0
  /\ \/ journal' = Append(journal, makeWALRecords) /\ dirty' = TRUE
     \/ UNCHANGED <<journal, dirty>>
  /\ phase' = "idle" /\ endBatch
  /\ budget' = [budget EXCEPT !.walErrors = @ - 1]
  /\ UNCHANGED <<manager, clocks, wall, committed, snap, lsn, view, rb, ri>>

\* The account a new transfer or hold debits, if the amount is more than its
\* posted balance less what open holds reserve.
stretching(t) ==
  {a \in {t.debit} \cap DOMAIN m.acc :
     /\ ~isPost(t) /\ ~isVoid(t)
     /\ m.acc[a].postedCredits < m.acc[a].postedDebits + m.acc[a].pendingDebits + t.amount}

\* ApplyBatch, one event.
ApplyBatch ==
  /\ phase = "apply" /\ i <= Len(events)
  /\ IF outcomes[i] # OK
     THEN UNCHANGED <<m, outcomes, alarms, stretched>>
     ELSE LET r == ApplyTransferState(m, events[i]) IN
          /\ m' = r.m
          /\ stretched' = stretched \cup stretching(events[i])
          /\ outcomes' = [outcomes EXCEPT ![i] = r.err]
          /\ alarms' = IF r.err = OK THEN alarms ELSE alarms + 1
  /\ i' = i + 1
  /\ UNCHANGED <<mclock, clocks, wall, phase, events, v, saved, chainStart, disk, lsn, view, rb, ri, budget>>

\* Every event is acknowledged with its outcome.
Acknowledge ==
  /\ phase = "apply" /\ i > Len(events)
  /\ phase' = "idle" /\ endBatch
  /\ UNCHANGED <<manager, clocks, wall, disk, lsn, view, rb, ri, budget>>

-----------------------------------------------------------------------------
(* Control requests, served between batches *)

creatable(accounts) ==
  selected(accounts, {k \in DOMAIN accounts : balanceErr(accounts[k].a) = OK /\ accounts[k].id \notin DOMAIN m.acc})

\* Journal the accounts that pass, then create them.
processAccountCreate ==
  /\ phase = "idle"
  /\ \E accounts \in AccountBatches :
       LET recs == creatable(accounts) IN
       /\ recs # <<>>
       /\ journal' = Append(journal, each(accountRecord, recs))
       /\ m' = [m EXCEPT !.acc = createAll(@, recs)]
       /\ committed' = [committed EXCEPT !.acc = createAll(@, recs)]
  /\ lsn' = Len(journal')
  /\ UNCHANGED <<mclock, alarms, stretched, clocks, wall, phase, batch, snap, dirty, view, rb, ri, budget>>

\* The append or the sync of the account batch fails.
processAccountCreateFail ==
  /\ phase = "idle" /\ budget.walErrors > 0
  /\ \E accounts \in AccountBatches :
       LET recs == creatable(accounts) IN
       /\ recs # <<>>
       /\ \/ journal' = Append(journal, each(accountRecord, recs)) /\ dirty' = TRUE
          \/ UNCHANGED <<journal, dirty>>
  /\ budget' = [budget EXCEPT !.walErrors = @ - 1]
  /\ UNCHANGED <<manager, clocks, wall, phase, batch, committed, snap, lsn, view, rb, ri>>

\* RequestSnapshotView: a copy of accounts, open holds and LSN.
RequestSnapshotView ==
  /\ phase = "idle" /\ lsn > 0 /\ view = NoView
  /\ view' = [lsn |-> lsn, acc |-> m.acc, pending |-> m.pending]
  /\ UNCHANGED <<manager, clocks, wall, phase, batch, disk, lsn, rb, ri, budget>>

\* The checkpointer writes the snapshot file while the loop goes on.  Latest
\* returns the file with the highest LSN.
WriteSnapshot ==
  /\ view # NoView
  /\ snap' = IF view.lsn > snap.lsn THEN view ELSE snap
  /\ view' = NoView
  /\ UNCHANGED <<manager, clocks, wall, phase, batch, journal, committed, dirty, lsn, rb, ri, budget>>

-----------------------------------------------------------------------------
(* Crash and recovery *)

\* Everything but the disk is lost.  A crash between AppendBatch and the end
\* of Sync leaves the batch in the file or not; nobody was told.
Crash ==
  /\ phase \notin {"down", "failed"} /\ budget.crashes > 0
  /\ \/ UNCHANGED <<journal, committed>>
     \/ /\ phase = "validate" /\ i > Len(events) /\ passed # {}
        /\ journal' = Append(journal, makeWALRecords)
        /\ committed' = staged
  /\ phase' = "down" /\ endBatch
  /\ view' = NoView
  /\ budget' = [budget EXCEPT !.crashes = @ - 1]
  /\ UNCHANGED <<manager, clocks, wall, snap, dirty, lsn, rb, ri>>

\* Mutant of LoadSnapshot: replay starts with the batch the snapshot covers.
LoadSnapshotOffByOne ==
  /\ phase = "down"
  /\ m' = [acc |-> snap.acc, pending |-> snap.pending, orphans |-> {}, transfers |-> {}]
  /\ mclock' = Max({0} \cup {snap.pending[x].timestamp : x \in DOMAIN snap.pending})
  /\ rb' = Max({1, snap.lsn}) /\ ri' = 1
  /\ phase' = "replay"
  /\ UNCHANGED <<alarms, stretched, clocks, wall, batch, disk, lsn, view, budget>>

\* NewLedger loads the latest snapshot: accounts and open holds, no transfer
\* history.  The manager's clock starts at the newest open hold.
LoadSnapshot ==
  /\ phase = "down"
  /\ m' = [acc |-> snap.acc, pending |-> snap.pending, orphans |-> {}, transfers |-> {}]
  /\ mclock' = Max({0} \cup {snap.pending[x].timestamp : x \in DOMAIN snap.pending})
  /\ rb' = snap.lsn + 1 /\ ri' = 1
  /\ phase' = "replay"
  /\ UNCHANGED <<alarms, stretched, clocks, wall, batch, disk, lsn, view, budget>>

nextRecord ==
  IF ri < Len(journal[rb]) THEN rb' = rb /\ ri' = ri + 1 ELSE rb' = rb + 1 /\ ri' = 1

replayed == journal[rb][ri]

ReplayAccount ==
  /\ phase = "replay" /\ rb <= Len(journal) /\ replayed.type = "account"
  /\ m' = [m EXCEPT !.acc = createAll(@, <<replayed>>)]
  /\ nextRecord
  /\ UNCHANGED <<mclock, alarms, stretched, clocks, wall, phase, batch, disk, lsn, view, budget>>

\* A transfer record first advances the logical clock and closes expired holds.
ReplayTransfer ==
  /\ phase = "replay" /\ rb <= Len(journal) /\ replayed.type = "transfer"
  /\ mclock' = Max({mclock, replayed.t.timestamp})
  /\ phase' = "replayExpire"
  /\ UNCHANGED <<m, alarms, stretched, clocks, wall, batch, disk, lsn, view, rb, ri, budget>>

\* Any error of the handler makes NewLedger fail: the server does not start.
ReplayApply ==
  /\ phase = "replayExpire" /\ expired(m, mclock) = {}
  /\ LET r == ApplyTransferState(m, replayed.t) IN
     /\ m' = r.m
     /\ stretched' = stretched \cup stretching(replayed.t)
     /\ IF r.err = OK
        THEN phase' = "replay" /\ nextRecord
        ELSE phase' = "failed" /\ UNCHANGED <<rb, ri>>
  /\ UNCHANGED <<mclock, alarms, clocks, wall, batch, disk, lsn, view, budget>>

\* The new event loop starts with a clock of zero and the WAL's LSN.
StartLoop ==
  /\ phase = "replay" /\ rb > Len(journal)
  /\ clock' = 0 /\ lsn' = Len(journal)
  /\ phase' = "idle"
  /\ UNCHANGED <<manager, back, high, wall, batch, disk, view, rb, ri, budget>>

Next ==
  \/ processBatch \/ CloseExpired \/ BeginValidate
  \/ ValidateFail \/ ValidateCloseChain \/ ValidateLink \/ ValidateDangling
  \/ Journal \/ JournalFail \/ ApplyBatch \/ Acknowledge
  \/ processAccountCreate \/ processAccountCreateFail
  \/ RequestSnapshotView \/ WriteSnapshot
  \/ Crash \/ LoadSnapshot \/ ReplayAccount \/ ReplayTransfer \/ ReplayApply \/ StartLoop

Spec == Init /\ [][Next]_vars

-----------------------------------------------------------------------------
(* Properties *)

running == phase \in {"idle", "expire", "validate", "apply"}

amounts == {"postedDebits", "postedCredits", "pendingDebits", "pendingCredits"}

\* Every amount of an account fits a Uint128, and the arithmetic Accounts does on
\* numbers is what uint128.go does on two words, for whatever amounts meet in the
\* accounts: sums that carry, overflow and
\* underflow errors, comparisons, and the decimal strings of the REST interface
\* up to the first digit too many.
WordArithmetic ==
  LET seen == UNION {{m.acc[x][f] : f \in amounts} : x \in DOMAIN m.acc} IN
  phase = "idle" => \A x \in seen :
    /\ x \in 0 .. MaxUint
    /\ FromString(String(words(x))) = ok(words(x))
    /\ \A d \in 0 .. Radix :
         FromString(Append(String(words(x)), d)) =
           IF d < Radix /\ x * Radix + d <= MaxUint THEN ok(words(x * Radix + d)) ELSE failed
    /\ \A y \in seen :
         /\ Add(words(x), words(y)) = IF x + y <= MaxUint THEN ok(words(x + y)) ELSE failed
         /\ Sub(words(x), words(y)) = IF y <= x THEN ok(words(x - y)) ELSE failed
         /\ Cmp(words(x), words(y)) < 0 <=> x < y

\* What ValidateBatch accepts, ApplyBatch applies.  No journaled transfer is
\* rejected by the state machine afterwards, no expiring hold fails to give its
\* amounts back (the invariant-violations counter stays 0), and when the batch is
\* applied, accounts and holds are exactly what the validator had staged: the two
\* implementations of the transfer rules agree.
AppliedAsStaged ==
  /\ alarms = 0
  /\ phase = "apply" /\ i > Len(events) => m.acc = v.acc /\ m.pending = v.pending

\* Within one engine batch a linked chain passes or fails as a whole, and a
\* chain the batch cuts off fails.
LinkedChainsAtomic ==
  phase = "apply" =>
    \A k \in DOMAIN events : isLinked(events[k]) =>
      IF k = Len(events) THEN outcomes[k] # OK
      ELSE (outcomes[k] = OK) <=> (outcomes[k + 1] = OK)

\* A transfer ID is journaled for at most one plain or pending transfer: the
\* duplicate check of validateAndApply sees the earlier ones of the batch and of
\* the index.  (The index is not part of a snapshot, so a restart from one
\* forgets the IDs it covers; the run that checks this has no restart.)
newTransfers ==
  {p \in UNION {{k} \X DOMAIN journal[k] : k \in DOMAIN journal} :
     LET r == journal[p[1]][p[2]] IN r.type = "transfer" /\ ~isPost(r.t) /\ ~isVoid(r.t)}
UniqueTransferIDs ==
  \A p, q \in newTransfers :
    journal[p[1]][p[2]].t.id = journal[q[1]][q[2]].t.id => p = q

\* Reservations are backed: transfer IDs are unique, and the pending debits and
\* credits of every account are exactly the sums of the open holds on it, through
\* partial posts, voids, expiry and rolled back chains.
HoldsBacked ==
  running =>
    /\ UniqueTransferIDs
    /\ \A a \in DOMAIN m.acc :
         /\ m.acc[a].pendingDebits = sum(amountOf, {e \in holds(m) : e.debit = a})
         /\ m.acc[a].pendingCredits = sum(amountOf, {e \in holds(m) : e.credit = a})

\* Double entry: a transfer, a settlement or an expiry moves money and never
\* makes or destroys it, in every intermediate state.
Conservation ==
  [][DOMAIN m'.acc = DOMAIN m.acc /\ running /\ running'
       => netPosted(m'.acc) = netPosted(m.acc)]_vars

\* A state with every hold that is due at clock c closed.
closedAt(s, c) ==
  LET due == {x \in DOMAIN s.pending : timed(s.pending[x]) /\ expires(s.pending[x]) <= c}
      gone(side, a) == sum(amountOf, {s.pending[x] : x \in {y \in due : s.pending[y][side] = a}})
  IN  [acc |-> [a \in DOMAIN s.acc |->
                  [s.acc[a] EXCEPT !.pendingDebits = @ - gone("debit", a),
                                   !.pendingCredits = @ - gone("credit", a)]],
       pending |-> [x \in DOMAIN s.pending \ due |-> s.pending[x]]]

\* Whether the deadline of a journaled hold has wrapped around int64.
wrapped ==
  \E k \in DOMAIN journal : \E l \in DOMAIN journal[k] :
    LET r == journal[k][l] IN r.type = "transfer" /\ timed(r.t) /\ expires(r.t) < r.t.timestamp

\* "so replay decisions match live ones exactly" (processBatch): recovery never
\* refuses a record of its own journal, and reaches the accounts and open holds
\* the loop had committed, up to holds that are due by now.  Not so behind a
\* batch that was reported as failed but reached the disk, behind a restart over
\* which the wall clock went back, and after a timeout that wraps the deadline
\* of its hold; everywhere else, also when the wall clock goes back under a
\* running loop.
ReplayMatches ==
  ~dirty /\ ~back /\ ~wrapped =>
    /\ phase # "failed"
    /\ phase = "replay" /\ rb > Len(journal) => closedAt(m, high) = closedAt(committed, high)

\* The auditor's replay of the journal, an implementation of its own, reaches the
\* posted balances of the running ledger, also behind crashes, recoveries and
\* expired holds, of which it knows nothing; and it reports a violation exactly
\* when an account is overdrawn.  Amounts must fit the low word, the only one it
\* reads.  Excepted are batches reported as failed that reached the disk, and
\* IDs accepted again after a restart from a snapshot.
AuditAgrees ==
  LET audit == AuditReplay(journal) IN
  /\ phase = "idle" /\ ~dirty /\ UniqueTransferIDs
  /\ \A a \in DOMAIN m.acc : m.acc[a].postedCredits < Base /\ m.acc[a].postedDebits < Base
  => /\ audit.bal = [a \in DOMAIN m.acc |-> [credits |-> m.acc[a].postedCredits,
                                             debits |-> m.acc[a].postedDebits, ledger |-> m.acc[a].ledger]]
     /\ audit.found = IF \E a \in DOMAIN m.acc : balanceErr(m.acc[a]) # OK THEN {"conservation"} ELSE {}

\* "For every account A, Debits(A) <= Credits(A)" (architecture guide), as far as
\* the code goes: posted and reserved debits stay within the posted credits of
\* every account, through settlements, expiry and failed chains.  Excepted are
\* accounts that stretched their funds, which validatePlain lets a transfer do,
\* because it ignores open holds, and validateHold a hold, because it counts
\* pending credits: settling the hold may then overdraw the account.
Solvent ==
  running => \A a \in DOMAIN m.acc \ stretched :
    m.acc[a].postedDebits + m.acc[a].pendingDebits <= m.acc[a].postedCredits

\* Both servers report a rejected transfer alike (transferErrorStatus and
\* handleCreateTransfer), and as a fault of the request unless the ledger itself
\* is at its limits.  Excepted are frozen and closed accounts and a currency
\* mismatch, which have no case of their own, and a transfer to the same
\* account, whose case never matches.
RejectionsReported ==
  phase = "apply" => \A k \in DOMAIN outcomes : outcomes[k] # OK =>
    /\ <<transferErrorStatus(outcomes[k]), transferHTTPStatus(outcomes[k])>> \in sameStatus
    /\ transferErrorStatus(outcomes[k]) = "Internal" =>
         outcomes[k] \in {"ErrBalanceOverflow", "ErrInvariantViolation", "ErrAccountFrozen", "ErrAccountClosed",
                          "ErrCurrencyMismatch", "ErrSelfTransfer"}

=============================================================================
