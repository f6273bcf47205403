--------------------------- MODULE EventLoopProofs ----------------------------
(***************************************************************************)
(* What follows from LoopInv: linked chains pass or fail as a whole,       *)
(* accounts stay solvent, money is conserved and rejections are reported, in *)
(* all behaviours.  RunInv and IdsInv are about a process that has not     *)
(* crashed: recovery starts with no transfer IDs, so that an ID may be used *)
(* again after it.  They give that what was validated is what is applied and *)
(* that reservations are backed by open holds.                             *)
(***************************************************************************)
EXTENDS EventLoopInv

\* Leaves with arithmetic, or too many functions and records for Zenon, name SMT.
USE Zenon

\* When a batch is applied every linked chain of it has passed or failed as a
\* whole, and a chain the batch cuts off has failed (ValidateBatch), whatever
\* the batches, crashes and failed writes.
THEOREM ChainsAllOrNothing ==
  Spec => []LinkedChainsAtomic
<1>1. LoopInv => LinkedChainsAtomic
  BY DEF LoopInv, LoopState, BatchOK, ApplyOK, Atomic, LinkedChainsAtomic
<1> QED
  BY <1>1, LoopInvariance, PTL

\* Posted and reserved debits of an account never exceed its posted credits, in
\* any intermediate state and through recovery, but for accounts that stretched
\* their funds (validatePlain ignores open holds, validateHold counts pending
\* credits).
THEOREM Solvency ==
  Spec => []Solvent
<1>1. LoopInv => Solvent
  BY DEF LoopInv, LoopState, ManagerOK, SolventBut, Solvent, running
<1> QED
  BY <1>1, LoopInvariance, PTL

\* What the two front ends make of an outcome.
LEMMA OutcomesReported ==
  ASSUME NEW e \in Outcomes, e # OK
  PROVE  /\ <<transferErrorStatus(e), transferHTTPStatus(e)>> \in sameStatus
         /\ transferErrorStatus(e) = "Internal" =>
              e \in {"ErrBalanceOverflow", "ErrInvariantViolation", "ErrAccountFrozen", "ErrAccountClosed",
                     "ErrCurrencyMismatch", "ErrSelfTransfer"}
<1>1. CASE e \in {"ErrZeroAmount", "ErrInvalidTransferFlags", "ErrLedgerMismatch", "ErrLinkedChainOpen"}
  <2>1. transferErrorStatus(e) = "InvalidArgument" /\ transferHTTPStatus(e) = 400
    BY SMTT(30), <1>1 DEF transferErrorStatus, transferHTTPStatus, isValue
  <2> QED
    BY SMTT(30), <2>1 DEF sameStatus
<1>2. CASE e \in {"ErrAccountNotFound", "ErrPendingNotFound"}
  <2>1. transferErrorStatus(e) = "NotFound" /\ transferHTTPStatus(e) = 404
    BY SMTT(30), <1>2 DEF transferErrorStatus, transferHTTPStatus, isValue
  <2> QED
    BY SMTT(30), <2>1 DEF sameStatus
<1>3. CASE e \in {"ErrInsufficientFunds", "ErrOverTransfer"}
  <2>1. transferErrorStatus(e) = "FailedPrecondition" /\ transferHTTPStatus(e) = 422
    BY SMTT(30), <1>3 DEF transferErrorStatus, transferHTTPStatus, isValue
  <2> QED
    BY SMTT(30), <2>1 DEF sameStatus
<1>4. CASE e = "ErrLinkedChainFailed"
  <2>1. transferErrorStatus(e) = "Aborted" /\ transferHTTPStatus(e) = 422
    BY SMTT(30), <1>4 DEF transferErrorStatus, transferHTTPStatus, isValue
  <2> QED
    BY SMTT(30), <2>1 DEF sameStatus
<1>5. CASE e = "ErrDuplicateTransferID"
  <2>1. transferErrorStatus(e) = "AlreadyExists" /\ transferHTTPStatus(e) = 409
    BY SMTT(30), <1>5 DEF transferErrorStatus, transferHTTPStatus, isValue
  <2> QED
    BY SMTT(30), <2>1 DEF sameStatus
<1>6. CASE e \in {"ErrBalanceOverflow", "ErrInvariantViolation", "ErrAccountFrozen", "ErrAccountClosed",
                 "ErrCurrencyMismatch", "ErrSelfTransfer"}
  <2>1. transferErrorStatus(e) = "Internal" /\ transferHTTPStatus(e) = 500
    BY SMTT(30), <1>6 DEF transferErrorStatus, transferHTTPStatus, isValue
  <2> QED
    BY SMTT(30), <1>6, <2>1 DEF sameStatus
<1> QED
  BY <1>1, <1>2, <1>3, <1>4, <1>5, <1>6 DEF Outcomes, Rejections

\* The gRPC and the REST interface report every rejected transfer alike, and
\* none as an internal error but those listed (transferErrorStatus,
\* transferHTTPStatus).
THEOREM ErrorsReported ==
  Spec => []RejectionsReported
<1>1. LoopInv => RejectionsReported
  <2> SUFFICES ASSUME LoopInv, phase = "apply", NEW k \in DOMAIN outcomes, outcomes[k] # OK
               PROVE  /\ <<transferErrorStatus(outcomes[k]), transferHTTPStatus(outcomes[k])>> \in sameStatus
                      /\ transferErrorStatus(outcomes[k]) = "Internal" =>
                           outcomes[k] \in {"ErrBalanceOverflow", "ErrInvariantViolation", "ErrAccountFrozen", "ErrAccountClosed",
                                            "ErrCurrencyMismatch", "ErrSelfTransfer"}
    BY DEF RejectionsReported
  <2>1. outcomes[k] \in Outcomes
    BY DEF LoopInv, LoopState, BatchOK, ApplyOK
  <2> QED
    BY <2>1, OutcomesReported
<1> QED
  BY <1>1, LoopInvariance, PTL

-----------------------------------------------------------------------------
(* Double entry *)

\* Releasing reservations leaves the posted amounts alone.
LEMMA NetKept ==
  ASSUME NEW acc, acc \in [DOMAIN acc -> Account], IsFiniteSet(DOMAIN acc), NEW acc2, NEW d, NEW c, NEW dh, NEW ch,
         Shifts(acc, acc2, d, c, 0, dh, 0, ch)
  PROVE  netPosted(acc2) = netPosted(acc)
<1>1. DOMAIN acc2 = DOMAIN acc /\ acc2 \in [DOMAIN acc2 -> Account]
  BY DEF Shifts
<1>2. \A a \in DOMAIN acc : acc[a].postedDebits \in Int /\ acc[a].postedCredits \in Int
  BY SMTT(30), Amounts DEF Account
<1>3. \A a \in DOMAIN acc : acc2[a].postedDebits = acc[a].postedDebits /\ acc2[a].postedCredits = acc[a].postedCredits
  BY SMTT(30), <1>2 DEF Shifts
<1>4. nets(acc2) = nets(acc) /\ nets(acc) \in [DOMAIN acc -> Int]
  BY SMTT(30), <1>1, <1>2, <1>3 DEF nets
<1>5. PICK f : Adds(nets(acc), DOMAIN acc, f)
  BY <1>4, AddsExists
<1>6. netPosted(acc) = f[DOMAIN acc]
  BY <1>5, NetSum
<1>7. Adds(nets(acc2), DOMAIN acc2, f)
  BY <1>1, <1>4, <1>5
<1>8. netPosted(acc2) = f[DOMAIN acc2]
  BY <1>1, <1>7, NetSum
<1> QED
  BY <1>1, <1>6, <1>8

\* Closing an expired hold leaves posted amounts alone.
LEMMA ExpireNet ==
  ASSUME NEW x, Manager(x), NEW c, NEW e \in nextExpired(x, c), NEW r, r = expireOne(x, e)
  PROVE  netPosted(r.m.acc) = netPosted(x.acc)
<1>1. e \in Transfer
  BY ExpiredHold
<1>2. PICK q : q = releasePending(x.acc, e)
  OBVIOUS
<1>3. r.m.acc = q.acc
  BY <1>2 DEF expireOne, Manager
<1>4. x.acc \in [DOMAIN x.acc -> Account] /\ IsFiniteSet(DOMAIN x.acc)
  BY DEF Manager, Accs
<1>5. q.acc = x.acc \/ \E ch : Shifts(x.acc, q.acc, e.debit, e.credit, 0, -e.amount, 0, ch)
  BY <1>1, <1>2, <1>4, ReleasePending
<1> QED
  BY <1>3, <1>4, <1>5, NetKept

\* createAll creates the account of every pair.
LEMMA CreatedId ==
  ASSUME NEW acc, NEW s, NEW k \in DOMAIN s, NEW r, r = createAll(acc, s)
  PROVE  s[k].id \in DOMAIN r
BY DEF createAll

\* Creating an account adds an ID.
LEMMA CreatesAnAccount ==
  ASSUME LoopInv, processAccountCreate
  PROVE  DOMAIN m'.acc # DOMAIN m.acc
<1> LoopState
  BY DEF LoopInv
<1>1. PICK accounts \in AccountBatches :
         /\ creatable(accounts) # <<>>
         /\ m' = [m EXCEPT !.acc = createAll(m.acc, creatable(accounts))]
  BY DEF processAccountCreate
<1>2. PICK recs, y : recs = creatable(accounts) /\ y = m.acc
  OBVIOUS
<1>3. PICK K : K = {k \in DOMAIN accounts : balanceErr(accounts[k].a) = OK /\ accounts[k].id \notin DOMAIN m.acc}
  OBVIOUS
<1>4. accounts \in Seq([id : STRING, a : NewAccount]) /\ recs = selected(accounts, K)
  BY <1>2, <1>3, BatchAssumption DEF creatable
<1>5. Picks(accounts, K, Len(accounts), recs)
  BY <1>4, SelectedPicks
<1>6. recs \in Seq([id : STRING, a : NewAccount]) /\ recs # <<>>
  BY <1>1, <1>2, <1>4, <1>5, PicksSeq
<1>7. 1 \in DOMAIN recs
  BY SMTT(30), <1>6
<1>8. PICK len, pos : PicksAt(accounts, K, Len(accounts), recs, len, pos)
  BY <1>5 DEF Picks
<1>9. recs = [j \in 1 .. len |-> accounts[pos[j]]] /\ \A j \in 1 .. len : pos[j] \in K
  BY <1>8 DEF PicksAt
<1>11. recs[1].id \notin DOMAIN y
  BY <1>2, <1>3, <1>7, <1>9
<1>12. Manager(m)
  BY DEF processAccountCreate, LoopState, ManagerOK
<1>13. PICK r : r = createAll(y, recs)
  OBVIOUS
<1>15. recs[1].id \in DOMAIN r
  BY <1>7, <1>13, CreatedId
<1>16. m'.acc = r
  BY <1>1, <1>2, <1>12, <1>13 DEF Manager
<1> QED
  BY <1>2, <1>7, <1>11, <1>15, <1>16

\* The steps that change the accounts of a running ledger.
LEMMA AccountSteps ==
  ASSUME Next, running, running'
  PROVE  m'.acc = m.acc \/ CloseExpired \/ ApplyBatch \/ processAccountCreate
<1>1. CASE processBatch \/ BeginValidate \/ ValidateFail \/ ValidateCloseChain \/ ValidateLink \/ ValidateDangling
  BY <1>1 DEF processBatch, BeginValidate, ValidateFail, ValidateCloseChain, ValidateLink, ValidateDangling, manager
<1>2. CASE Journal \/ JournalFail \/ Acknowledge \/ processAccountCreateFail \/ RequestSnapshotView \/ WriteSnapshot \/ Crash
  BY <1>2 DEF Journal, JournalFail, Acknowledge, processAccountCreateFail, RequestSnapshotView, WriteSnapshot, Crash, manager
<1>3. CASE LoadSnapshot \/ ReplayAccount \/ ReplayTransfer \/ ReplayApply \/ StartLoop
  BY <1>3 DEF LoadSnapshot, ReplayAccount, ReplayTransfer, ReplayApply, StartLoop, running
<1> QED
  BY <1>1, <1>2, <1>3 DEF Next

\* No step of a running ledger changes the net of all posted amounts:
\* transfers, settlements and expiries move money and never make or destroy it.
THEOREM MoneyConserved ==
  Spec => Conservation
<1>1. LoopInv /\ [Next]_vars =>
        [DOMAIN m'.acc = DOMAIN m.acc /\ running /\ running' => netPosted(m'.acc) = netPosted(m.acc)]_vars
  <2> SUFFICES ASSUME LoopInv, Next, DOMAIN m'.acc = DOMAIN m.acc, running, running'
               PROVE  netPosted(m'.acc) = netPosted(m.acc)
    OBVIOUS
  <2>1. Manager(m)
    BY DEF LoopInv, LoopState, ManagerOK, running
  <2>2. CASE m'.acc = m.acc
    BY <2>2
  <2>3. CASE CloseExpired
    <3>1. PICK x, c : x = m /\ c = mclock
      OBVIOUS
    <3>2. PICK e \in nextExpired(x, c) : m' = expireOne(x, e).m
      BY <2>3, <3>1 DEF CloseExpired
    <3> QED
      BY <2>1, <3>1, <3>2, ExpireNet
  <2>4. CASE ApplyBatch
    <3>1. m' = m \/ (Effect(m.acc, m.pending, events[i], m'.acc, m'.pending) /\ events[i] \in Transfer)
      BY <2>4, ApplyStep
    <3>2. m.acc \in [DOMAIN m.acc -> Account] /\ IsFiniteSet(DOMAIN m.acc)
      BY <2>1 DEF Manager, Accs
    <3> QED
      BY <3>1, <3>2, EffectNet
  <2>5. CASE processAccountCreate
    BY <2>5, CreatesAnAccount
  <2> QED
    BY <2>2, <2>3, <2>4, <2>5, AccountSteps
<1> QED
  BY <1>1, LoopInvariance, PTL DEF Spec, Conservation

-----------------------------------------------------------------------------
(* A process that has not crashed *)

\* The process has not crashed since the start.
neverCrashed == budget.crashes = MaxCrashes

\* Event k is a plain or pending transfer that passed.
newPassed(ev, out, k) == isNew(ev[k]) /\ out[k] = OK

\* The new transfers among events from to to that passed have IDs of their own,
\* none of T.
Fresh(ev, out, from, to, T) ==
  \A k \in from .. to : newPassed(ev, out, k) =>
    ev[k].id \notin T /\ \A l \in from .. to : newPassed(ev, out, l) /\ ev[l].id = ev[k].id => l = k

\* Their IDs are in S.
Noted(ev, out, to, S) == \A k \in 1 .. to : newPassed(ev, out, k) => ev[k].id \in S

\* Holds of a manager that lost none: named by their transfers, on accounts
\* that exist, and backed.
HoldsOK(x) ==
  /\ x.orphans = {} /\ Keyed(x.acc, x.pending) /\ Backed(x.acc, openHolds(x.pending))
  /\ DOMAIN x.pending \subseteq x.transfers

\* The IDs of the batch in progress: new to the ledger, and to each other.
BatchIds ==
  /\ phase = "validate" => Fresh(events, outcomes, 1, i - 1, m.transfers) /\ Noted(events, outcomes, i - 1, v.seen)
  /\ phase = "apply" => Fresh(events, outcomes, i, Len(events), m.transfers)

\* The inductive invariant of a process that has not crashed.
RunInv == neverCrashed => running /\ alarms = 0 /\ HoldsOK(m) /\ BatchIds

\* A chain that failed takes its IDs out of the count,
LEMMA FreshDown ==
  ASSUME NEW ev, NEW out, NEW out2, NEW T, NEW S, NEW len \in Nat, NEW n \in 1 .. len, NEW c \in 1 .. n, NEW last \in n .. len,
         Downs(out, out2, c, last, len), Fresh(ev, out, 1, n - 1, T), Noted(ev, out, n - 1, S)
  PROVE  Fresh(ev, out2, 1, last, T) /\ Noted(ev, out2, last, S)
<1>1. \A k \in 1 .. last : newPassed(ev, out2, k) => k \in 1 .. (n - 1) /\ newPassed(ev, out, k)
  <2> SUFFICES ASSUME NEW k \in 1 .. last, newPassed(ev, out2, k)
               PROVE  k \in 1 .. (n - 1) /\ newPassed(ev, out, k)
    OBVIOUS
  <2>1. k \notin c .. last
    BY DEF newPassed, Downs
  <2>2. k \in 1 .. (c - 1)
    BY SMTT(30), <2>1
  <2> QED
    BY SMTT(30), <2>2 DEF newPassed, Downs
<1> QED
  BY <1>1 DEF Fresh, Noted

\* a transfer that passes brings one that is new,
LEMMA FreshOn ==
  ASSUME NEW ev, NEW out, NEW T, NEW S, NEW S2, NEW n \in Nat \ {0}, Fresh(ev, out, 1, n - 1, T), Noted(ev, out, n - 1, S),
         S \subseteq S2, isNew(ev[n]) => ev[n].id \notin S \cup T /\ ev[n].id \in S2
  PROVE  Fresh(ev, out, 1, n, T) /\ Noted(ev, out, n, S2)
<1>1. \A k \in 1 .. n : k = n \/ k \in 1 .. (n - 1)
  BY SMTT(30)
<1>2. \A k \in 1 .. (n - 1) : newPassed(ev, out, k) => ev[k].id \in S
  BY DEF Noted
<1>3. Noted(ev, out, n, S2)
  BY <1>1, <1>2 DEF Noted, newPassed
<1>4. \A k \in 1 .. n : newPassed(ev, out, k) => ev[k].id \notin T
  BY <1>1 DEF Fresh, newPassed
<1>5. ASSUME NEW k \in 1 .. n, NEW l \in 1 .. n, newPassed(ev, out, k), newPassed(ev, out, l), ev[l].id = ev[k].id
      PROVE  l = k
  <2>1. CASE k = n /\ l = n
    BY <2>1
  <2>2. CASE k = n /\ l \in 1 .. (n - 1)
    BY <1>2, <1>5, <2>2 DEF newPassed
  <2>3. CASE l = n /\ k \in 1 .. (n - 1)
    BY <1>2, <1>5, <2>3 DEF newPassed
  <2>4. CASE l \in 1 .. (n - 1) /\ k \in 1 .. (n - 1)
    BY <1>5, <2>4 DEF Fresh
  <2> QED
    BY <1>1, <2>1, <2>2, <2>3, <2>4
<1> QED
  BY <1>3, <1>4, <1>5 DEF Fresh

\* and one that is applied moves its ID to the manager.
LEMMA FreshApplied ==
  ASSUME NEW ev, NEW out, NEW T, NEW n \in Nat, NEW len \in Nat, n <= len, Fresh(ev, out, n, len, T), NEW T2,
         T2 = T \cup {ev[n].id}, ev[n].id \in T \/ newPassed(ev, out, n)
  PROVE  Fresh(ev, out, n + 1, len, T2)
<1>1. \A k \in (n + 1) .. len : k \in n .. len /\ k # n
  BY SMTT(30)
<1>2. n \in n .. len
  BY SMTT(30)
<1>3. \A k \in (n + 1) .. len : newPassed(ev, out, k) => ev[k].id \notin T
  BY <1>1 DEF Fresh
<1>4. \A k \in (n + 1) .. len : newPassed(ev, out, k) => ev[k].id # ev[n].id
  BY <1>1, <1>2, <1>3 DEF Fresh
<1> QED
  BY <1>1, <1>3, <1>4 DEF Fresh

\* The holds of an applied transfer are among those there were, and its own.
LEMMA HoldsNamed ==
  ASSUME NEW acc, NEW pending, Pending(pending), NEW t, NEW acc2, NEW pending2, Effect(acc, pending, t, acc2, pending2)
  PROVE  DOMAIN pending2 \subseteq DOMAIN pending \cup {t.id} /\ (~isNew(t) => t.id \in DOMAIN pending)
<1>1. CASE Settles(acc, pending, t, acc2, pending2)
  BY <1>1 DEF Settles, settle, without
<1>2. CASE Opens(acc, pending, t, acc2, pending2)
  BY <1>2 DEF Opens, with
<1>3. CASE Pays(acc, pending, t, acc2, pending2)
  BY <1>3 DEF Pays
<1> QED
  BY <1>1, <1>2, <1>3 DEF Effect

\* Applying a transfer with an ID of its own keeps the holds backed and loses
\* none.
LEMMA ApplyHolds ==
  ASSUME NEW x, Manager(x), HoldsOK(x), NEW t \in Transfer, NEW r, r = ApplyTransferState(x, t), r.err = OK,
         isNew(t) => t.id \notin x.transfers
  PROVE  /\ HoldsOK(r.m) /\ r.m.transfers = x.transfers \cup {t.id}
         /\ isNew(t) \/ t.id \in x.transfers
<1>1. x.acc \in [DOMAIN x.acc -> Account] /\ x.pending \in [DOMAIN x.pending -> Transfer] /\ Pending(x.pending)
  BY DEF Manager, Accs, Pending
<1>2. Effect(x.acc, x.pending, t, r.m.acc, r.m.pending)
  BY <1>1, ApplyEffect
<1>3. DOMAIN r.m.pending \subseteq DOMAIN x.pending \cup {t.id} /\ (~isNew(t) => t.id \in DOMAIN x.pending)
  BY SMTT(30), <1>1, <1>2, HoldsNamed
<1>4. isNew(t) => t.id \notin DOMAIN x.pending
  BY DEF HoldsOK
<1>5. Keyed(r.m.acc, r.m.pending) /\ Backed(r.m.acc, openHolds(r.m.pending))
  BY <1>1, <1>2, <1>4, EffectBacked DEF HoldsOK
<1>6. r.m = [acc |-> amountsMoved(x, t).acc, pending |-> holdsAfter(x, t),
             orphans |-> x.orphans \cup (IF isPending(t) THEN replaced(x, t) ELSE {}),
             transfers |-> x.transfers \cup {t.id}]
  BY ApplyParts
<1>7. isPending(t) => isNew(t)
  <2>1. checkTransfer(x, t) = OK
    BY ApplyAccepts
  <2>2. ~badFlags(t)
    BY <2>1 DEF checkTransfer, OK
  <2> QED
    BY <2>2 DEF badFlags, isNew
<1>8. (IF isPending(t) THEN replaced(x, t) ELSE {}) = {}
  BY <1>4, <1>7 DEF replaced
<1>9. r.m.orphans = {} /\ r.m.transfers = x.transfers \cup {t.id}
  BY SMTT(30), <1>6, <1>8 DEF HoldsOK
<1> QED
  BY <1>3, <1>5, <1>9 DEF HoldsOK

\* Closing an expired hold succeeds and keeps the others backed.
LEMMA ExpireHolds ==
  ASSUME NEW x, Manager(x), HoldsOK(x), NEW c, NEW e \in nextExpired(x, c), NEW r, r = expireOne(x, e)
  PROVE  r.err = OK /\ HoldsOK(r.m) /\ r.m.transfers = x.transfers
<1>1. PICK k \in DOMAIN x.pending : e = x.pending[k]
  BY ExpiredHold DEF HoldsOK
<1>2. e.id = k
  BY <1>1 DEF HoldsOK, Keyed
<1>3. PICK q : q = releasePending(x.acc, e)
  OBVIOUS
<1>4. x.acc \in [DOMAIN x.acc -> Account] /\ Pending(x.pending)
  BY DEF Manager, Accs
<1>5. q.err = OK /\ Keyed(q.acc, without(x.pending, k)) /\ Backed(q.acc, openHolds(without(x.pending, k)))
  BY SMTT(30), <1>1, <1>3, <1>4, ExpireBacked DEF HoldsOK
<1>6. PICK lost : lost = IF e.id \in DOMAIN x.pending /\ x.pending[e.id] # e THEN replaced(x, e) ELSE {}
  OBVIOUS
<1>7. r.err = q.err /\ r.m = [x EXCEPT !.acc = q.acc, !.pending = without(x.pending, e.id), !.orphans = (x.orphans \ {e}) \cup lost]
  BY <1>3, <1>6 DEF expireOne
<1>8. r.m = [acc |-> q.acc, pending |-> without(x.pending, k), orphans |-> (x.orphans \ {e}) \cup lost,
             transfers |-> x.transfers]
  BY <1>2, <1>7 DEF Manager
<1>9. lost = {}
  BY <1>1, <1>2, <1>6
<1>10. DOMAIN without(x.pending, k) \subseteq x.transfers
  BY DEF without, HoldsOK
<1>11. r.m.acc = q.acc /\ r.m.pending = without(x.pending, k) /\ r.m.orphans = {} /\ r.m.transfers = x.transfers
  BY SMTT(30), <1>8, <1>9 DEF HoldsOK
<1>12. r.err = OK
  BY <1>5, <1>7
<1> QED
  BY <1>5, <1>10, <1>11, <1>12 DEF HoldsOK

\* It holds at the start.
LEMMA InitRun ==
  Init => RunInv
<1> SUFFICES ASSUME Init PROVE RunInv
  OBVIOUS
<1>1. m.orphans = {} /\ m.pending = emptyMap
  BY DEF Init
<1>2. Keyed(m.acc, m.pending) /\ DOMAIN m.pending \subseteq m.transfers
  BY <1>1, EmptyMap DEF Keyed
<1>3. Backed(m.acc, openHolds(m.pending))
  <2>1. PICK r : r = createAll(emptyMap, FirstAccounts)
    OBVIOUS
  <2>2. FirstAccounts \in Seq([id : STRING, a : NewAccount])
    BY BatchAssumption
  <2>3. \A k \in DOMAIN FirstAccounts : FirstAccounts[k].a \in NewAccount
    <3>1. \A k \in DOMAIN FirstAccounts : FirstAccounts[k] \in [id : STRING, a : NewAccount]
      BY <2>2, SeqElement
    <3> QED
      BY <3>1
  <2>4. Creates(emptyMap, r)
    BY <2>1, <2>2, <2>3, EmptyMap, CreateAll DEF Accs
  <2>5. Keyed(emptyMap, emptyMap) /\ Backed(emptyMap, openHolds(emptyMap))
    BY EmptyMap DEF Keyed, Backed
  <2>6. Backed(r, openHolds(emptyMap))
    BY <2>4, <2>5, CreatesBacked
  <2> QED
    BY <1>1, <2>1, <2>6 DEF Init
<1> QED
  BY <1>1, <1>2, <1>3 DEF RunInv, Init, running, HoldsOK, BatchIds

\* A step that changes neither the manager nor a batch in progress.
LEMMA QuietRun ==
  ASSUME RunInv, m' = m, alarms' = alarms, neverCrashed' => neverCrashed, phase' \in {"idle", "expire"}
  PROVE  RunInv'
<1> SUFFICES ASSUME neverCrashed' PROVE running' /\ alarms' = 0 /\ HoldsOK(m') /\ BatchIds'
  BY DEF RunInv
<1>1. alarms = 0 /\ HoldsOK(m)
  BY DEF RunInv
<1> QED
  BY <1>1 DEF running, BatchIds

\* A step that leaves manager and batch alone keeps it,
LEMMA SameRun ==
  ASSUME RunInv, UNCHANGED <<m, alarms, budget, phase, batch>>
  PROVE  RunInv'
BY DEF RunInv, neverCrashed, running, HoldsOK, BatchIds, batch

\* CloseExpired keeps it,
LEMMA CloseExpiredRun ==
  ASSUME LoopInv, RunInv, CloseExpired
  PROVE  RunInv'
<1> LoopState
  BY DEF LoopInv
<1> SUFFICES ASSUME neverCrashed' PROVE running' /\ alarms' = 0 /\ HoldsOK(m') /\ BatchIds'
  BY DEF RunInv
<1>1. running /\ alarms = 0 /\ HoldsOK(m) /\ phase' = phase
  BY DEF RunInv, neverCrashed, CloseExpired
<1>2. Manager(m) /\ phase = "expire"
  BY <1>1 DEF LoopState, ManagerOK, running, CloseExpired
<1>3. PICK x, c : x = m /\ c = mclock
  OBVIOUS
<1>4. PICK e \in nextExpired(x, c) : m' = expireOne(x, e).m /\ alarms' = IF expireOne(x, e).err = OK THEN alarms ELSE alarms + 1
  BY <1>3 DEF CloseExpired
<1>5. PICK r : r = expireOne(x, e)
  OBVIOUS
<1>6. r.err = OK /\ HoldsOK(r.m)
  BY <1>1, <1>2, <1>3, <1>5, ExpireHolds
<1> QED
  BY <1>1, <1>2, <1>4, <1>5, <1>6 DEF running, BatchIds

\* BeginValidate starts with no ID seen,
LEMMA BeginValidateRun ==
  ASSUME LoopInv, RunInv, BeginValidate
  PROVE  RunInv'
<1> SUFFICES ASSUME neverCrashed' PROVE running' /\ alarms' = 0 /\ HoldsOK(m') /\ BatchIds'
  BY DEF RunInv
<1>1. alarms = 0 /\ HoldsOK(m) /\ m' = m /\ alarms' = alarms
  BY DEF RunInv, neverCrashed, BeginValidate, manager
<1>2. i' = 1 /\ phase' = "validate"
  BY DEF BeginValidate
<1>3. Fresh(events', outcomes', 1, i' - 1, m'.transfers) /\ Noted(events', outcomes', i' - 1, v'.seen)
  BY SMTT(30), <1>2 DEF Fresh, Noted
<1> QED
  BY <1>1, <1>2, <1>3 DEF running, BatchIds

\* a chain that fails keeps it,
LEMMA DownRun ==
  ASSUME LoopInv, RunInv, phase = "validate", i <= Len(events), NEW last, ChainLast(events, i, last), NEW err \in Outcomes, err # OK,
         outcomes' = chainFailed(err, last), v' = rollbackChain(validated.v, chainView),
         i' = last + 1, phase' = phase, events' = events, UNCHANGED <<manager, budget>>
  PROVE  RunInv'
<1> LoopState
  BY DEF LoopInv
<1> SUFFICES ASSUME neverCrashed' PROVE running' /\ alarms' = 0 /\ HoldsOK(m') /\ BatchIds'
  BY DEF RunInv
<1>1. running /\ alarms = 0 /\ HoldsOK(m) /\ m' = m /\ alarms' = alarms /\ BatchIds
  BY DEF RunInv, neverCrashed, manager
<1>2. ValidateOK /\ events \in Seq(Transfer)
  BY DEF LoopState, BatchOK
<1>3. PICK ev, out, out2, n, c, len : /\ ev = events /\ out = outcomes /\ out2 = outcomes' /\ n = i /\ c = chainStart /\ len = Len(events)
  OBVIOUS
<1>4. len \in Nat /\ n \in 1 .. len /\ c \in 1 .. n /\ out \in [1 .. len -> Outcomes] /\ Staging(chainView) /\ View(v)
  BY SMTT(30), <1>2, <1>3 DEF ValidateOK, Staging
<1>5. last \in n .. len /\ FailsChain(out, n, err, c, last, out2)
  BY <1>3 DEF ChainLast, FailsChain, chainFailed
<1>6. Downs(out, out2, c, last, len)
  BY <1>4, <1>5, FailsDowns
<1>7. PICK T, S, S2 : T = m.transfers /\ S = v.seen /\ S2 = v'.seen
  OBVIOUS
<1>8. S \subseteq S2
  <2>1. v'.seen = validated.v.seen
    BY <1>4, RolledBack
  <2>2. v.seen \subseteq validated.v.seen
    BY SMTT(30), <1>4, ValidatorView DEF validated
  <2> QED
    BY <1>7, <2>1, <2>2
<1>9. Fresh(ev, out, 1, n - 1, T) /\ Noted(ev, out, n - 1, S)
  BY <1>1, <1>3, <1>7 DEF BatchIds
<1>10. Fresh(ev, out2, 1, last, T) /\ Noted(ev, out2, last, S)
  BY <1>4, <1>5, <1>6, <1>9, FreshDown
<1>11. Noted(ev, out2, last, S2)
  BY <1>8, <1>10 DEF Noted
<1>12. (last + 1) - 1 = last
  BY SMTT(30), <1>4, <1>5
<1> QED
  BY <1>1, <1>3, <1>7, <1>10, <1>11, <1>12 DEF running, BatchIds

\* an event that passes keeps it,
LEMMA PassRun ==
  ASSUME LoopInv, RunInv, phase = "validate", i <= Len(events), validated.err = OK,
         v' = validated.v, i' = i + 1, phase' = phase, events' = events, outcomes' = outcomes, UNCHANGED <<manager, budget>>
  PROVE  RunInv'
<1> LoopState
  BY DEF LoopInv
<1> SUFFICES ASSUME neverCrashed' PROVE running' /\ alarms' = 0 /\ HoldsOK(m') /\ BatchIds'
  BY DEF RunInv
<1>1. running /\ alarms = 0 /\ HoldsOK(m) /\ m' = m /\ alarms' = alarms /\ BatchIds
  BY DEF RunInv, neverCrashed, manager
<1>2. ValidateOK /\ events \in Seq(Transfer)
  BY DEF LoopState, BatchOK
<1>3. PICK ev, out, n, T, S, g : /\ ev = events /\ out = outcomes /\ n = i /\ T = m.transfers /\ S = v.seen /\ g = validated
  OBVIOUS
<1>4. n \in Nat \ {0} /\ View(v)
  BY SMTT(30), <1>2, <1>3 DEF ValidateOK, Staging
<1>5. /\ S \subseteq g.v.seen
      /\ isNew(ev[n]) => ev[n].id \notin S \cup T /\ ev[n].id \in g.v.seen
  <2>1. PICK w, t : w = v /\ t = ev[n]
    OBVIOUS
  <2>2. g = validateAndApply(w, t, T) /\ g.err = OK /\ View(w)
    BY <1>3, <1>4, <2>1 DEF validated
  <2>3. /\ w.seen \subseteq g.v.seen
        /\ isNew(t) => t.id \notin w.seen \cup T /\ t.id \in g.v.seen
    BY SMTT(30), <2>2, ValidatorView
  <2> QED
    BY <1>3, <2>1, <2>3
<1>6. Fresh(ev, out, 1, n - 1, T) /\ Noted(ev, out, n - 1, S)
  BY <1>1, <1>3 DEF BatchIds
<1>7. Fresh(ev, out, 1, n, T) /\ Noted(ev, out, n, g.v.seen)
  BY <1>4, <1>5, <1>6, FreshOn
<1>8. (n + 1) - 1 = n
  BY SMTT(30), <1>4
<1> QED
  BY <1>1, <1>3, <1>7, <1>8 DEF running, BatchIds

\* so that every step of the validator does,
LEMMA ValidateRun ==
  ASSUME LoopInv, RunInv, ValidateFail \/ ValidateDangling \/ ValidateCloseChain \/ ValidateLink
  PROVE  RunInv'
<1> LoopState
  BY DEF LoopInv
<1>1. ValidateOK /\ events \in Seq(Transfer) /\ phase = "validate"
  BY DEF LoopState, BatchOK, ValidateFail, ValidateDangling, ValidateCloseChain, ValidateLink
<1>2. i \in 1 .. Len(events)
  BY SMTT(30), <1>1 DEF ValidateOK, ValidateFail, ValidateDangling, ValidateCloseChain, ValidateLink
<1>3. CASE ValidateFail
  <2>1. PICK last, err : last = chainEnd /\ err = validated.err
    OBVIOUS
  <2>2. ChainLast(events, i, last)
    BY <1>1, <1>2, <2>1, ChainEnd
  <2>3. err \in Outcomes /\ err # OK
    <3>1. View(v)
      BY <1>1 DEF ValidateOK, Staging
    <3>2. validated.err \in Rejections \cup {OK}
      BY SMTT(30), <3>1, ValidatorView DEF validated
    <3> QED
      BY <1>3, <2>1, <3>2 DEF ValidateFail, Outcomes
  <2> QED
    BY <1>3, <2>1, <2>2, <2>3, DownRun DEF ValidateFail
<1>4. CASE ValidateDangling
  <2>1. PICK last, err : last = i /\ err = "ErrLinkedChainOpen"
    OBVIOUS
  <2>2. ChainLast(events, i, last)
    BY SMTT(30), <1>1, <1>2, <1>4, <2>1 DEF ValidateDangling, ChainLast
  <2>3. err \in Outcomes /\ err # OK
    BY <2>1 DEF Outcomes, OK
  <2>4. outcomes' = chainFailed(err, last)
    BY <1>4, <2>1 DEF ValidateDangling
  <2>5. i <= Len(events)
    BY SMTT(30), <1>1, <1>2
  <2> QED
    BY <1>4, <2>1, <2>2, <2>3, <2>4, <2>5, DownRun DEF ValidateDangling
<1>5. CASE ValidateCloseChain
  BY <1>5, PassRun DEF ValidateCloseChain
<1>6. CASE ValidateLink
  <2>1. i <= Len(events)
    BY SMTT(30), <1>1, <1>2
  <2> QED
    BY <1>6, <2>1, PassRun DEF ValidateLink
<1> QED
  BY <1>3, <1>4, <1>5, <1>6

\* Journal keeps it,
LEMMA JournalRun ==
  ASSUME LoopInv, RunInv, Journal
  PROVE  RunInv'
<1> LoopState
  BY DEF LoopInv
<1> SUFFICES ASSUME neverCrashed' PROVE running' /\ alarms' = 0 /\ HoldsOK(m') /\ BatchIds'
  BY DEF RunInv
<1>1. running /\ alarms = 0 /\ HoldsOK(m) /\ m' = m /\ alarms' = alarms /\ BatchIds
  BY DEF RunInv, neverCrashed, Journal, manager
<1>2. ValidateOK /\ events \in Seq(Transfer) /\ phase = "validate"
  BY DEF LoopState, BatchOK, Journal
<1>3. i - 1 = Len(events)
  BY SMTT(30), <1>2 DEF ValidateOK, Journal
<1>4. i' = 1 /\ phase' = "apply" /\ events' = events /\ outcomes' = outcomes
  BY DEF Journal
<1>5. Fresh(events, outcomes, 1, i - 1, m.transfers)
  BY <1>1, <1>2 DEF BatchIds
<1>6. Fresh(events', outcomes', i', Len(events'), m'.transfers)
  BY <1>1, <1>3, <1>4, <1>5
<1> QED
  BY <1>1, <1>4, <1>6 DEF running, BatchIds

\* ApplyBatch keeps it,
LEMMA ApplyBatchRun ==
  ASSUME LoopInv, RunInv, ApplyBatch
  PROVE  RunInv'
<1> LoopState
  BY DEF LoopInv
<1> SUFFICES ASSUME neverCrashed' PROVE running' /\ alarms' = 0 /\ HoldsOK(m') /\ BatchIds'
  BY DEF RunInv
<1>1. running /\ alarms = 0 /\ HoldsOK(m) /\ BatchIds /\ phase = "apply" /\ phase' = "apply" /\ events' = events /\ i' = i + 1
  BY DEF RunInv, neverCrashed, ApplyBatch
<1>2. PICK ev, out, n, T, x, t, len :
         ev = events /\ out = outcomes /\ n = i /\ T = m.transfers /\ x = m /\ t = events[i] /\ len = Len(events)
  OBVIOUS
<1>3. outcomes' = out /\ alarms' = alarms /\ n \in 1 .. len /\ t \in Transfer
  BY <1>2, ApplyStep
<1>4. len \in Nat /\ Manager(x)
  BY SMTT(30), <1>1, <1>2 DEF LoopState, BatchOK, ManagerOK
<1>5. Fresh(ev, out, n, len, T)
  BY <1>1, <1>2 DEF BatchIds
<1>6. CASE out[n] # OK
  <2>1. m' = m
    BY <1>2, <1>6, ApplyStep
  <2>2. \A k \in (n + 1) .. len : k \in n .. len
    BY SMTT(30), <1>3, <1>4
  <2>3. Fresh(ev, out, n + 1, len, T)
    BY <1>5, <2>2 DEF Fresh
  <2> QED
    BY <1>1, <1>2, <1>3, <2>1, <2>3 DEF running, BatchIds
<1>7. CASE out[n] = OK
  <2>1. PICK r : r = ApplyTransferState(x, t)
    OBVIOUS
  <2>2. r.err = OK /\ m' = r.m
    BY <1>2, <1>7, <2>1, ApplyStep
  <2>3. n \in n .. len /\ n \in Nat /\ n <= len
    BY SMTT(30), <1>3, <1>4
  <2>4. isNew(t) => t.id \notin T
    BY <1>2, <1>5, <1>7, <2>3 DEF Fresh, newPassed
  <2>5. HoldsOK(r.m) /\ r.m.transfers = T \cup {t.id} /\ (isNew(t) \/ t.id \in T)
    BY <1>1, <1>2, <1>3, <1>4, <2>1, <2>2, <2>4, ApplyHolds
  <2>6. ev[n] = t /\ (t.id \in T \/ newPassed(ev, out, n))
    BY <1>2, <1>7, <2>5 DEF newPassed
  <2>7. PICK T2 : T2 = r.m.transfers
    OBVIOUS
  <2>8. Fresh(ev, out, n + 1, len, T2)
    BY <1>4, <1>5, <2>3, <2>5, <2>6, <2>7, FreshApplied
  <2> QED
    BY <1>1, <1>2, <1>3, <2>2, <2>5, <2>7, <2>8 DEF running, BatchIds
<1> QED
  BY <1>6, <1>7

\* processAccountCreate keeps it,
LEMMA ProcessAccountCreateRun ==
  ASSUME LoopInv, RunInv, processAccountCreate
  PROVE  RunInv'
<1> LoopState
  BY DEF LoopInv
<1> SUFFICES ASSUME neverCrashed' PROVE running' /\ alarms' = 0 /\ HoldsOK(m') /\ BatchIds'
  BY DEF RunInv
<1>1. alarms = 0 /\ HoldsOK(m) /\ phase' = "idle" /\ alarms' = alarms
  BY DEF RunInv, neverCrashed, processAccountCreate
<1>2. PICK accounts \in AccountBatches :
         creatable(accounts) # <<>> /\ m' = [m EXCEPT !.acc = createAll(m.acc, creatable(accounts))]
  BY DEF processAccountCreate
<1>3. PICK recs, y : recs = creatable(accounts) /\ y = m.acc
  OBVIOUS
<1>4. recs \in Seq([id : STRING, a : NewAccount])
  BY <1>2, <1>3, CreatableRecords
<1>5. \A k \in DOMAIN recs : recs[k].a \in NewAccount
  <2>1. \A k \in DOMAIN recs : recs[k] \in [id : STRING, a : NewAccount]
    BY <1>4, SeqElement
  <2> QED
    BY <2>1
<1>6. PICK r : r = createAll(y, recs)
  OBVIOUS
<1>7. Manager(m)
  BY DEF processAccountCreate, LoopState, ManagerOK
<1>8. Creates(y, r)
  BY <1>3, <1>4, <1>5, <1>6, <1>7, CreateAll DEF Manager, Accs
<1>9. m' = [acc |-> r, pending |-> m.pending, orphans |-> m.orphans, transfers |-> m.transfers]
  <2>1. m' = [m EXCEPT !.acc = r]
    BY <1>2, <1>3, <1>6
  <2> QED
    BY <1>7, <2>1 DEF Manager
<1>10. Keyed(r, m.pending) /\ Backed(r, openHolds(m.pending))
  BY <1>1, <1>3, <1>8, CreatesBacked DEF HoldsOK
<1>11. HoldsOK(m')
  BY <1>1, <1>9, <1>10 DEF HoldsOK
<1> QED
  BY <1>1, <1>11 DEF running, BatchIds

\* Once it has crashed the process is never again one that has not.
LEMMA CrashRun ==
  ASSUME LoopInv, RunInv, Crash \/ LoadSnapshot \/ ReplayAccount \/ ReplayTransfer \/ ReplayApply \/ StartLoop
  PROVE  RunInv'
<1> LoopState
  BY DEF LoopInv
<1>1. CASE Crash
  <2>1. budget' = [next |-> budget.next, crashes |-> budget.crashes - 1, walErrors |-> budget.walErrors]
    BY <1>1 DEF Crash, LoopState, CountersOK
  <2>2. budget.crashes - 1 # MaxCrashes
    BY SMTT(30), BatchAssumption DEF LoopState, CountersOK
  <2> QED
    BY <2>1, <2>2 DEF RunInv, neverCrashed
<1>2. CASE LoadSnapshot \/ ReplayAccount \/ ReplayTransfer \/ ReplayApply \/ StartLoop
  <2>1. budget' = budget /\ ~running
    BY <1>2 DEF LoadSnapshot, ReplayAccount, ReplayTransfer, ReplayApply, StartLoop, running
  <2> QED
    BY <2>1 DEF RunInv, neverCrashed
<1> QED
  BY <1>1, <1>2

\* and so does every step.
LEMMA NextRun ==
  LoopInv /\ RunInv /\ [Next]_vars => RunInv'
<1> SUFFICES ASSUME LoopInv, RunInv, [Next]_vars, LoopState PROVE RunInv'
  BY DEF LoopInv
<1>1. CASE UNCHANGED vars
  BY <1>1, SameRun DEF vars, manager
<1>2. CASE processBatch
  <2>1. budget'.crashes = budget.crashes
    BY <1>2 DEF processBatch, LoopState, CountersOK
  <2> QED
    BY <1>2, <2>1, QuietRun DEF processBatch, neverCrashed
<1>3. CASE JournalFail \/ processAccountCreateFail
  <2>1. budget'.crashes = budget.crashes
    BY <1>3 DEF JournalFail, processAccountCreateFail, LoopState, CountersOK
  <2>2. m' = m /\ alarms' = alarms /\ phase' = "idle"
    BY <1>3 DEF JournalFail, processAccountCreateFail, manager
  <2> QED
    BY <2>1, <2>2, QuietRun DEF neverCrashed
<1>4. CASE Acknowledge
  BY <1>4, QuietRun DEF Acknowledge, manager, neverCrashed
<1>5. CASE RequestSnapshotView \/ WriteSnapshot
  BY <1>5, SameRun DEF RequestSnapshotView, WriteSnapshot, manager
<1> QED
  BY <1>1, <1>2, <1>3, <1>4, <1>5, CloseExpiredRun, BeginValidateRun, ValidateRun, JournalRun, ApplyBatchRun,
     ProcessAccountCreateRun, CrashRun DEF Next

\* A process that has not crashed loses no hold, backs every reservation, and
\* applies only plain and pending transfers whose IDs are new.
THEOREM RunInvariance ==
  Spec => []RunInv
BY InitRun, NextRun, LoopInvariance, PTL DEF Spec

\* Also after crashes and recoveries: once all events of a batch are applied,
\* the accounts and holds are those ValidateBatch staged.
THEOREM StagedIsApplied ==
  Spec => [](phase = "apply" /\ i > Len(events) => m.acc = v.acc /\ m.pending = v.pending)
<1>1. LoopInv => (phase = "apply" /\ i > Len(events) => m.acc = v.acc /\ m.pending = v.pending)
  <2> SUFFICES ASSUME LoopInv, phase = "apply", i > Len(events) PROVE m.acc = v.acc /\ m.pending = v.pending
    OBVIOUS
  <2>1. ApplyOK /\ events \in Seq(Transfer)
    BY DEF LoopInv, LoopState, BatchOK
  <2>2. i = Len(events) + 1
    BY SMTT(30), <2>1 DEF ApplyOK
  <2>3. PICK s : At(s[i], m) /\ At(s[Len(events) + 1], v)
    BY <2>1 DEF ApplyOK
  <2> QED
    BY <2>2, <2>3 DEF At
<1> QED
  BY <1>1, LoopInvariance, PTL

\* What ValidateBatch staged is what ApplyBatch makes of the accounts and
\* holds, and applying or expiring never fails, while the process has not
\* crashed.
THEOREM ValidatedIsApplied ==
  Spec => [](neverCrashed => AppliedAsStaged)
<1>1. RunInv /\ (phase = "apply" /\ i > Len(events) => m.acc = v.acc /\ m.pending = v.pending)
        => (neverCrashed => AppliedAsStaged)
  BY DEF RunInv, AppliedAsStaged
<1> QED
  BY <1>1, StagedIsApplied, RunInvariance, PTL

-----------------------------------------------------------------------------
(* Transfer IDs *)

\* Record l of batch k of journal j is a plain or pending transfer.
NewAt(j, k, l) ==
  k \in DOMAIN j /\ l \in DOMAIN j[k] /\ j[k][l].type = "transfer" /\ isNew(j[k][l].t)
\* No two plain or pending transfers of journal j have the same ID.
Unique(j) ==
  \A k, l, k2, l2 : NewAt(j, k, l) /\ NewAt(j, k2, l2) /\ j[k][l].t.id = j[k2][l2].t.id => k = k2 /\ l = l2
\* Their IDs are all in T.
Listed(j, T) == \A k, l : NewAt(j, k, l) => j[k][l].t.id \in T

\* The IDs of the new transfers that are journaled and not applied yet.
waitingIds(ev, out, n) == {ev[k].id : k \in {l \in n .. Len(ev) : newPassed(ev, out, l)}}
unapplied == IF phase = "apply" THEN waitingIds(events, outcomes, i) ELSE {}

\* Journaled IDs are unique, and known to the manager or about to be, as long
\* as no write failed behind an appended record.
IdsInv == neverCrashed /\ ~dirty => Unique(journal) /\ Listed(journal, m.transfers \cup unapplied)

\* That is what UniqueTransferIDs states.
LEMMA UniqueIDs ==
  Unique(journal) => UniqueTransferIDs
<1> SUFFICES ASSUME Unique(journal), NEW p \in newTransfers, NEW q \in newTransfers,
                    journal[p[1]][p[2]].t.id = journal[q[1]][q[2]].t.id
             PROVE  p = q
  BY DEF UniqueTransferIDs
<1>1. ASSUME NEW z \in newTransfers PROVE z = <<z[1], z[2]>> /\ NewAt(journal, z[1], z[2])
  <2>1. PICK k \in DOMAIN journal : z \in {k} \X DOMAIN journal[k]
    BY <1>1 DEF newTransfers
  <2>2. PICK D : D = DOMAIN journal[k]
    OBVIOUS
  <2>3. z \in {k} \X D
    BY <2>1, <2>2
  <2>4. z = <<z[1], z[2]>> /\ z[1] = k /\ z[2] \in D
    BY SMTT(30), <2>3
  <2>5. /\ journal[z[1]][z[2]].type = "transfer"
        /\ ~isPost(journal[z[1]][z[2]].t) /\ ~isVoid(journal[z[1]][z[2]].t)
    BY <1>1 DEF newTransfers
  <2> QED
    BY <2>2, <2>4, <2>5 DEF NewAt, isNew
<1>2. PICK a, b, c, d : a = p[1] /\ b = p[2] /\ c = q[1] /\ d = q[2]
  OBVIOUS
<1>3. p = <<a, b>> /\ q = <<c, d>> /\ NewAt(journal, a, b) /\ NewAt(journal, c, d)
  BY <1>1, <1>2
<1>4. journal[a][b].t.id = journal[c][d].t.id
  BY <1>2
<1>5. a = c /\ b = d
  BY <1>3, <1>4 DEF Unique
<1> QED
  BY <1>3, <1>5

\* Journal j2 is j with batch r behind it.
Grown(j, r, j2) ==
  /\ j2 \in Seq(Seq(Record) \ {<<>>}) /\ Len(j2) = Len(j) + 1 /\ Len(j) \in Nat
  /\ j2[Len(j) + 1] = r /\ \A k \in 1 .. Len(j) : j2[k] = j[k]

\* That is what an append does.
LEMMA Grows ==
  ASSUME NEW j \in Seq(Seq(Record) \ {<<>>}), NEW r \in Seq(Record) \ {<<>>}, NEW j2, j2 = Append(j, r)
  PROVE  Grown(j, r, j2)
BY SMTT(30), Appended DEF Grown

\* Appending a batch without plain and pending transfers changes nothing.
LEMMA AppendedAccounts ==
  ASSUME NEW j \in Seq(Seq(Record) \ {<<>>}), NEW r \in Seq(Record) \ {<<>>}, NEW j2, Grown(j, r, j2),
         \A l \in DOMAIN r : r[l].type = "account", NEW T, Unique(j), Listed(j, T)
  PROVE  Unique(j2) /\ Listed(j2, T)
<1>1. /\ j2 \in Seq(Seq(Record) \ {<<>>}) /\ Len(j2) = Len(j) + 1 /\ Len(j) \in Nat
      /\ j2[Len(j) + 1] = r /\ \A k \in 1 .. Len(j) : j2[k] = j[k]
  BY DEF Grown
<1>2. DOMAIN j2 = 1 .. (Len(j) + 1) /\ DOMAIN j = 1 .. Len(j)
  BY SMTT(30), <1>1
<1>3. ASSUME NEW k, NEW l, NewAt(j2, k, l) PROVE NewAt(j, k, l) /\ j2[k][l] = j[k][l]
  <2>1. k \in 1 .. (Len(j) + 1) /\ l \in DOMAIN j2[k] /\ j2[k][l].type = "transfer" /\ isNew(j2[k][l].t)
    BY <1>2, <1>3 DEF NewAt
  <2>2. k # Len(j) + 1
    BY <1>1, <2>1
  <2>3. k \in 1 .. Len(j) /\ j2[k] = j[k]
    BY SMTT(30), <1>1, <2>1, <2>2
  <2> QED
    BY <1>2, <2>1, <2>3 DEF NewAt
<1>4. Listed(j2, T)
  <2> SUFFICES ASSUME NEW k, NEW l, NewAt(j2, k, l) PROVE j2[k][l].t.id \in T
    BY DEF Listed
  <2> QED
    BY <1>3 DEF Listed
<1>5. Unique(j2)
  <2> SUFFICES ASSUME NEW k, NEW l, NEW k2, NEW l2, NewAt(j2, k, l), NewAt(j2, k2, l2), j2[k][l].t.id = j2[k2][l2].t.id
               PROVE  k = k2 /\ l = l2
    BY DEF Unique
  <2>1. NewAt(j, k, l) /\ NewAt(j, k2, l2) /\ j[k][l].t.id = j[k2][l2].t.id
    BY <1>3
  <2> QED
    BY <2>1 DEF Unique
<1> QED
  BY <1>4, <1>5

\* Appending what passed of a batch with IDs of its own keeps them unique.
LEMMA AppendedTransfers ==
  ASSUME NEW j \in Seq(Seq(Record) \ {<<>>}), NEW r \in Seq(Record) \ {<<>>}, NEW j2, Grown(j, r, j2),
         NEW ev \in Seq(Transfer), NEW out, NEW K, K = {k \in DOMAIN ev : out[k] = OK},
         NEW recs \in Seq(Record), Len(recs) = Len(ev), \A k \in DOMAIN ev : recs[k] = transferRecord(ev[k]),
         Picks(recs, K, Len(ev), r), NEW T, Fresh(ev, out, 1, Len(ev), T), Unique(j), Listed(j, T)
  PROVE  Unique(j2) /\ Listed(j2, T \cup waitingIds(ev, out, 1))
<1>1. /\ j2 \in Seq(Seq(Record) \ {<<>>}) /\ Len(j2) = Len(j) + 1 /\ Len(j) \in Nat
      /\ j2[Len(j) + 1] = r /\ \A k \in 1 .. Len(j) : j2[k] = j[k]
  BY DEF Grown
<1>2. DOMAIN j2 = 1 .. (Len(j) + 1) /\ DOMAIN j = 1 .. Len(j) /\ DOMAIN ev = 1 .. Len(ev)
  BY SMTT(30), <1>1
<1>3. PICK len, pos : PicksAt(recs, K, Len(ev), r, len, pos)
  BY DEF Picks
<1>4. /\ len \in Nat /\ DOMAIN r = 1 .. len
      /\ \A a \in 1 .. len : pos[a] \in 1 .. Len(ev) /\ pos[a] \in K /\ r[a] = recs[pos[a]]
      /\ \A a, b \in 1 .. len : a < b => pos[a] < pos[b]
  BY <1>3 DEF PicksAt
<1>5. \A a \in 1 .. len : out[pos[a]] = OK /\ r[a].t = ev[pos[a]]
  <2> SUFFICES ASSUME NEW a \in 1 .. len PROVE out[pos[a]] = OK /\ r[a].t = ev[pos[a]]
    OBVIOUS
  <2>1. PICK b : b = pos[a]
    OBVIOUS
  <2>2. b \in DOMAIN ev /\ b \in K /\ r[a] = recs[b]
    BY <1>2, <1>4, <2>1
  <2>3. recs[b] = transferRecord(ev[b]) /\ out[b] = OK
    BY <2>2
  <2> QED
    BY SMTT(30), <2>1, <2>2, <2>3 DEF transferRecord
<1>6. ASSUME NEW k, NEW l, NewAt(j2, k, l)
      PROVE  \/ NewAt(j, k, l) /\ j2[k][l] = j[k][l]
             \/ /\ k = Len(j) + 1 /\ l \in 1 .. len /\ j2[k][l] = r[l]
                /\ pos[l] \in 1 .. Len(ev) /\ newPassed(ev, out, pos[l]) /\ r[l].t.id = ev[pos[l]].id
  <2>1. k \in 1 .. (Len(j) + 1) /\ l \in DOMAIN j2[k] /\ j2[k][l].type = "transfer" /\ isNew(j2[k][l].t)
    BY <1>2, <1>6 DEF NewAt
  <2>2. CASE k = Len(j) + 1
    <3>1. j2[k] = r /\ l \in 1 .. len
      BY <1>1, <1>4, <2>1, <2>2
    <3> QED
      BY <1>4, <1>5, <2>1, <2>2, <3>1 DEF newPassed
  <2>3. CASE k # Len(j) + 1
    <3>1. k \in 1 .. Len(j) /\ j2[k] = j[k]
      BY SMTT(30), <1>1, <2>1, <2>3
    <3> QED
      BY <1>2, <2>1, <3>1 DEF NewAt
  <2> QED
    BY <2>2, <2>3
<1>7. Listed(j2, T \cup waitingIds(ev, out, 1))
  <2> SUFFICES ASSUME NEW k, NEW l, NewAt(j2, k, l) PROVE j2[k][l].t.id \in T \cup waitingIds(ev, out, 1)
    BY DEF Listed
  <2>1. CASE NewAt(j, k, l) /\ j2[k][l] = j[k][l]
    BY <2>1 DEF Listed
  <2>2. CASE j2[k][l] = r[l] /\ pos[l] \in 1 .. Len(ev) /\ newPassed(ev, out, pos[l]) /\ r[l].t.id = ev[pos[l]].id
    BY <2>2 DEF waitingIds
  <2> QED
    BY <1>6, <2>1, <2>2
<1>8. \A k, l : NewAt(j, k, l) => j[k][l].t.id \in T /\ k # Len(j) + 1
  BY SMTT(30), <1>1, <1>2 DEF Listed, NewAt
<1>9. \A a \in 1 .. Len(ev) : newPassed(ev, out, a) => ev[a].id \notin T
  BY DEF Fresh
<1>10. Unique(j2)
  <2> SUFFICES ASSUME NEW k, NEW l, NEW k2, NEW l2, NewAt(j2, k, l), NewAt(j2, k2, l2), j2[k][l].t.id = j2[k2][l2].t.id
               PROVE  k = k2 /\ l = l2
    BY DEF Unique
  <2> DEFINE Old(a, b) == NewAt(j, a, b) /\ j2[a][b] = j[a][b]
             Added(a, b) == /\ a = Len(j) + 1 /\ b \in 1 .. len /\ j2[a][b] = r[b]
                            /\ pos[b] \in 1 .. Len(ev) /\ newPassed(ev, out, pos[b]) /\ r[b].t.id = ev[pos[b]].id
  <2>1. (Old(k, l) \/ Added(k, l)) /\ (Old(k2, l2) \/ Added(k2, l2))
    BY <1>6
  <2>2. CASE Old(k, l) /\ Old(k2, l2)
    BY <2>2 DEF Unique
  <2>3. CASE Old(k, l) /\ Added(k2, l2)
    BY SMTT(30), <1>8, <1>9, <2>3
  <2>4. CASE Added(k, l) /\ Old(k2, l2)
    BY SMTT(30), <1>8, <1>9, <2>4
  <2>5. CASE Added(k, l) /\ Added(k2, l2)
    <3>1. pos[l] = pos[l2]
      <4>1. PICK a, b : a = pos[l] /\ b = pos[l2]
        OBVIOUS
      <4>2. a \in 1 .. Len(ev) /\ b \in 1 .. Len(ev) /\ newPassed(ev, out, a) /\ newPassed(ev, out, b)
        BY <2>5, <4>1
      <4>3. ev[a].id = ev[b].id
        BY <2>5, <4>1
      <4>4. a = b
        BY <4>2, <4>3 DEF Fresh
      <4> QED
        BY <4>1, <4>4
    <3>2. ~(l < l2) /\ ~(l2 < l) /\ l \in Int /\ l2 \in Int
      <4>1. l \in 1 .. len /\ l2 \in 1 .. len /\ pos[l] \in Int
        BY SMTT(30), <1>4, <2>5
      <4>2. ~(l < l2)
        BY SMTT(30), <1>4, <3>1, <4>1
      <4>3. ~(l2 < l)
        BY SMTT(30), <1>4, <3>1, <4>1
      <4> QED
        BY SMTT(30), <4>1, <4>2, <4>3
    <3> QED
      BY SMTT(30), <2>5, <3>2
  <2> QED
    BY <2>1, <2>2, <2>3, <2>4, <2>5
<1> QED
  BY <1>7, <1>10

\* At first the journal has only accounts.
LEMMA InitIds ==
  Init => IdsInv
<1> SUFFICES ASSUME Init PROVE IdsInv
  OBVIOUS
<1>1. PICK recs : recs = each(accountRecord, FirstAccounts)
  OBVIOUS
<1>2. journal = <<recs>> /\ recs = [k \in DOMAIN FirstAccounts |-> accountRecord(FirstAccounts[k])]
  BY <1>1 DEF Init, each
<1>3. \A l \in DOMAIN recs : recs[l].type = "account"
  BY <1>2 DEF accountRecord
<1>4. \A k, l : ~NewAt(journal, k, l)
  <2> SUFFICES ASSUME NEW k, NEW l, NewAt(journal, k, l) PROVE FALSE
    OBVIOUS
  <2>1. k = 1 /\ journal[k] = recs
    BY SMTT(30), <1>2 DEF NewAt
  <2> QED
    BY <1>3, <2>1 DEF NewAt
<1> QED
  BY <1>4 DEF IdsInv, Unique, Listed

\* More IDs are known.
LEMMA ListedMore ==
  ASSUME NEW j, NEW T, Listed(j, T), NEW T2, T \subseteq T2
  PROVE  Listed(j, T2)
BY DEF Listed

\* A step that adds no transfer to the journal, and applies none.
LEMMA QuietIds ==
  ASSUME IdsInv, neverCrashed' /\ ~dirty' => neverCrashed /\ ~dirty, journal' = journal, m'.transfers = m.transfers,
         unapplied \subseteq unapplied'
  PROVE  IdsInv'
<1> SUFFICES ASSUME neverCrashed', ~dirty' PROVE Unique(journal') /\ Listed(journal', m'.transfers \cup unapplied')
  BY DEF IdsInv
<1>1. Unique(journal) /\ Listed(journal, m.transfers \cup unapplied)
  BY DEF IdsInv
<1>2. m.transfers \cup unapplied \subseteq m'.transfers \cup unapplied'
  OBVIOUS
<1>3. PICK j, T, T2 : j = journal /\ T = m.transfers \cup unapplied /\ T2 = m'.transfers \cup unapplied'
  OBVIOUS
<1>4. Listed(j, T2)
  BY <1>1, <1>2, <1>3, ListedMore
<1> QED
  BY <1>1, <1>3, <1>4

\* Journal appends the transfers that passed.
LEMMA JournalIds ==
  ASSUME LoopInv, RunInv, IdsInv, Journal
  PROVE  IdsInv'
<1> LoopState
  BY DEF LoopInv
<1> SUFFICES ASSUME neverCrashed', ~dirty' PROVE Unique(journal') /\ Listed(journal', m'.transfers \cup unapplied')
  BY DEF IdsInv
<1>1. neverCrashed /\ ~dirty /\ m' = m /\ phase = "validate" /\ phase' = "apply" /\ events' = events /\ outcomes' = outcomes /\ i' = 1
  BY DEF neverCrashed, Journal, manager
<1>2. PICK j, j2, ev, out, T, K : j = journal /\ j2 = journal' /\ ev = events /\ out = outcomes /\ T = m.transfers /\ K = passed
  OBVIOUS
<1>3. Unique(j) /\ Listed(j, T)
  <2>1. unapplied = {}
    BY <1>1 DEF unapplied
  <2>2. m.transfers \cup unapplied = T
    BY <1>2, <2>1
  <2> QED
    BY <1>1, <1>2, <2>2 DEF IdsInv
<1>4. unapplied' = waitingIds(ev, out, 1)
  BY <1>1, <1>2 DEF unapplied
<1>5. Unique(j2) /\ Listed(j2, T \cup waitingIds(ev, out, 1))
  <2>1. CASE K = {}
    <3>1. j2 = j
      BY <1>2, <2>1 DEF Journal
    <3>2. T \subseteq T \cup waitingIds(ev, out, 1)
      OBVIOUS
    <3> QED
      BY <1>3, <3>1, <3>2, ListedMore
  <2>2. CASE K # {}
    <3>1. ev \in Seq(Transfer) /\ K = {k \in DOMAIN ev : out[k] = OK}
      BY <1>2 DEF LoopState, BatchOK, passed
    <3>2. PICK r, recs : r = makeWALRecords /\ recs = each(transferRecord, ev)
      OBVIOUS
    <3>3. r \in Seq(Record) \ {<<>>} /\ Picks(recs, K, Len(ev), r)
      BY <1>2, <2>2, <3>1, <3>2, RecordsMade
    <3>4. recs \in Seq(Record) /\ Len(recs) = Len(ev) /\ \A k \in DOMAIN ev : recs[k] = transferRecord(ev[k])
      BY <3>1, <3>2, TransferRecords
    <3>5. j2 = Append(j, r) /\ j \in Seq(Seq(Record) \ {<<>>})
      BY <1>2, <2>2, <3>2 DEF Journal, LoopState, DiskOK
    <3>6. i - 1 = Len(ev)
      BY SMTT(30), <1>1, <1>2, <3>1 DEF Journal, LoopState, BatchOK, ValidateOK
    <3>7. Fresh(ev, out, 1, Len(ev), T)
      BY <1>1, <1>2, <3>6 DEF RunInv, BatchIds
    <3>8. Grown(j, r, j2)
      BY <3>3, <3>5, Grows
    <3> QED
      BY <1>3, <3>1, <3>3, <3>4, <3>5, <3>7, <3>8, AppendedTransfers
  <2> QED
    BY <2>1, <2>2
<1> QED
  BY <1>1, <1>2, <1>4, <1>5

\* processAccountCreate appends accounts.
LEMMA ProcessAccountCreateIds ==
  ASSUME LoopInv, IdsInv, processAccountCreate
  PROVE  IdsInv'
<1> LoopState
  BY DEF LoopInv
<1> SUFFICES ASSUME neverCrashed', ~dirty' PROVE Unique(journal') /\ Listed(journal', m'.transfers \cup unapplied')
  BY DEF IdsInv
<1>1. neverCrashed /\ ~dirty /\ phase = "idle" /\ phase' = "idle"
  BY DEF neverCrashed, processAccountCreate
<1>2. unapplied = {} /\ unapplied' = {}
  BY <1>1 DEF unapplied
<1>3. Manager(m)
  BY <1>1 DEF LoopState, ManagerOK
<1>4. PICK accounts \in AccountBatches :
         /\ creatable(accounts) # <<>>
         /\ journal' = Append(journal, each(accountRecord, creatable(accounts)))
         /\ m' = [m EXCEPT !.acc = createAll(m.acc, creatable(accounts))]
  BY DEF processAccountCreate
<1>5. m'.transfers = m.transfers
  BY <1>3, <1>4 DEF Manager
<1>6. PICK j, j2, T, recs : j = journal /\ j2 = journal' /\ T = m.transfers \cup unapplied /\ recs = creatable(accounts)
  OBVIOUS
<1>7. PICK r : r = each(accountRecord, recs)
  OBVIOUS
<1>8. r \in Seq(Record) \ {<<>>} /\ j2 = Append(j, r) /\ j \in Seq(Seq(Record) \ {<<>>})
  BY <1>4, <1>6, <1>7, CreatableRecords DEF LoopState, DiskOK
<1>9. \A l \in DOMAIN r : r[l].type = "account"
  BY <1>7 DEF each, accountRecord
<1>10. Unique(j) /\ Listed(j, T)
  BY <1>1, <1>6 DEF IdsInv
<1>11. Grown(j, r, j2)
  BY <1>8, Grows
<1>12. Unique(j2) /\ Listed(j2, T)
  BY <1>8, <1>9, <1>10, <1>11, AppendedAccounts
<1>13. m'.transfers \cup unapplied' = T
  BY <1>2, <1>5, <1>6
<1> QED
  BY <1>6, <1>12, <1>13

\* ApplyBatch makes the ID of an event known to the manager.
LEMMA ApplyBatchIds ==
  ASSUME LoopInv, RunInv, IdsInv, ApplyBatch
  PROVE  IdsInv'
<1> SUFFICES ASSUME neverCrashed', ~dirty' PROVE Unique(journal') /\ Listed(journal', m'.transfers \cup unapplied')
  BY DEF IdsInv
<1>1. /\ neverCrashed /\ ~dirty /\ phase = "apply" /\ phase' = "apply" /\ events' = events /\ i' = i + 1 /\ journal' = journal
  BY DEF neverCrashed, ApplyBatch, disk
<1>2. PICK ev, out, n, len, t : ev = events /\ out = outcomes /\ n = i /\ len = Len(events) /\ t = events[i]
  OBVIOUS
<1>3. outcomes' = out /\ n \in 1 .. len /\ t \in Transfer
  BY <1>2, ApplyStep
<1>4. unapplied = waitingIds(ev, out, n) /\ unapplied' = waitingIds(ev, out, n + 1) /\ t = ev[n] /\ len = Len(ev)
  BY <1>1, <1>2, <1>3 DEF unapplied
<1>5. \A k \in n .. len : k = n \/ k \in (n + 1) .. len
  BY SMTT(30), <1>3
<1>6. waitingIds(ev, out, n) \subseteq waitingIds(ev, out, n + 1) \cup {t.id}
      /\ (out[n] # OK => waitingIds(ev, out, n) \subseteq waitingIds(ev, out, n + 1))
  BY <1>4, <1>5 DEF waitingIds, newPassed
<1>7. m.transfers \cup unapplied \subseteq m'.transfers \cup unapplied'
  <2>1. CASE out[n] # OK
    <3>1. m' = m
      BY <1>2, <2>1, ApplyStep
    <3> QED
      BY <1>4, <1>6, <2>1, <3>1
  <2>2. CASE out[n] = OK
    <3>1. PICK x, r : x = m /\ r = ApplyTransferState(x, t)
      OBVIOUS
    <3>2. r.err = OK /\ m' = r.m
      BY <1>2, <2>2, <3>1, ApplyStep
    <3>3. r.m.transfers = x.transfers \cup {t.id}
      <4>1. r.m = [acc |-> amountsMoved(x, t).acc, pending |-> holdsAfter(x, t),
                   orphans |-> x.orphans \cup (IF isPending(t) THEN replaced(x, t) ELSE {}),
                   transfers |-> x.transfers \cup {t.id}]
        BY <3>1, <3>2, ApplyParts
      <4>2. PICK a, h, o, d : /\ r.m = [acc |-> a, pending |-> h, orphans |-> o, transfers |-> d]
                              /\ d = x.transfers \cup {t.id}
        BY <4>1
      <4> QED
        BY SMTT(30), <4>2
    <3> QED
      BY <1>4, <1>6, <3>1, <3>2, <3>3
  <2> QED
    BY <2>1, <2>2
<1>8. PICK j, T, T2 : j = journal /\ T = m.transfers \cup unapplied /\ T2 = m'.transfers \cup unapplied'
  OBVIOUS
<1>9. Unique(j) /\ Listed(j, T)
  BY <1>1, <1>8 DEF IdsInv
<1>10. Listed(j, T2)
  BY <1>7, <1>8, <1>9, ListedMore
<1> QED
  BY <1>1, <1>8, <1>9, <1>10

\* Nothing is said of a process that crashed.
LEMMA CrashIds ==
  ASSUME LoopInv, RunInv, Crash \/ LoadSnapshot \/ ReplayAccount \/ ReplayTransfer \/ ReplayApply \/ StartLoop
  PROVE  IdsInv'
<1> LoopState
  BY DEF LoopInv
<1>1. CASE Crash
  <2>1. budget' = [next |-> budget.next, crashes |-> budget.crashes - 1, walErrors |-> budget.walErrors]
    BY <1>1 DEF Crash, LoopState, CountersOK
  <2>2. budget.crashes - 1 # MaxCrashes
    BY SMTT(30), BatchAssumption DEF LoopState, CountersOK
  <2> QED
    BY <2>1, <2>2 DEF IdsInv, neverCrashed
<1>2. CASE LoadSnapshot \/ ReplayAccount \/ ReplayTransfer \/ ReplayApply \/ StartLoop
  <2>1. budget' = budget /\ ~running
    BY <1>2 DEF LoadSnapshot, ReplayAccount, ReplayTransfer, ReplayApply, StartLoop, running
  <2> QED
    BY <2>1 DEF RunInv, IdsInv, neverCrashed
<1> QED
  BY <1>1, <1>2

\* A failed append or sync: the record is not in the log, or the log is dirty.
LEMMA FailIds ==
  ASSUME LoopInv, IdsInv, JournalFail \/ processAccountCreateFail
  PROVE  IdsInv'
<1> LoopState
  BY DEF LoopInv
<1>1. budget'.crashes = budget.crashes
  BY DEF JournalFail, processAccountCreateFail, LoopState, CountersOK
<1>2. m' = m /\ phase # "apply"
  BY DEF JournalFail, processAccountCreateFail, manager
<1>3. ~dirty' => journal' = journal /\ ~dirty
  BY DEF JournalFail, processAccountCreateFail
<1>4. CASE dirty'
  BY <1>4 DEF IdsInv
<1>5. CASE ~dirty'
  <2>1. unapplied \subseteq unapplied'
    BY <1>2 DEF unapplied
  <2> QED
    BY <1>1, <1>2, <1>3, <1>5, <2>1, QuietIds DEF neverCrashed
<1> QED
  BY <1>4, <1>5

\* Closing a hold forgets no ID.
LEMMA CloseExpiredIds ==
  ASSUME LoopInv, RunInv, IdsInv, CloseExpired
  PROVE  IdsInv'
<1> LoopState
  BY DEF LoopInv
<1>1. CASE ~neverCrashed'
  BY <1>1 DEF IdsInv
<1>2. CASE neverCrashed'
  <2>1. neverCrashed /\ dirty' = dirty /\ journal' = journal /\ phase # "apply"
    BY <1>2 DEF neverCrashed, CloseExpired, disk
  <2>2. running /\ HoldsOK(m)
    BY <2>1 DEF RunInv
  <2>3. Manager(m)
    BY <2>2 DEF LoopState, ManagerOK, running
  <2>4. PICK x, c : x = m /\ c = mclock
    OBVIOUS
  <2>5. PICK e \in nextExpired(x, c) : m' = expireOne(x, e).m
    BY <2>4 DEF CloseExpired
  <2>6. PICK r : r = expireOne(x, e)
    OBVIOUS
  <2>7. r.m.transfers = x.transfers
    BY <2>2, <2>3, <2>4, <2>6, ExpireHolds
  <2>8. m'.transfers = m.transfers
    BY <2>4, <2>5, <2>6, <2>7
  <2>9. unapplied \subseteq unapplied'
    BY <2>1 DEF unapplied
  <2> QED
    BY <2>1, <2>8, <2>9, QuietIds
<1> QED
  BY <1>1, <1>2

\* Every step keeps it.
LEMMA NextIds ==
  LoopInv /\ RunInv /\ IdsInv /\ [Next]_vars => IdsInv'
<1> SUFFICES ASSUME LoopInv, RunInv, IdsInv, [Next]_vars, LoopState PROVE IdsInv'
  BY DEF LoopInv
<1>1. CASE UNCHANGED vars \/ RequestSnapshotView \/ WriteSnapshot
  <2>1. UNCHANGED <<m, budget, phase, batch, journal, dirty>>
    BY <1>1 DEF vars, manager, disk, RequestSnapshotView, WriteSnapshot
  <2>2. unapplied' = unapplied
    BY <2>1 DEF unapplied, batch
  <2> QED
    BY <2>1, <2>2, QuietIds DEF neverCrashed
<1>2. CASE processBatch \/ BeginValidate \/ ValidateFail \/ ValidateDangling \/ ValidateCloseChain \/ ValidateLink
  <2>1. budget'.crashes = budget.crashes
    BY <1>2 DEF processBatch, BeginValidate, ValidateFail, ValidateDangling, ValidateCloseChain, ValidateLink, LoopState, CountersOK
  <2>2. m' = m /\ journal' = journal /\ dirty' = dirty /\ phase # "apply"
    BY <1>2 DEF processBatch, BeginValidate, ValidateFail, ValidateDangling, ValidateCloseChain, ValidateLink, manager, disk
  <2>3. unapplied \subseteq unapplied'
    BY <2>2 DEF unapplied
  <2> QED
    BY <2>1, <2>2, <2>3, QuietIds DEF neverCrashed
<1>3. CASE Acknowledge
  <2>1. m' = m /\ journal' = journal /\ dirty' = dirty /\ budget' = budget /\ i > Len(events) /\ phase = "apply"
    BY <1>3 DEF Acknowledge, manager, disk
  <2>2. events \in Seq(Transfer) /\ i \in 1 .. (Len(events) + 1)
    BY <2>1 DEF LoopState, BatchOK, ApplyOK
  <2>3. PICK e : e = Len(events)
    OBVIOUS
  <2>4. i .. e = {}
    <3>1. e \in Nat
      BY SMTT(30), <2>2, <2>3
    <3>2. i \in 1 .. (e + 1) /\ i > e
      BY <2>1, <2>2, <2>3
    <3> QED
      BY SMTT(30), <3>1, <3>2
  <2>5. unapplied = {}
    BY <2>1, <2>3, <2>4 DEF unapplied, waitingIds
  <2> QED
    BY <2>1, <2>5, QuietIds DEF neverCrashed
<1> QED
  BY <1>1, <1>2, <1>3, CloseExpiredIds, JournalIds, ApplyBatchIds, ProcessAccountCreateIds, FailIds, CrashIds DEF Next

\* As long as the process has not crashed and no failed sync left a record in
\* the log, journaled transfer IDs are unique (the duplicate checks of
\* ValidateBatch).
THEOREM IdsInvariance ==
  Spec => []IdsInv
BY InitIds, NextIds, LoopInvariance, RunInvariance, PTL DEF Spec

\* Reservations are backed: while the process has not crashed and no failed
\* sync left a record in the log, transfer IDs are unique and the pending
\* amounts of every account are the sums of its open holds.
THEOREM HoldsAreBacked ==
  Spec => [](neverCrashed /\ ~dirty => HoldsBacked)
<1>1. RunInv /\ IdsInv => (neverCrashed /\ ~dirty => HoldsBacked)
  <2> SUFFICES ASSUME RunInv, IdsInv, neverCrashed, ~dirty PROVE HoldsBacked
    OBVIOUS
  <2>1. UniqueTransferIDs
    BY UniqueIDs DEF IdsInv
  <2>2. PICK x : x = m
    OBVIOUS
  <2>3. x.orphans = {} /\ Backed(x.acc, openHolds(x.pending))
    BY <2>2 DEF RunInv, HoldsOK
  <2>4. holds(x) = openHolds(x.pending)
    BY <2>3 DEF holds, openHolds
  <2>5. \A a \in DOMAIN x.acc : /\ x.acc[a].pendingDebits = sum(amountOf, {e \in holds(x) : e.debit = a})
                               /\ x.acc[a].pendingCredits = sum(amountOf, {e \in holds(x) : e.credit = a})
    BY <2>3, <2>4 DEF Backed, heldFrom, heldFor
  <2> QED
    BY <2>1, <2>2, <2>5 DEF HoldsBacked
<1> QED
  BY <1>1, RunInvariance, IdsInvariance, PTL

=============================================================================
