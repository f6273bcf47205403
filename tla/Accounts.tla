------------------------------ MODULE Accounts ------------------------------
(***************************************************************************)
(* The ledger's state machine as pure operators: the account manager       *)
(* (internal/engine/accounts.go) and the staged batch validator            *)
(* (internal/engine/transfers.go) over the types of internal/core.         *)
(*                                                                         *)
(* An account manager is a record                                          *)
(*   acc        existing accounts, by ID                                   *)
(*   pending    open holds, by transfer ID                                 *)
(*   orphans    holds still in the expiry heap that the map lost           *)
(*   transfers  IDs of recorded transfers                                  *)
(* and a validator view is a record [acc, pending, seen].  The expiry heap *)
(* is the timed part of pending together with the orphans.                 *)
(***************************************************************************)
EXTENDS Integers, Uint128, FiniteSetsExt

CONSTANTS
  IntHalf    \* 2^63: int64 ranges over -IntHalf .. IntHalf - 1

ASSUME IntHalfAssumption == IntHalf \in Nat \ {0}

OK == "ok"

\* The largest Uint128.  Amounts are the numbers their words stand for, with the
\* errors of Add and Sub at the ends of the range.
MaxUint == Base * Base - 1

\* Conversion of an integer to int64, two's complement.
Int64(x) == ((x + IntHalf) % (2 * IntHalf)) - IntHalf

-----------------------------------------------------------------------------
(* core: accounts and transfers *)

Amount == 0 .. MaxUint
Account ==
  [ledger : Nat, currency : STRING, flags : SUBSET STRING,
   postedDebits : Amount, postedCredits : Amount, pendingDebits : Amount, pendingCredits : Amount]
Transfer ==
  [id : Nat, debit : STRING, credit : STRING, amount : Amount, ledger : Nat, timeout : Nat,
   flags : SUBSET STRING, timestamp : Int]

\* An account as the servers of internal/api make it: with the credits of the
\* request, and all other amounts zero.
NewAccount ==
  {a \in Account : a.postedDebits = 0 /\ a.pendingDebits = 0 /\ a.pendingCredits = 0}

balanceErr(a) ==
  IF a.postedCredits < a.postedDebits THEN "ErrInvariantViolation" ELSE OK

Balance(a) == a.postedCredits - a.postedDebits

availableErr(a) ==
  IF balanceErr(a) # OK THEN balanceErr(a)
  ELSE IF Balance(a) < a.pendingDebits THEN "ErrInvariantViolation"
  ELSE IF Balance(a) - a.pendingDebits + a.pendingCredits > MaxUint THEN "ErrBalanceOverflow"
  ELSE OK

AvailableBalance(a) == Balance(a) - a.pendingDebits + a.pendingCredits

isPost(t) == "post" \in t.flags
isVoid(t) == "void" \in t.flags
isPending(t) == "pending" \in t.flags
isLinked(t) == "linked" \in t.flags

badFlags(t) ==
  \/ "unknown" \in t.flags
  \/ isPost(t) /\ (isPending(t) \/ isVoid(t))
  \/ isVoid(t) /\ isPending(t)

\* What a transfer settles of an open hold: the whole hold for a void or a
\* post of amount 0.
settled(hold, t) == IF isPost(t) /\ t.amount # 0 THEN t.amount ELSE hold.amount

timed(t) == t.timeout > 0

expires(t) == Int64(t.timestamp + Int64(t.timeout))

-----------------------------------------------------------------------------
(* AccountManager *)

\* Errors of the checks shared by plain and pending transfers, in code order.
checkStructure(acc, t) ==
  IF t.amount = 0 THEN "ErrZeroAmount"
  ELSE IF t.debit = t.credit THEN "ErrSelfTransfer"
  ELSE IF {t.debit, t.credit} \ DOMAIN acc # {} THEN "ErrAccountNotFound"
  ELSE LET d == acc[t.debit]  c == acc[t.credit] IN
       IF d.currency # c.currency THEN "ErrCurrencyMismatch"
       ELSE IF d.ledger # t.ledger \/ c.ledger # t.ledger THEN "ErrLedgerMismatch"
       ELSE IF "frozen" \in d.flags THEN "ErrAccountFrozen"
       ELSE IF "closed" \in d.flags THEN "ErrAccountClosed"
       ELSE IF "frozen" \in c.flags THEN "ErrAccountFrozen"
       ELSE IF "closed" \in c.flags THEN "ErrAccountClosed"
       ELSE OK

\* A hold reserves against the available balance, a plain transfer spends
\* the posted one.
checkFunds(a, t) ==
  IF isPending(t)
  THEN IF availableErr(a) # OK THEN availableErr(a)
       ELSE IF AvailableBalance(a) < t.amount THEN "ErrInsufficientFunds" ELSE OK
  ELSE IF balanceErr(a) # OK THEN balanceErr(a)
       ELSE IF Balance(a) < t.amount THEN "ErrInsufficientFunds" ELSE OK

checkTransfer(m, t) ==
  IF badFlags(t) THEN "ErrInvalidTransferFlags"
  ELSE IF isPost(t) \/ isVoid(t)
  THEN IF t.id \notin DOMAIN m.pending THEN "ErrPendingNotFound"
       ELSE IF t.ledger # 0 /\ t.ledger # m.pending[t.id].ledger THEN "ErrLedgerMismatch"
       ELSE IF isPost(t) /\ t.amount > m.pending[t.id].amount THEN "ErrOverTransfer"
       ELSE OK
  ELSE IF checkStructure(m.acc, t) # OK THEN checkStructure(m.acc, t)
  ELSE checkFunds(m.acc[t.debit], t)

\* Mutant of movePending: the credit side posts the whole hold.
movePendingWhole(acc, hold, x) ==
  IF hold.debit \notin DOMAIN acc \/ hold.credit \notin DOMAIN acc
  THEN [acc |-> acc, err |-> "ErrAccountNotFound"]
  ELSE [acc |-> [acc EXCEPT ![hold.debit].pendingDebits = @ - x, ![hold.debit].postedDebits = @ + x,
                            ![hold.credit].pendingCredits = @ - x, ![hold.credit].postedCredits = @ + hold.amount],
        err |-> OK]

\* Mutant of movePending: the debit account's reservation is not released.
movePendingReserved(acc, hold, x) ==
  IF hold.debit \notin DOMAIN acc \/ hold.credit \notin DOMAIN acc
  THEN [acc |-> acc, err |-> "ErrAccountNotFound"]
  ELSE [acc |-> [acc EXCEPT ![hold.debit].postedDebits = @ + x,
                            ![hold.credit].pendingCredits = @ - x, ![hold.credit].postedCredits = @ + x],
        err |-> OK]

\* Each mutator returns the accounts it leaves behind and its error.  Like
\* the code it changes the debit side first and keeps that change when the
\* credit side fails.
movePending(acc, hold, x) ==
  LET d == hold.debit
      c == hold.credit
      acc1 == [acc EXCEPT ![d].pendingDebits = @ - x, ![d].postedDebits = @ + x]
      acc2 == [acc1 EXCEPT ![c].pendingCredits = @ - x, ![c].postedCredits = @ + x]
  IN  IF d \notin DOMAIN acc THEN [acc |-> acc, err |-> "ErrAccountNotFound"]
      ELSE IF acc[d].pendingDebits < x THEN [acc |-> acc, err |-> "ErrInvariantViolation"]
      ELSE IF acc[d].postedDebits + x > MaxUint THEN [acc |-> acc, err |-> "ErrBalanceOverflow"]
      ELSE IF c \notin DOMAIN acc THEN [acc |-> acc1, err |-> "ErrAccountNotFound"]
      ELSE IF acc1[c].pendingCredits < x THEN [acc |-> acc1, err |-> "ErrInvariantViolation"]
      ELSE IF acc1[c].postedCredits + x > MaxUint THEN [acc |-> acc1, err |-> "ErrBalanceOverflow"]
      ELSE [acc |-> acc2, err |-> OK]

releasePending(acc, hold) ==
  LET d == hold.debit
      c == hold.credit
      acc1 == [acc EXCEPT ![d].pendingDebits = @ - hold.amount]
      acc2 == [acc1 EXCEPT ![c].pendingCredits = @ - hold.amount]
  IN  IF d \notin DOMAIN acc THEN [acc |-> acc, err |-> "ErrAccountNotFound"]
      ELSE IF acc[d].pendingDebits < hold.amount THEN [acc |-> acc, err |-> "ErrInvariantViolation"]
      ELSE IF c \notin DOMAIN acc THEN [acc |-> acc1, err |-> "ErrAccountNotFound"]
      ELSE IF acc1[c].pendingCredits < hold.amount THEN [acc |-> acc1, err |-> "ErrInvariantViolation"]
      ELSE [acc |-> acc2, err |-> OK]

reserveAmounts(acc, t) ==
  LET acc1 == [acc EXCEPT ![t.debit].pendingDebits = @ + t.amount]
      acc2 == [acc1 EXCEPT ![t.credit].pendingCredits = @ + t.amount]
  IN  IF acc[t.debit].pendingDebits + t.amount > MaxUint THEN [acc |-> acc, err |-> "ErrBalanceOverflow"]
      ELSE IF acc1[t.credit].pendingCredits + t.amount > MaxUint THEN [acc |-> acc1, err |-> "ErrBalanceOverflow"]
      ELSE [acc |-> acc2, err |-> OK]

\* ApplyDebit asserts the posted balance after it has changed it.
postImmediate(acc, t) ==
  LET acc1 == [acc EXCEPT ![t.debit].postedDebits = @ + t.amount]
      acc2 == [acc1 EXCEPT ![t.credit].postedCredits = @ + t.amount]
  IN  IF acc[t.debit].postedDebits + t.amount > MaxUint THEN [acc |-> acc, err |-> "ErrBalanceOverflow"]
      ELSE IF balanceErr(acc1[t.debit]) # OK THEN [acc |-> acc1, err |-> balanceErr(acc1[t.debit])]
      ELSE IF acc1[t.credit].postedCredits + t.amount > MaxUint THEN [acc |-> acc1, err |-> "ErrBalanceOverflow"]
      ELSE [acc |-> acc2, err |-> OK]

without(f, k) == [x \in DOMAIN f \ {k} |-> f[x]]
with(f, k, e) == [x \in DOMAIN f \cup {k} |-> IF x = k THEN e ELSE f[x]]

\* The elements of s at the positions K, in order.
selected(s, K) ==
  LET upTo[k \in 0 .. Len(s)] ==
        IF k = 0 THEN <<>> ELSE IF k \in K THEN Append(upTo[k - 1], s[k]) ELSE upTo[k - 1]
  IN  upTo[Len(s)]

\* Create for each account of a batch: of two with one ID the first wins.
createAll(acc, accounts) ==
  LET new(id) == CHOOSE k \in DOMAIN accounts :
                   accounts[k].id = id /\ \A l \in 1 .. (k - 1) : accounts[l].id # id
      ids == {accounts[k].id : k \in DOMAIN accounts}
  IN  [x \in DOMAIN acc \cup ids |-> IF x \in DOMAIN acc THEN acc[x] ELSE accounts[new(x)].a]

\* A hold whose ID is in the map already replaces that entry; the replaced
\* entry, if timed, stays in the heap.
replaced(m, t) ==
  IF t.id \in DOMAIN m.pending /\ timed(m.pending[t.id]) THEN {m.pending[t.id]} ELSE {}

\* Mutant of settle: a partial post drops the rest of the hold.
settleWhole(pending, t) == without(pending, t.id)

\* The pending map after a post or a void: a partial post keeps the rest held.
settle(pending, t) ==
  LET hold == pending[t.id] IN
  IF isPost(t) /\ settled(hold, t) # hold.amount
  THEN [pending EXCEPT ![t.id].amount = @ - settled(hold, t)]
  ELSE without(pending, t.id)

\* The one apply path of the loop, of recovery and of followers.
ApplyTransferState(m, t) ==
  LET check == checkTransfer(m, t)
      r == IF isPost(t) THEN movePending(m.acc, m.pending[t.id], settled(m.pending[t.id], t))
           ELSE IF isVoid(t) THEN releasePending(m.acc, m.pending[t.id])
           ELSE IF isPending(t) THEN reserveAmounts(m.acc, t)
           ELSE postImmediate(m.acc, t)
      pending == IF isPost(t) \/ isVoid(t) THEN settle(m.pending, t)
                 ELSE IF isPending(t) THEN with(m.pending, t.id, t)
                 ELSE m.pending
  IN  IF check # OK THEN [m |-> m, err |-> check]
      ELSE IF r.err # OK THEN [m |-> [m EXCEPT !.acc = r.acc], err |-> r.err]
      ELSE [m |-> [acc |-> r.acc,
                   pending |-> pending,
                   orphans |-> m.orphans \cup (IF isPending(t) THEN replaced(m, t) ELSE {}),
                   transfers |-> m.transfers \cup {t.id}],
            err |-> OK]

heap(m) == {m.pending[x] : x \in {y \in DOMAIN m.pending : timed(m.pending[y])}} \cup m.orphans

expired(m, clock) == {e \in heap(m) : expires(e) <= clock}

\* The entries container/heap may hand out first: those of least deadline.
nextExpired(m, clock) ==
  {e \in expired(m, clock) : \A f \in expired(m, clock) : expires(e) <= expires(f)}

\* One iteration of CloseExpired: pop e, delete the map entry of its ID, which
\* need not be e, and release e's amounts.
expireOne(m, e) ==
  LET r == releasePending(m.acc, e)
      lost == IF e.id \in DOMAIN m.pending /\ m.pending[e.id] # e THEN replaced(m, e) ELSE {}
  IN  [m |-> [m EXCEPT !.acc = r.acc,
                       !.pending = without(m.pending, e.id),
                       !.orphans = (@ \ {e}) \cup lost],
       err |-> r.err]

-----------------------------------------------------------------------------
(* What accounts and holds add up to *)

sum(op(_), S) == MapThenSumSet(op, S)
amountOf(t) == t.amount
holds(s) == {s.pending[x] : x \in DOMAIN s.pending} \cup s.orphans
netPosted(acc) ==
  LET net(a) == acc[a].postedCredits - acc[a].postedDebits IN sum(net, DOMAIN acc)

=============================================================================
