----------------------------- MODULE Transfers ------------------------------
(***************************************************************************)
(* The batch validator of internal/engine/transfers.go: it runs every      *)
(* event of a batch against a staged copy of the accounts and holds before *)
(* anything is journaled.  A validator view v is a record                  *)
(*   acc, pending  the staged accounts and holds                           *)
(*   seen          transfer IDs met in this batch                          *)
(* The staged maps of the code overlay the manager's; the view is what the *)
(* overlay shows.                                                          *)
(***************************************************************************)
EXTENDS Accounts

newBatchValidator(m) == [acc |-> m.acc, pending |-> m.pending, seen |-> {}]

\* Mutant of rollbackChain: the staged state of a failed chain stays.
rollbackChainNothing(v, saved) == v

\* rollbackChain restores accounts and holds from the snapshots taken since
\* beginChain, and leaves seenIDs as they are.
rollbackChain(v, saved) == [saved EXCEPT !.seen = v.seen]

validatePost(v, t) ==
  LET hold == v.pending[t.id]
      x == settled(hold, t)
      d == v.acc[hold.debit]
      acc1 == [v.acc EXCEPT ![hold.debit].pendingDebits = @ - x, ![hold.debit].postedDebits = @ + x]
      c == acc1[hold.credit]
      acc2 == [acc1 EXCEPT ![hold.credit].pendingCredits = @ - x, ![hold.credit].postedCredits = @ + x]
  IN  IF d.pendingDebits < x THEN [v |-> v, err |-> "ErrInvariantViolation"]
      ELSE IF d.postedDebits + x > MaxUint THEN [v |-> v, err |-> "ErrBalanceOverflow"]
      ELSE IF c.pendingCredits < x THEN [v |-> v, err |-> "ErrInvariantViolation"]
      ELSE IF c.postedCredits + x > MaxUint THEN [v |-> v, err |-> "ErrBalanceOverflow"]
      ELSE [v |-> [v EXCEPT !.acc = acc2, !.pending = settle(v.pending, t)], err |-> OK]

validateVoid(v, t) ==
  LET hold == v.pending[t.id]
      acc1 == [v.acc EXCEPT ![hold.debit].pendingDebits = @ - hold.amount]
      acc2 == [acc1 EXCEPT ![hold.credit].pendingCredits = @ - hold.amount]
  IN  IF v.acc[hold.debit].pendingDebits < hold.amount THEN [v |-> v, err |-> "ErrInvariantViolation"]
      ELSE IF acc1[hold.credit].pendingCredits < hold.amount THEN [v |-> v, err |-> "ErrInvariantViolation"]
      ELSE [v |-> [v EXCEPT !.acc = acc2, !.pending = without(v.pending, t.id)], err |-> OK]

\* A post or a void names its hold by transfer ID.
validateSettlement(v, t) ==
  IF t.id \notin DOMAIN v.pending THEN [v |-> v, err |-> "ErrPendingNotFound"]
  ELSE LET hold == v.pending[t.id] IN
       IF t.ledger # 0 /\ t.ledger # hold.ledger THEN [v |-> v, err |-> "ErrLedgerMismatch"]
       ELSE IF isPost(t) /\ t.amount > hold.amount THEN [v |-> v, err |-> "ErrOverTransfer"]
       ELSE IF {hold.debit, hold.credit} \ DOMAIN v.acc # {} THEN [v |-> v, err |-> "ErrAccountNotFound"]
       ELSE IF isPost(t) THEN validatePost(v, t)
       ELSE validateVoid(v, t)

validateHold(v, t) ==
  LET d == v.acc[t.debit]
      c == v.acc[t.credit]
  IN  IF availableErr(d) # OK THEN [v |-> v, err |-> availableErr(d)]
      ELSE IF AvailableBalance(d) < t.amount THEN [v |-> v, err |-> "ErrInsufficientFunds"]
      ELSE IF d.pendingDebits + t.amount > MaxUint \/ c.pendingCredits + t.amount > MaxUint
      THEN [v |-> v, err |-> "ErrBalanceOverflow"]
      ELSE [v |-> [v EXCEPT !.acc = [v.acc EXCEPT ![t.debit].pendingDebits = @ + t.amount,
                                                  ![t.credit].pendingCredits = @ + t.amount],
                            !.pending = with(@, t.id, t)],
            err |-> OK]

validatePlain(v, t) ==
  LET d == v.acc[t.debit]
      c == v.acc[t.credit]
  IN  IF balanceErr(d) # OK THEN [v |-> v, err |-> balanceErr(d)]
      ELSE IF Balance(d) < t.amount THEN [v |-> v, err |-> "ErrInsufficientFunds"]
      ELSE IF d.postedDebits + t.amount > MaxUint \/ c.postedCredits + t.amount > MaxUint
      THEN [v |-> v, err |-> "ErrBalanceOverflow"]
      ELSE [v |-> [v EXCEPT !.acc = [v.acc EXCEPT ![t.debit].postedDebits = @ + t.amount,
                                                  ![t.credit].postedCredits = @ + t.amount]],
            err |-> OK]

validateStructure(acc, t) ==
  IF t.amount = 0 THEN "ErrZeroAmount"
  ELSE IF t.debit = t.credit THEN "ErrSelfTransfer"
  ELSE IF {t.debit, t.credit} \ DOMAIN acc # {} THEN "ErrAccountNotFound"
  ELSE LET d == acc[t.debit]  c == acc[t.credit] IN
       IF d.currency # c.currency THEN "ErrCurrencyMismatch"
       ELSE IF d.ledger # t.ledger \/ c.ledger # t.ledger THEN "ErrLedgerMismatch"
       ELSE IF "frozen" \in d.flags THEN "ErrAccountFrozen"
       ELSE IF "closed" \in d.flags THEN "ErrAccountClosed"
       ELSE IF "frozen" \in c.flags THEN "ErrAccountFrozen"
       ELSE IF "closed" \in c.flags THEN "ErrAccountClosed"
       ELSE OK

\* recorded: the IDs the account manager has recorded.  The ID counts as seen
\* from here on, whatever becomes of the transfer.
validateAndApply(v, t, recorded) ==
  IF badFlags(t) THEN [v |-> v, err |-> "ErrInvalidTransferFlags"]
  ELSE IF isPost(t) \/ isVoid(t) THEN validateSettlement(v, t)
  ELSE IF t.id \in v.seen \cup recorded THEN [v |-> v, err |-> "ErrDuplicateTransferID"]
  ELSE LET w == [v EXCEPT !.seen = @ \cup {t.id}]
           err == validateStructure(v.acc, t)
       IN  IF err # OK THEN [v |-> w, err |-> err]
           ELSE IF isPending(t) THEN validateHold(w, t)
           ELSE validatePlain(w, t)

=============================================================================
