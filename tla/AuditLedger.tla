----------------------------- MODULE AuditLedger -----------------------------
(***************************************************************************)
(* The offline auditor (internal/audit/audit.go), its replay of the        *)
(* records: an independent, simpler state machine of balances and holds,   *)
(* on the low words of the amounts only, without expiry.                   *)
(*                                                                         *)
(* Records are those of EventLoop.  Their transfers have no idempotency    *)
(* key, so the auditor's check of keys is left out.                        *)
(***************************************************************************)
EXTENDS Accounts, Sequences, FiniteSetsExt

\* What the auditor keeps: balances, transferIDs, pendingTransfers, the credits
\* injected per ledger, and the kinds of violations found.
nothing ==
  LET none == [x \in {} |-> 0]
  IN  [bal |-> none, ids |-> {}, pend |-> none, injected |-> none, found |-> {}]

lo(amount) == words(amount).lo

report(s, kind, bad) == IF bad THEN [s EXCEPT !.found = @ \cup {kind}] ELSE s

\* Move x from one account to another, where the auditor knows them.
moved(s, debit, credit, x) ==
  [s EXCEPT !.bal = [a \in DOMAIN @ |->
     [@[a] EXCEPT !.debits = IF a = debit THEN (@ + x) % Base ELSE @,
                  !.credits = IF a = credit THEN (@ + x) % Base ELSE @]]]

\* Mutant of auditPost: the hold is closed by its first post.
auditPostOnce(s, t) ==
  LET held == s.pend[t.id]
      x == IF lo(t.amount) > 0 THEN lo(t.amount) ELSE held.amount
  IN  IF t.id \notin DOMAIN s.pend \/ x > held.amount THEN report(s, "conservation", TRUE)
      ELSE [moved(s, held.debit, held.credit, x) EXCEPT !.pend = without(@, t.id)]

auditPost(s, t) ==
  LET held == s.pend[t.id]
      x == IF lo(t.amount) > 0 THEN lo(t.amount) ELSE held.amount
  IN  IF t.id \notin DOMAIN s.pend \/ x > held.amount THEN report(s, "conservation", TRUE)
      ELSE [moved(s, held.debit, held.credit, x) EXCEPT
              !.pend = IF x = held.amount THEN without(@, t.id) ELSE [@ EXCEPT ![t.id].amount = @ - x]]

auditVoid(s, t) ==
  IF t.id \notin DOMAIN s.pend THEN report(s, "conservation", TRUE)
  ELSE [s EXCEPT !.pend = without(@, t.id)]

\* Accounts the auditor does not know, or of another ledger than the transfer.
misdirected(s, t) ==
  \/ {t.debit, t.credit} \ DOMAIN s.bal # {}
  \/ s.bal[t.debit].ledger # t.ledger \/ s.bal[t.credit].ledger # t.ledger

\* A pending or a plain transfer.
auditNew(s, t) ==
  LET known == report(report(s, "conservation", misdirected(s, t)), "duplicate_idempotency_key", t.id \in s.ids)
      paid == IF isPending(t) THEN known ELSE moved(known, t.debit, t.credit, lo(t.amount))
  IN  [paid EXCEPT !.ids = @ \cup {t.id},
                   !.pend = IF isPending(t) /\ t.id \notin s.ids
                            THEN with(@, t.id, [debit |-> t.debit, credit |-> t.credit, amount |-> lo(t.amount)])
                            ELSE @]

auditTransfer(s, t) ==
  CASE isPost(t) -> auditPost(s, t)
    [] isVoid(t) -> auditVoid(s, t)
    [] OTHER -> auditNew(s, t)

\* The first record of an account injects its balance.
auditAccount(s, id, a) ==
  LET c == lo(a.postedCredits)
      d == lo(a.postedDebits)
      before == IF a.ledger \in DOMAIN s.injected THEN s.injected[a.ledger] ELSE 0
  IN  IF id \in DOMAIN s.bal THEN s
      ELSE [report(s, "conservation", d > c) EXCEPT
              !.bal = with(@, id, [credits |-> c, debits |-> d, ledger |-> a.ledger]),
              !.injected = with(@, a.ledger, (before + c - d) % Base)]

auditRecord(s, r) ==
  IF r.type = "transfer" THEN auditTransfer(s, r.t) ELSE auditAccount(s, r.id, r.a)

overdrawn(s) == {a \in DOMAIN s.bal : s.bal[a].debits > s.bal[a].credits}

\* The final checks: no balance is negative, and each ledger holds what account
\* creation injected.
auditEnd(s) ==
  LET net(a) == s.bal[a].credits - s.bal[a].debits
      total(l) == MapThenSumSet(net, {a \in DOMAIN s.bal \ overdrawn(s) : s.bal[a].ledger = l}) % Base
  IN  report(s, "conservation", overdrawn(s) # {} \/ \E l \in DOMAIN s.injected : total(l) # s.injected[l])

\* The records of all batches of a journal, in order.
AuditReplay(journal) ==
  LET inBatch(s, b) ==
        LET upTo[k \in 0 .. Len(b)] == IF k = 0 THEN s ELSE auditRecord(upTo[k - 1], b[k]) IN upTo[Len(b)]
      batches[n \in 0 .. Len(journal)] == IF n = 0 THEN nothing ELSE inBatch(batches[n - 1], journal[n])
  IN  auditEnd(batches[Len(journal)])

=============================================================================
