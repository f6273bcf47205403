---------------------------- MODULE MCEventLoop -----------------------------
(* Instances of EventLoop for TLC. *)
EXTENDS EventLoop

account(id, credits, flags) ==
  [id |-> id,
   a |-> [ledger |-> 1, currency |-> "usd", flags |-> flags,
          postedDebits |-> 0, postedCredits |-> credits,
          pendingDebits |-> 0, pendingCredits |-> 0]]

transfer(id, debit, credit, amount, timeout, flags) ==
  [id |-> id, debit |-> debit, credit |-> credit, amount |-> amount,
   ledger |-> 1, timeout |-> timeout, flags |-> flags, timestamp |-> 0]

post(id, amount) == transfer(id, "-", "-", amount, 0, {"post"})
void(id) == transfer(id, "-", "-", 0, 0, {"void"})
hold(id, debit, credit, amount, timeout) == transfer(id, debit, credit, amount, timeout, {"pending"})
plain(id, debit, credit, amount) == transfer(id, debit, credit, amount, 0, {})
linked(t) == [t EXCEPT !.flags = @ \cup {"linked"}]

upTo(n, S) == UNION {[1 .. k -> S] : k \in 1 .. n}

\* The wall clock moves on between batches, by less or by more than a timeout.
Forward == {1, 3}

\* It may also be set back, under a running loop or over a restart.
BackAndForth == {3, 0 - 2}

\* One account for every structural check, and amounts near the limit.
AllAccounts ==
  <<account("a", 5, {}), account("b", 3, {}), account("f", 3, {"frozen"}), account("c", 3, {"closed"}),
    [account("e", 3, {}) EXCEPT !.a.currency = "eur"],
    [account("l", 3, {}) EXCEPT !.a.ledger = 2]>>
TwoAccounts == SubSeq(AllAccounts, 1, 2)

\* Holds, settlements and plain transfers that compete for the same funds.
Competing ==
  {hold(1, "a", "b", 3, 2), hold(2, "a", "b", 3, 0), hold(1, "a", "b", 5, 0),
   post(1, 0), post(1, 1), void(1), post(2, 1), plain(3, "a", "b", 3), plain(2, "b", "a", 1)}

\* One transfer for every check that is not about funds.
Malformed ==
  {plain(4, "a", x, 1) : x \in {"a", "f", "c", "e", "l", "none"}}
  \cup {plain(4, x, "b", 1) : x \in {"f", "c", "none"}}
  \cup {plain(4, "a", "b", 0), hold(4, "a", "b", 0, 0), post(1, 6), [void(1) EXCEPT !.ledger = 2]}
  \cup {[plain(4, "a", "b", 1) EXCEPT !.flags = x] :
          x \in {{"unknown"}, {"post", "void"}, {"post", "pending"}, {"void", "pending"}}}

\* Transfers for chains, which share funds, holds and IDs.
Chained ==
  {plain(3, "a", "b", 3), hold(2, "b", "a", 5, 0), post(2, 1), plain(4, "b", "a", 6)}

Chains ==
  LET any == Chained \cup {linked(t) : t \in Chained}
  IN  upTo(2, any) \cup {<<linked(x), y, z>> : x \in Chained, y \in any, z \in any}

\* A first batch that opens holds, then any short batch or any short chain.
BatchRun ==
  <<{<<hold(1, "a", "b", 3, 2)>>, <<hold(1, "a", "b", 5, 0)>>, <<plain(2, "b", "a", 1)>>,
      <<plain(3, "a", "b", 3)>>, <<hold(1, "a", "b", 3, 2), hold(2, "a", "b", 2, 0)>>},
    upTo(2, Competing) \cup {<<x, plain(3, "a", "b", 3)>> : x \in Malformed} \cup Chains>>

\* Holds with deadlines, their settlements, plain transfers and accounts, for
\* recovery.  One timeout is beyond int64.
Opening ==
  {<<hold(1, "a", "b", 5, 2)>>, <<hold(2, "a", "b", 3, 0)>>, <<hold(1, "a", "b", 5, 2), post(1, 2)>>,
   <<hold(1, "a", "b", 3, 20), post(1, 0)>>}
Following ==
  {<<hold(2, "a", "b", 3, 0)>>, <<post(1, 2)>>, <<void(1)>>, <<post(2, 0)>>,
   <<post(1, 3), plain(3, "a", "b", 2)>>}
Last == {<<post(1, 2)>>, <<post(2, 0)>>, <<hold(4, "b", "a", 1, 2), post(4, 0)>>}
RecoveryRun == <<Opening, Following, Last>>
LaterAccounts == {<<account("n", 0, {}), account("n", 1, {}), account("a", 0, {})>>}
NoAccounts == {}

=============================================================================
