------------------------------ MODULE MCCalls -------------------------------
(* Constants of Calls for TLC. *)
EXTENDS Calls

\* Two reads of accounts share a pool; others look for a transfer and for the
\* transfers of an account.
AllReads == {"old", "new", "one", "all"}
AllKinds == {"account", "transfer", "history"}
Kinded == [r \in AllReads |-> CASE r = "one" -> "transfer" [] r = "all" -> "history" [] OTHER -> "account"]
Targets == [r \in AllReads |-> CASE r = "new" -> "n" [] r = "one" -> "t" [] OTHER -> "a"]

\* Two batches compete for one ID, one of them with itself.
Twice == [c \in {"twice", "once"} |-> IF c = "twice" THEN <<"n", "a", "n">> ELSE <<"n">>]
BothCreates == DOMAIN Twice

\* Reads that share a pool beside creations that compete, and one read of every
\* kind.
TwoCasts == {{"old", "new", "twice", "once"}, {"new", "one", "all", "once"}}

OneTransfer == [t \in {"t"} |-> {"a"}]

=============================================================================
