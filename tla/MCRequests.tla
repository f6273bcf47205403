----------------------------- MODULE MCRequests -----------------------------
(* Constants of Requests for TLC. *)
EXTENDS Requests, TLC

CONSTANTS call, retry, batch

K1 == <<"k1", 5>>
K2 == <<"k2", 32>>

\* A call through the REST server, which prefers its header, its retry through
\* the gRPC server, and a REST batch that ends with their key behind a key of its
\* own, its repetition and no key.
Calls == {call, retry}
ContendedNames == Calls \cup {batch}
Contended ==
  [r \in ContendedNames |->
     IF r = batch THEN [rest |-> TRUE, header |-> NoText, texts |-> <<K2, K2, NoText, K1>>]
     ELSE [rest |-> r = call, header |-> K1, texts |-> IF r = call THEN <<K2>> ELSE <<NoText>>]]

\* The call and its retry reach the ledger with one key, and are alike from there.
Interchangeable == Permutations(Calls)

=============================================================================
