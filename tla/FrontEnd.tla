------------------------------ MODULE FrontEnd ------------------------------
(***************************************************************************)
(* What the gRPC and REST servers (internal/api) make of a transfer on its *)
(* way to the ledger and back: the idempotency key they derive from what   *)
(* the client sent, and the status they give to the ledger's error.        *)
(*                                                                         *)
(* A key text is a pair of its content and its length in bytes.  An error  *)
(* is the name of its Go type.  Decoding of IDs and amounts, which rejects *)
(* a request before the ledger sees it, is left out.                       *)
(***************************************************************************)
EXTENDS Naturals, Sequences

-----------------------------------------------------------------------------
(* Idempotency keys *)

NoText == <<"", 0>>

\* The zero key, and sha256.Sum256, taken to be injective and never zero.
NoKey == <<"zero">>
Sum256(text) == <<"sha256", text>>

\* A text of 32 bytes is the key (all zeros, the zero key, is not modelled).
keyOf(text) == IF text = NoText THEN NoKey ELSE IF text[2] = 32 THEN text ELSE Sum256(text)

\* IdempotencyUnaryInterceptor turns the header into the key of the context; an
\* item of CreateTransfer or CreateTransfers without a key takes that.
grpcKey(header, text) == keyOf(IF text = NoText THEN header ELSE text)

hashed(text) == IF text = NoText THEN NoKey ELSE Sum256(text)

\* Mutant of restKey: the text is cut or padded to 32 bytes, not hashed.
restKeyCut(header, text) ==
  LET t == IF header = NoText THEN text ELSE header IN IF t = NoText THEN NoKey ELSE <<t[1], 32>>

\* handleCreateTransfer: the header comes first, and everything is hashed.
restKey(header, text) == hashed(IF header = NoText THEN text ELSE header)

\* parseTransferReq, for the items of handleBatchTransfers: no header.
restBatchKey(text) == hashed(text)

\* The keys the ledger gets for a call [rest, header, texts].
ledgerKeys(call, unary) ==
  [i \in DOMAIN call.texts |->
     IF ~call.rest THEN grpcKey(call.header, call.texts[i])
     ELSE IF unary THEN restKey(call.header, call.texts[i])
     ELSE restBatchKey(call.texts[i])]

-----------------------------------------------------------------------------
(* Errors *)

\* errors.Is compares with a value.  ErrSelfTransfer carries the account's ID,
\* so the error of an account is not the empty value it is compared with.
isValue(err, value) == err = value /\ value # "ErrSelfTransfer"

\* Mutant of transferErrorStatus: an amount above the hold is not recognised.
transferErrorStatusPartial(err) ==
  IF err \in {"ErrAccountNotFound", "ErrPendingNotFound"} THEN "NotFound"
  ELSE IF err = "ErrInsufficientFunds" THEN "FailedPrecondition" ELSE "Internal"

transferErrorStatus(err) ==
  IF isValue(err, "ErrNotLeader") THEN "Unavailable"
  ELSE IF isValue(err, "ErrZeroAmount") \/ isValue(err, "ErrSelfTransfer") THEN "InvalidArgument"
  ELSE IF err \in {"ErrInvalidTransferFlags", "ErrLedgerMismatch", "ErrLinkedChainOpen"} THEN "InvalidArgument"
  ELSE IF err \in {"ErrAccountNotFound", "ErrTransferNotFound", "ErrPendingNotFound"} THEN "NotFound"
  ELSE IF err \in {"ErrInsufficientFunds", "ErrOverTransfer"} THEN "FailedPrecondition"
  ELSE IF err = "ErrLinkedChainFailed" THEN "Aborted"
  ELSE IF err = "ErrDuplicateTransferID" THEN "AlreadyExists"
  ELSE "Internal"

\* The status handleCreateTransfer writes.
transferHTTPStatus(err) ==
  IF isValue(err, "ErrNotLeader") THEN 503
  ELSE IF isValue(err, "ErrZeroAmount") \/ isValue(err, "ErrSelfTransfer") THEN 400
  ELSE IF err \in {"ErrInvalidTransferFlags", "ErrLedgerMismatch", "ErrLinkedChainOpen"} THEN 400
  ELSE IF err \in {"ErrPendingNotFound", "ErrAccountNotFound"} THEN 404
  ELSE IF err \in {"ErrOverTransfer", "ErrInsufficientFunds", "ErrLinkedChainFailed"} THEN 422
  ELSE IF err = "ErrDuplicateTransferID" THEN 409
  ELSE 500

\* The codes of the two servers that say the same to a client.
sameStatus ==
  {<<"Unavailable", 503>>, <<"InvalidArgument", 400>>, <<"NotFound", 404>>, <<"FailedPrecondition", 422>>,
   <<"Aborted", 422>>, <<"AlreadyExists", 409>>, <<"Internal", 500>>}

=============================================================================
