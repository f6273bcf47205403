-------------------------------- MODULE Calls --------------------------------
(***************************************************************************)
(* The calls that reach the event loop through its control queues: reads   *)
(* (GetAccount, GetTransfer, GetAccountTransfers) and CreateAccounts of    *)
(* ledger.go, the pooled result channels of the reads (event.go), the loop *)
(* that answers them (loop.go), and Close.                                 *)
(*                                                                         *)
(* Callers are goroutines whose context may end at any time; a select with *)
(* several ready cases takes any of them.  Each kind of read has its own   *)
(* queue and pool.  An account or a transfer is its ID: what is read is    *)
(* whether it is there.  The follower's refusal of writes is left out.     *)
(***************************************************************************)
EXTENDS Naturals, Sequences, FiniteSets

CONSTANTS
  Reads,         \* the reading calls
  Kinds,         \* the kinds of read; one queue and one pool each
  Kind,          \* Kind[r]: the kind of r
  Target,        \* Target[r]: the ID r asks for
  Creates,       \* the calls of CreateAccounts
  Batch,         \* Batch[c]: the IDs c wants to create
  FirstAccounts, \* the accounts there are
  Transfers,     \* the transfers the loop may commit, as Transfers[t]: its accounts
  Channels,      \* the channels make may return
  QueueSize,     \* slots of each control queue
  Casts,         \* bound: the sets of calls one behaviour makes
  MaxCancels,    \* bound: contexts that end
  MaxWalErrors   \* bound: account batches whose append or sync fails

ASSUME KindAssumption == Kind \in [Reads -> Kinds]
ASSUME DisjointAssumption == Reads \cap Creates = {}

\* Accounts and transfers are kept in maps of their own, so an ID says which of
\* the two it is; batches are sequences.
AccountIds == FirstAccounts \cup UNION {{Batch[c][i] : i \in DOMAIN Batch[c]} : c \in Creates}
ASSUME IdAssumption ==
  /\ \A c \in Creates : Batch[c] \in Seq(AccountIds)
  /\ AccountIds \cap DOMAIN Transfers = {}
  /\ Kinds \subseteq {"account", "transfer", "history"}
  /\ \A r \in Reads : Target[r] \notin IF Kind[r] = "transfer" THEN AccountIds ELSE DOMAIN Transfers
ASSUME SizeAssumption == QueueSize \in Nat

VARIABLES
  pool,        \* pool[k]: the free channels of kind k
  made,        \* channels that exist
  buf,         \* buf[ch]: the buffered result, if any
  readQueue,   \* readQueue[k]: queued reads, [id, result]
  createQueue, \* queued calls of CreateAccounts
  pc,          \* where each call stands
  chan,        \* chan[r]: the channel r has acquired
  results,     \* results[c]: positional outcomes, once Done is closed
  accounts,    \* the loop's accounts
  transfers,   \* its transfers
  loop,        \* "serving", "abandoning", "exited"
  closing,     \* the ledger's context has ended
  durable,     \* history: accounts and transfers whose record was synced
  known,       \* history: what some call has been told exists
  floor,       \* history: what was known of Target[r] when r began
  cancels,     \* bound: contexts that may still end
  errors       \* bound: failures still allowed

channels == <<pool, made, buf, chan>>
state == <<accounts, transfers, durable>>
creating == <<createQueue, results>>
life == <<loop, closing>>
vars == <<channels, readQueue, creating, pc, state, life, known, floor, cancels, errors>>

Calls == Reads \cup Creates

Init ==
  /\ pool = [k \in Kinds |-> {}] /\ made = {} /\ buf = [ch \in Channels |-> <<>>]
  /\ readQueue = [k \in Kinds |-> <<>>] /\ createQueue = <<>>
  /\ \E cast \in Casts : pc = [c \in Calls |-> IF c \in cast THEN "idle" ELSE "returned"]
  /\ chan = [r \in Reads |-> {}]
  /\ results = [c \in Creates |-> <<>>]
  /\ accounts = FirstAccounts /\ transfers = {} /\ durable = FirstAccounts
  /\ loop = "serving" /\ closing = FALSE
  /\ known = FirstAccounts /\ floor = [r \in Reads |-> {}] /\ cancels = MaxCancels /\ errors = MaxWalErrors

goto(c, s) == pc' = [pc EXCEPT ![c] = s]

-----------------------------------------------------------------------------
(* Reads *)

\* A channel that does not exist yet; which one makes no difference.
make == IF made = Channels THEN {} ELSE {CHOOSE ch \in Channels \ made : TRUE}

\* What S says about the ID that r asks for.
about(r, S) ==
  IF Kind[r] = "history" THEN {t \in S \cap DOMAIN Transfers : Target[r] \in Transfers[t]}
  ELSE S \cap {Target[r]}

\* Get of the pool returns a free channel or makes one; the pool may have
\* dropped any channel.
AcquireReadResult(r) ==
  /\ pc[r] = "idle"
  /\ \E ch \in pool[Kind[r]] \cup make :
       /\ chan' = [chan EXCEPT ![r] = {ch}]
       /\ pool' = [pool EXCEPT ![Kind[r]] = @ \ {ch}]
       /\ made' = made \cup {ch}
  /\ floor' = [floor EXCEPT ![r] = about(r, known)]
  /\ goto(r, "queueing")
  /\ UNCHANGED <<buf, readQueue, creating, state, life, known, cancels, errors>>

release(r) == pool' = [pool EXCEPT ![Kind[r]] = @ \cup chan[r]]

\* The call returns, and its variables are gone.
returnRead(r) == goto(r, "returned") /\ chan' = [chan EXCEPT ![r] = {}] /\ floor' = [floor EXCEPT ![r] = {}]

SendRead(r) ==
  /\ pc[r] = "queueing" /\ Len(readQueue[Kind[r]]) < QueueSize
  /\ \E ch \in chan[r] :
       readQueue' = [readQueue EXCEPT ![Kind[r]] = Append(@, [id |-> Target[r], result |-> ch])]
  /\ goto(r, "waiting")
  /\ UNCHANGED <<channels, creating, state, life, known, floor, cancels, errors>>

\* The context ends first: the read was never queued.
CancelRead(r) ==
  /\ pc[r] = "queueing" /\ cancels > 0
  /\ release(r)
  /\ cancels' = cancels - 1
  /\ returnRead(r)
  /\ UNCHANGED <<made, buf, readQueue, creating, state, life, known, errors>>

\* The result is there, and the channel is drained.
ReceiveRead(r) ==
  /\ pc[r] = "waiting"
  /\ \E ch \in chan[r] :
       /\ buf[ch] # <<>>
       /\ known' = known \cup Head(buf[ch]).seen
       /\ buf' = [buf EXCEPT ![ch] = <<>>]
  /\ release(r)
  /\ returnRead(r)
  /\ UNCHANGED <<made, readQueue, creating, state, life, cancels, errors>>

\* Mutant of GiveUpRead: the channel is recycled.
GiveUpReadRelease(r) ==
  /\ pc[r] = "waiting" /\ cancels > 0
  /\ release(r)
  /\ cancels' = cancels - 1
  /\ returnRead(r)
  /\ UNCHANGED <<made, buf, readQueue, creating, state, life, known, errors>>

\* "Abandoned mid-flight: the loop may still deliver a result, so the channel
\* must not be recycled."
GiveUpRead(r) ==
  /\ pc[r] = "waiting" /\ cancels > 0
  /\ cancels' = cancels - 1
  /\ returnRead(r)
  /\ UNCHANGED <<pool, made, buf, readQueue, creating, state, life, known, errors>>

-----------------------------------------------------------------------------
(* CreateAccounts *)

SendCreate(c) ==
  /\ pc[c] = "idle" /\ Len(createQueue) < QueueSize
  /\ createQueue' = Append(createQueue, c)
  /\ goto(c, "waiting")
  /\ UNCHANGED <<channels, readQueue, results, state, life, known, floor, cancels, errors>>

CancelCreate(c) ==
  /\ pc[c] = "idle" /\ cancels > 0
  /\ cancels' = cancels - 1
  /\ goto(c, "returned")
  /\ UNCHANGED <<channels, readQueue, creating, state, life, known, floor, errors>>

ReceiveCreate(c) ==
  /\ pc[c] = "waiting" /\ results[c] # <<>>
  /\ known' = known \cup {Batch[c][i] : i \in {j \in DOMAIN Batch[c] : results[c][j] \in {"ok", "duplicate"}}}
  /\ goto(c, "returned")
  /\ UNCHANGED <<channels, readQueue, creating, state, life, floor, cancels, errors>>

\* Mutant of CreateClosed: only a batch that is done returns.
CreateClosedLate(c) ==
  /\ pc[c] = "waiting" /\ closing /\ results[c] # <<>>
  /\ goto(c, "returned")
  /\ UNCHANGED <<channels, readQueue, creating, state, life, known, floor, cancels, errors>>

\* The ledger closes: ErrLedgerClosed, whether or not the batch is done.  Once
\* queued, the batch does not look at its own context any more.
CreateClosed(c) ==
  /\ pc[c] = "waiting" /\ closing
  /\ goto(c, "returned")
  /\ UNCHANGED <<channels, readQueue, creating, state, life, known, floor, cancels, errors>>

-----------------------------------------------------------------------------
(* The loop *)

handleRead(id) == accounts \cap {id}
handleReadTransfer(id) == transfers \cap {id}
handleReadAccountTransfers(id) == {t \in transfers : id \in Transfers[t]}

lookup(k, id) ==
  CASE k = "account" -> handleRead(id)
    [] k = "transfer" -> handleReadTransfer(id)
    [] k = "history" -> handleReadAccountTransfers(id)

\* waitForWork and drainControl serve the queues in any order.  Sending on a
\* channel that is not empty would block the loop.
ServeRead(k) ==
  /\ loop = "serving" /\ readQueue[k] # <<>>
  /\ LET req == Head(readQueue[k]) IN
     /\ buf[req.result] = <<>>
     /\ buf' = [buf EXCEPT ![req.result] = <<[id |-> req.id, seen |-> lookup(k, req.id)]>>]
  /\ readQueue' = [readQueue EXCEPT ![k] = Tail(@)]
  /\ UNCHANGED <<pool, made, chan, creating, pc, state, life, known, floor, cancels, errors>>

serveCreate == loop = "serving" /\ createQueue # <<>>
finishCreate(out) ==
  /\ results' = [results EXCEPT ![Head(createQueue)] = out]
  /\ createQueue' = Tail(createQueue)
  /\ UNCHANGED <<channels, readQueue, pc, transfers, life, known, floor, cancels>>

\* The items that are journaled: what they create is not there yet.
journaled(b) == {i \in DOMAIN b : b[i] \notin accounts}

\* Mutant of createOutcomes: only the accounts from before the batch count.
createOutcomesBlind(b) == [i \in DOMAIN b |-> IF i \in journaled(b) THEN "ok" ELSE "duplicate"]

\* Of two journaled items with one ID, Create takes the first.
createOutcomes(b) ==
  [i \in DOMAIN b |->
     IF i \in journaled(b) /\ \A j \in 1 .. (i - 1) : b[j] # b[i] THEN "ok" ELSE "duplicate"]

processAccountCreate ==
  /\ serveCreate
  /\ LET b == Batch[Head(createQueue)]
         new == {b[i] : i \in journaled(b)}
     IN  /\ accounts' = accounts \cup new /\ durable' = durable \cup new
         /\ finishCreate(createOutcomes(b))
  /\ UNCHANGED errors

\* Mutant of processAccountCreateFail: the accounts are created all the same.
processAccountCreateEarly ==
  /\ serveCreate /\ errors > 0
  /\ LET b == Batch[Head(createQueue)] IN
     /\ journaled(b) # {}
     /\ accounts' = accounts \cup {b[i] : i \in journaled(b)}
     /\ finishCreate([i \in DOMAIN b |-> IF i \in journaled(b) THEN "error" ELSE "duplicate"])
  /\ errors' = errors - 1
  /\ UNCHANGED durable

\* The append or the sync fails.
processAccountCreateFail ==
  /\ serveCreate /\ errors > 0
  /\ LET b == Batch[Head(createQueue)] IN
     /\ journaled(b) # {}
     /\ finishCreate([i \in DOMAIN b |-> IF i \in journaled(b) THEN "error" ELSE "duplicate"])
  /\ errors' = errors - 1
  /\ UNCHANGED <<accounts, durable>>

\* A transfer is journaled, applied and acknowledged (EventLoop, Requests).
processBatch ==
  /\ loop = "serving"
  /\ \E t \in DOMAIN Transfers \ transfers :
       /\ transfers' = transfers \cup {t} /\ durable' = durable \cup {t}
       /\ known' = known \cup {t}
  /\ UNCHANGED <<channels, readQueue, creating, pc, accounts, life, floor, cancels, errors>>

Close ==
  /\ ~closing
  /\ closing' = TRUE
  /\ UNCHANGED <<channels, readQueue, creating, pc, state, loop, known, floor, cancels, errors>>

\* Run, or waitForWork, sees that the context has ended.
Shutdown ==
  /\ loop = "serving" /\ closing
  /\ loop' = "abandoning"
  /\ UNCHANGED <<channels, readQueue, creating, pc, state, closing, known, floor, cancels, errors>>

\* Queued account batches are answered; queued reads are not.
abandonPending ==
  /\ loop = "abandoning"
  /\ IF createQueue = <<>>
     THEN loop' = "exited" /\ UNCHANGED <<channels, readQueue, creating, pc, state, closing, known, floor, cancels, errors>>
     ELSE /\ finishCreate([i \in DOMAIN Batch[Head(createQueue)] |-> "closed"])
          /\ UNCHANGED <<accounts, durable, errors>>

-----------------------------------------------------------------------------
\* The three reads differ in their queue, their pool and what the loop looks up.
readCall(r) == AcquireReadResult(r) \/ SendRead(r) \/ CancelRead(r) \/ ReceiveRead(r) \/ GiveUpRead(r)
GetAccount(r) == Kind[r] = "account" /\ readCall(r)
GetTransfer(r) == Kind[r] = "transfer" /\ readCall(r)
GetAccountTransfers(r) == Kind[r] = "history" /\ readCall(r)
CreateAccounts(c) == SendCreate(c) \/ CancelCreate(c) \/ ReceiveCreate(c) \/ CreateClosed(c)

Control == (\E k \in Kinds : ServeRead(k)) \/ processAccountCreate \/ processAccountCreateFail
Exit == Shutdown \/ abandonPending

Next ==
  \/ \E r \in Reads : GetAccount(r) \/ GetTransfer(r) \/ GetAccountTransfers(r)
  \/ \E c \in Creates : CreateAccounts(c)
  \/ Control \/ Exit \/ processBatch \/ Close

Spec == Init /\ [][Next]_vars

\* The loop serves its queues and returns when it is told to; a goroutine whose
\* select has a ready case goes on.  Nobody has to call, cancel or close.
FairSpec ==
  /\ Spec
  /\ WF_vars(Control) /\ WF_vars(Exit)
  /\ \A r \in Reads : WF_vars(SendRead(r) \/ ReceiveRead(r))
  /\ \A c \in Creates : WF_vars(ReceiveCreate(c) \/ CreateClosed(c))

-----------------------------------------------------------------------------
(* Properties *)

\* Channels hold at most one result, queues keep their bounds, and the loop stops
\* serving only when the ledger closes.
TypeOK ==
  /\ pool \in [Kinds -> SUBSET made] /\ made \subseteq Channels
  /\ DOMAIN buf = Channels /\ \A ch \in Channels : Len(buf[ch]) <= 1
  /\ \A k \in Kinds : Len(readQueue[k]) <= QueueSize
  /\ Len(createQueue) <= QueueSize
  /\ pc \in [Calls -> {"idle", "queueing", "waiting", "returned"}]
  /\ loop \in {"serving", "abandoning", "exited"} /\ (loop # "serving" => closing)

\* What a waiting read will return is what was found for the ID it asked for, never the result that
\* an abandoned read has left in a recycled channel (the release rule of the
\* pools in event.go).
OwnAnswers == \A r \in Reads : pc[r] = "waiting" => \A ch \in chan[r] : buf[ch] # <<>> => Head(buf[ch]).id = Target[r]

\* The loop never blocks on the one slot of a result channel: a queued read, also
\* one that its caller has abandoned, finds its channel empty.
NeverBlocks == \A k \in Kinds : readQueue[k] # <<>> => buf[Head(readQueue[k]).result] = <<>>

\* Reads go through the loop and see neither too little nor too much: everything
\* that some caller knew to exist when the read began, and nothing whose record
\* is not synced.
ReadsFresh ==
  \A r \in Reads : pc[r] = "waiting" => \A ch \in chan[r] : buf[ch] # <<>> =>
    floor[r] \subseteq Head(buf[ch]).seen /\ Head(buf[ch]).seen \subseteq durable

\* The items whose call is, or will be, told that they were created.
created == {p \in UNION {{c} \X DOMAIN results[c] : c \in Creates} : results[p[1]][p[2]] = "ok"}

\* However calls and items compete for one ID, at most one is told that it has
\* created the account, the account is then durable, and one that is told of a
\* duplicate finds it there.
CreatedOnce ==
  /\ \A p, q \in created : Batch[p[1]][p[2]] = Batch[q[1]][q[2]] => p = q
  /\ \A p \in created : Batch[p[1]][p[2]] \in durable
  /\ \A c \in Creates : \A i \in DOMAIN results[c] : results[c][i] = "duplicate" => Batch[c][i] \in accounts

\* "so submitters ... observe an error instead of hanging forever.  Queued
\* account-create batches are completed the same way" (abandonPending): in the
\* end no call is left waiting, whatever happened to its neighbours and to the
\* ledger.  Excepted are the reads that are not served when the loop returns:
\* nobody answers them before their own context ends.
CallsReturn ==
  <>[](\A c \in Calls :
         \/ pc[c] \in {"idle", "returned"}
         \/ c \in Reads /\ loop = "exited" /\ \A ch \in chan[c] : buf[ch] = <<>>)

=============================================================================
