------------------------------- MODULE Requests ------------------------------
(***************************************************************************)
(* Client requests: CreateTransfer and CreateTransfers of ledger.go, the   *)
(* idempotency store they share (idempotency.go), and the event loop as    *)
(* they see it (event.go, loop.go): a bounded queue, and an answer for     *)
(* every event that is drained.                                            *)
(*                                                                         *)
(* A request is one call; a retry is another request with the same key,    *)
(* possibly through the other server (FrontEnd).                           *)
(* Whether a transfer passes validation is left open.                      *)
(***************************************************************************)
EXTENDS FrontEnd, FiniteSets

CONSTANTS
  Requests,      \* the calls
  Sent,          \* Sent[r]: what the client sent, [rest, header, texts]
  Unary,         \* the calls of CreateTransfer; the others are CreateTransfers
  QueueSize,     \* slots of the ring buffer
  MaxSize,       \* IdempotencyStore.maxSize
  TTL,           \* IdempotencyStore.ttl
  MaxNow,        \* bound: the clock
  MaxCancels,    \* bound: request contexts that end early
  MaxWalErrors,  \* bound: batches whose append or sync fails
  MayClose       \* whether the ledger is closed during the run

\* Items[r]: the idempotency keys of r's transfers, as the ledger gets them.
Items == [r \in Requests |-> ledgerKeys(Sent[r], r \in Unary)]

Text == STRING \X Nat

ASSUME SentAssumption == \A r \in Requests : Sent[r] \in [rest : BOOLEAN, header : Text, texts : Seq(Text)]
ASSUME ItemsAssumption == \A r \in Requests : Len(Items[r]) > 0 /\ (r \in Unary => Len(Items[r]) = 1)
ASSUME SizeAssumption == {QueueSize, MaxSize, TTL} \subseteq Nat \ {0}

Nobody == [r |-> NoKey, item |-> 0]

VARIABLES
  entries,   \* IdempotencyStore.entries
  order,     \* its list, most recently used key first
  held,      \* the store's mutex is held by a Commit that cannot finish
  now,       \* time.Now
  queue,     \* submitted events: [r, item]
  life,      \* of the ledger: "running", "closing", "closed"
  pc,        \* where each request stands
  item,      \* the item, or event, each request is at
  at,        \* the time CheckAndReserve took
  events,    \* events[r]: the items r submits
  acks,      \* acks[r]: item -> what the loop answered
  result,    \* result[r]: item -> the transfer r returns, Nobody for an error
  applied,   \* history: events the loop committed
  loose,     \* history: keys a reservation or result of which was given up
  errors,    \* bound: failed batches still allowed
  cancels    \* bound: contexts that may still end

store == <<entries, order, held>>
calls == <<pc, item, at, events, acks, result>>
vars == <<store, now, queue, life, calls, applied, loose, errors, cancels>>

Key(r, i) == Items[r][i]
key(r) == Key(r, item[r])

with(f, k, v) == [x \in DOMAIN f \cup {k} |-> IF x = k THEN v ELSE f[x]]
without(f, S) == [x \in DOMAIN f \ S |-> f[x]]

Init ==
  /\ entries = <<>> /\ order = <<>> /\ held = FALSE
  /\ now = 0 /\ queue = <<>> /\ life = "running"
  /\ pc = [r \in Requests |-> "begin"]
  /\ item = [r \in Requests |-> 1] /\ at = [r \in Requests |-> 0]
  /\ events = [r \in Requests |-> <<>>]
  /\ acks = [r \in Requests |-> <<>>] /\ result = [r \in Requests |-> <<>>]
  /\ applied = {} /\ loose = {} /\ errors = MaxWalErrors /\ cancels = MaxCancels

-----------------------------------------------------------------------------
(* The store: each operator is a method's critical section on [e, o] *)

theStore == [e |-> entries, o |-> order]

removed(s, K) == [e |-> without(s.e, K), o |-> SelectSeq(s.o, LAMBDA k : k \notin K)]
toHead(s, k, e) == [e |-> with(s.e, k, e), o |-> <<k>> \o SelectSeq(s.o, LAMBDA x : x # k)]

\* From the tail, up to the first entry that is still fresh at time t.
evictExpiredLocked(s, t) ==
  LET fresh == {k \in DOMAIN s.o : t < s.e[s.o[k]].expiresAt}
  IN  removed(s, {s.o[k] : k \in {j \in DOMAIN s.o : \A f \in fresh : j > f}})

\* Mutant: eviction starts one entry late.
evictLRULate(s) ==
  LET idle == {k \in DOMAIN s.o : ~s.e[s.o[k]].pending}
      excess == Len(s.o) - (MaxSize + 1)
  IN  removed(s, {s.o[k] : k \in {j \in idle : Cardinality({i \in idle : i > j}) < excess}})

\* From the tail, entries that are not pending, until the size fits or none
\* is left.
evictLRU(s) ==
  LET idle == {k \in DOMAIN s.o : ~s.e[s.o[k]].pending}
      excess == Len(s.o) - MaxSize
  IN  removed(s, {s.o[k] : k \in {j \in idle : Cardinality({i \in idle : i > j}) < excess}})

entry(p, t, r, x) == [pending |-> p, expiresAt |-> t + TTL, owner |-> r, transfer |-> x]

\* Commit keeps calling evictLRULocked while the store is too large.
Commit(k, r, x) ==
  LET s == evictLRU(toHead(evictExpiredLocked(theStore, now), k, entry(FALSE, now, r, x))) IN
  /\ entries' = s.e /\ order' = s.o
  /\ held' = (Len(s.o) > MaxSize)
  /\ loose' = loose \cup ((DOMAIN entries \cup {k}) \ DOMAIN s.e)

\* Remove the pending entries among the keys K.
Rollback(K) ==
  LET s == removed(theStore, {k \in K \cap DOMAIN entries : entries[k].pending}) IN
  entries' = s.e /\ order' = s.o /\ UNCHANGED held

keep == UNCHANGED <<now, queue, life, applied, errors, cancels>>

-----------------------------------------------------------------------------
(* Phase 1: reserve the keys *)

\* Go on with the next item, or submit, or return when there is nothing to send.
nextItem(r, ev, res) ==
  /\ events' = [events EXCEPT ![r] = ev] /\ result' = [result EXCEPT ![r] = res]
  /\ IF item[r] < Len(Items[r])
     THEN pc' = [pc EXCEPT ![r] = "begin"] /\ item' = [item EXCEPT ![r] = @ + 1]
     ELSE /\ pc' = [pc EXCEPT ![r] = IF ev = <<>> THEN "done" ELSE "submit"]
          /\ item' = [item EXCEPT ![r] = 1]
  /\ at' = [at EXCEPT ![r] = 0] /\ UNCHANGED acks

send(r) == nextItem(r, Append(events[r], item[r]), result[r])
answer(r, x) == nextItem(r, events[r], with(result[r], item[r], x))

\* The call returns; nothing of its locals is left.
return(r, res) ==
  /\ pc' = [pc EXCEPT ![r] = "done"] /\ item' = [item EXCEPT ![r] = 1] /\ at' = [at EXCEPT ![r] = 0]
  /\ events' = [events EXCEPT ![r] = <<>>] /\ acks' = [acks EXCEPT ![r] = <<>>]
  /\ result' = [result EXCEPT ![r] = res]

\* A zero key opts out.
BeginKeyless(r) ==
  /\ pc[r] = "begin" /\ key(r) = NoKey
  /\ send(r)
  /\ UNCHANGED <<store, loose>> /\ keep

\* A key that an earlier item of the batch reserved is a conflict.
BeginDuplicate(r) ==
  /\ pc[r] = "begin" /\ key(r) # NoKey
  /\ \E i \in DOMAIN events[r] : Key(r, events[r][i]) = key(r)
  /\ answer(r, Nobody)
  /\ UNCHANGED <<store, loose>> /\ keep

reserving(r) ==
  /\ pc[r] = "begin" /\ key(r) # NoKey
  /\ \A i \in DOMAIN events[r] : Key(r, events[r][i]) # key(r)

pendingKey(k) == k \in DOMAIN entries /\ entries[k].pending
found(s, k, t) == k \in DOMAIN s.e /\ ~s.e[k].pending /\ t < s.e[k].expiresAt

\* The read-locked look of CheckAndReserve.  On a pending entry the caller
\* looks again, until its context ends.
CheckFound(r) ==
  /\ reserving(r) /\ ~held /\ found(theStore, key(r), now)
  /\ answer(r, entries[key(r)].transfer)
  /\ UNCHANGED <<store, loose>> /\ keep

CheckMissed(r) ==
  /\ reserving(r) /\ ~held /\ ~pendingKey(key(r)) /\ ~found(theStore, key(r), now)
  /\ at' = [at EXCEPT ![r] = now]
  /\ pc' = [pc EXCEPT ![r] = "lock"]
  /\ UNCHANGED <<store, item, events, acks, result, loose>> /\ keep

\* Mutant of Abort: what the batch reserved before the conflict stays reserved.
AbortKeeps(r) ==
  /\ reserving(r) /\ ~held /\ pendingKey(key(r)) /\ cancels > 0
  /\ return(r, <<>>)
  /\ cancels' = cancels - 1
  /\ UNCHANGED <<store, now, queue, life, applied, loose, errors>>

\* A conflict with an ended context: CreateTransfers rolls back what it reserved.
Abort(r) ==
  /\ reserving(r) /\ ~held /\ pendingKey(key(r)) /\ cancels > 0
  /\ Rollback({Key(r, events[r][i]) : i \in DOMAIN events[r]})
  /\ return(r, <<>>)
  /\ cancels' = cancels - 1
  /\ UNCHANGED <<now, queue, life, applied, loose, errors>>

\* Mutant of Reserve: the look under the read lock is trusted.
ReserveUnchecked(r) ==
  /\ pc[r] = "lock" /\ ~held
  /\ LET s == toHead(evictExpiredLocked(theStore, at[r]), key(r), entry(TRUE, at[r], r, Nobody)) IN
     entries' = s.e /\ order' = s.o
  /\ send(r)
  /\ UNCHANGED <<held, loose>> /\ keep

\* The write-locked part looks again, with the time the call began.
Reserve(r) ==
  /\ pc[r] = "lock" /\ ~held
  /\ LET k == key(r)
         s == evictExpiredLocked(theStore, at[r])
         t == IF k \in DOMAIN s.e /\ s.e[k].pending THEN s
              ELSE toHead(s, k, IF found(s, k, at[r]) THEN s.e[k] ELSE entry(TRUE, at[r], r, Nobody))
     IN  /\ entries' = t.e /\ order' = t.o
         /\ loose' = loose \cup {x \in DOMAIN entries : x \notin DOMAIN s.e}
                           \cup (IF k \in DOMAIN s.e /\ ~s.e[k].pending /\ ~found(s, k, at[r]) THEN {k} ELSE {})
         /\ IF k \in DOMAIN s.e /\ s.e[k].pending
            THEN pc' = [pc EXCEPT ![r] = "begin"] /\ at' = [at EXCEPT ![r] = 0]
                 /\ UNCHANGED <<item, events, acks, result>>
            ELSE IF found(s, k, at[r]) THEN answer(r, s.e[k].transfer) ELSE send(r)
  /\ UNCHANGED held /\ keep

-----------------------------------------------------------------------------
(* Phase 2: submit *)

eventKeys(r, from) == {Key(r, events[r][j]) : j \in from .. Len(events[r])} \ {NoKey}

Submit(r) ==
  /\ pc[r] = "submit" /\ Len(queue) < QueueSize
  /\ queue' = Append(queue, [r |-> r, item |-> events[r][item[r]]])
  /\ IF item[r] < Len(events[r])
     THEN item' = [item EXCEPT ![r] = @ + 1] /\ UNCHANGED pc
     ELSE pc' = [pc EXCEPT ![r] = "wait"] /\ item' = [item EXCEPT ![r] = 1]
  /\ UNCHANGED <<store, now, life, at, events, acks, result, applied, loose, errors, cancels>>

\* CreateTransfer does not wait for room.
SubmitFull(r) ==
  /\ pc[r] = "submit" /\ r \in Unary /\ Len(queue) >= QueueSize /\ ~held
  /\ Rollback({key(r)})
  /\ return(r, result[r])
  /\ UNCHANGED loose /\ keep

closedAck == [ok |-> FALSE, key |-> NoKey, x |-> Nobody]

\* CreateTransfers does, unless the ledger closes: it then answers the events
\* that were never queued itself.
SubmitClosed(r) ==
  /\ pc[r] = "submit" /\ r \notin Unary /\ Len(queue) >= QueueSize /\ life # "running" /\ ~held
  /\ LET tail == {events[r][j] : j \in item[r] .. Len(events[r])} IN
     acks' = [acks EXCEPT ![r] = [i \in DOMAIN @ \cup tail |-> IF i \in tail THEN closedAck ELSE @[i]]]
  /\ Rollback(eventKeys(r, item[r]))
  /\ pc' = [pc EXCEPT ![r] = "wait"] /\ item' = [item EXCEPT ![r] = 1]
  /\ UNCHANGED <<at, events, result, loose>> /\ keep

-----------------------------------------------------------------------------
(* Phases 3 and 4: wait for the answers and settle the keys *)

\* The event is the only one of a call of CreateTransfer.
ReceiveAck(r) ==
  /\ pc[r] = "wait" /\ r \in Unary /\ 1 \in DOMAIN acks[r] /\ ~held
  /\ LET a == acks[r][1] IN
     /\ IF key(r) = NoKey THEN UNCHANGED <<store, loose>>
        ELSE IF a.ok THEN Commit(key(r), r, a.x)
        ELSE Rollback({key(r)}) /\ UNCHANGED loose
     /\ return(r, with(result[r], 1, a.x))
  /\ keep

\* The context ends first, whether or not the answer is there.  The event
\* stays queued.
GiveUp(r) ==
  /\ pc[r] = "wait" /\ r \in Unary /\ cancels > 0 /\ ~held
  /\ Rollback({key(r)})
  /\ loose' = loose \cup {key(r)}
  /\ return(r, result[r])
  /\ cancels' = cancels - 1
  /\ UNCHANGED <<now, queue, life, applied, errors>>

\* The last event of the batch has been answered.
BatchDone(r) ==
  /\ pc[r] = "wait" /\ r \notin Unary
  /\ \A j \in DOMAIN events[r] : events[r][j] \in DOMAIN acks[r]
  /\ pc' = [pc EXCEPT ![r] = "settle"]
  /\ UNCHANGED <<store, item, at, events, acks, result, loose>> /\ keep

\* One event of materialize: the key is that of the transfer in the answer.
materialize(r) ==
  /\ pc[r] = "settle" /\ ~held
  /\ LET i == events[r][item[r]]
         a == acks[r][i]
     IN  /\ IF a.key = NoKey THEN UNCHANGED <<store, loose>>
            ELSE IF a.ok THEN Commit(a.key, r, a.x)
            ELSE Rollback({a.key}) /\ UNCHANGED loose
         /\ IF item[r] < Len(events[r])
            THEN /\ item' = [item EXCEPT ![r] = @ + 1] /\ result' = [result EXCEPT ![r] = with(@, i, a.x)]
                 /\ UNCHANGED <<pc, at, events, acks>>
            ELSE return(r, with(result[r], i, a.x))
  /\ keep

-----------------------------------------------------------------------------
(* The event loop, the ledger's life, and the environment *)

first(n) == {queue[k] : k \in 1 .. n}

\* Answer the first n events of the queue, event e with ack[e].
complete(n, ack) ==
  /\ acks' = [r \in Requests |->
                [i \in DOMAIN acks[r] \cup {e.item : e \in {d \in first(n) : d.r = r}} |->
                   IF [r |-> r, item |-> i] \in first(n) THEN ack[[r |-> r, item |-> i]] ELSE acks[r][i]]]
  /\ queue' = SubSeq(queue, n + 1, Len(queue))

loopUnchanged == UNCHANGED <<store, now, pc, item, at, events, result, loose, cancels>>

\* A batch is written; each of its events passes or fails validation.
processBatch ==
  /\ life # "closed" /\ queue # <<>>
  /\ \E n \in 1 .. Len(queue) : \E bad \in SUBSET first(n) :
       /\ complete(n, [e \in first(n) |-> [ok |-> e \notin bad, key |-> Key(e.r, e.item),
                                           x |-> IF e \in bad THEN Nobody ELSE e]])
       /\ applied' = applied \cup (first(n) \ bad)
  /\ UNCHANGED <<life, errors>> /\ loopUnchanged

\* Mutant of processBatchFail: the events of the batch are dropped.
processBatchFailSilent ==
  /\ life # "closed" /\ queue # <<>> /\ errors > 0
  /\ queue' = <<>>
  /\ errors' = errors - 1
  /\ UNCHANGED <<life, applied, acks>> /\ loopUnchanged

\* The append or the sync fails: the answers carry the error and no transfer.
processBatchFail ==
  /\ life # "closed" /\ queue # <<>> /\ errors > 0
  /\ \E n \in 1 .. Len(queue) : complete(n, [e \in first(n) |-> closedAck])
  /\ errors' = errors - 1
  /\ UNCHANGED <<life, applied>> /\ loopUnchanged

Close ==
  /\ MayClose /\ life = "running"
  /\ life' = "closing"
  /\ UNCHANGED <<queue, acks, applied, errors>> /\ loopUnchanged

\* Everything still queued is answered with ErrLedgerClosed; the loop returns
\* once it finds the queue empty.
abandonPending ==
  /\ life = "closing"
  /\ IF queue = <<>>
     THEN life' = "closed" /\ UNCHANGED <<queue, acks>>
     ELSE complete(Len(queue), [e \in first(Len(queue)) |-> closedAck]) /\ UNCHANGED life
  /\ UNCHANGED <<applied, errors>> /\ loopUnchanged

Tick ==
  /\ now < MaxNow
  /\ now' = now + 1
  /\ UNCHANGED <<store, queue, life, calls, applied, loose, errors, cancels>>

-----------------------------------------------------------------------------
Step(r) ==
  \/ BeginKeyless(r) \/ BeginDuplicate(r) \/ CheckFound(r) \/ CheckMissed(r) \/ Abort(r) \/ Reserve(r)
  \/ Submit(r) \/ SubmitFull(r) \/ SubmitClosed(r)
  \/ ReceiveAck(r) \/ GiveUp(r) \/ BatchDone(r) \/ materialize(r)

Loop == processBatch \/ processBatchFail \/ abandonPending

Next == (\E r \in Requests : Step(r)) \/ Loop \/ Close \/ Tick

Spec == Init /\ [][Next]_vars

-----------------------------------------------------------------------------
(* Properties *)

\* The list threads every entry of the map once, the queue keeps its bound,
\* and only while more than MaxSize keys are reserved is the store too large.
TypeOK ==
  /\ Len(order) = Cardinality(DOMAIN entries) /\ {order[k] : k \in DOMAIN order} = DOMAIN entries
  /\ Cardinality({k \in DOMAIN entries : ~entries[k].pending}) <= MaxSize
  /\ Len(queue) <= QueueSize
  /\ life \in {"running", "closing", "closed"}
  /\ \A r \in Requests : pc[r] \in {"begin", "lock", "submit", "wait", "settle", "done"}

\* The key text a client gave to an item: its own, or the header's.  Of two the
\* REST server prefers the header, but its batches do not read it.
asked(e) ==
  LET c == Sent[e.r]
      text == c.texts[e.item]
  IN  IF c.rest /\ e.r \notin Unary THEN text
      ELSE IF text = NoText \/ (c.rest /\ c.header # NoText) THEN c.header ELSE text

\* However calls with one key text interleave, sent in the header or the body and
\* through either server, at most one transfer with it is committed
\* (CheckAndReserve, Commit, Rollback).  Not claimed for a key whose reservation
\* was given up with its event in flight, has expired, or whose result the store
\* evicted; nor, between the two servers, for texts of 32 bytes, which only one
\* of them hashes.
KeyOnce ==
  \A e, f \in applied :
    /\ e # f /\ asked(e) = asked(f) /\ asked(e) # NoText
    /\ asked(e)[2] = 32 => Sent[e.r].rest = Sent[f.r].rest
    => Key(e.r, e.item) \in loose

\* Calls with one key that succeed return the same transfer, and it is one that
\* was committed: nobody sees the answer of a call that was rolled back.
SameAnswer ==
  \A r, q \in Requests : \A i \in DOMAIN result[r], j \in DOMAIN result[q] :
    /\ result[r][i] \in applied \cup {Nobody}
    /\ /\ Key(r, i) = Key(q, j) /\ Key(r, i) \notin loose \cup {NoKey}
       /\ result[r][i] # Nobody /\ result[q][j] # Nobody
       => result[r][i] = result[q][j]

queued(r, i) == \E k \in DOMAIN queue : queue[k] = [r |-> r, item |-> i]
unanswered(r) == {events[r][j] : j \in DOMAIN events[r]} \ DOMAIN acks[r]

\* Every event a call waits for is answered or in the ring, also when the write
\* of its batch fails or the ledger closes (processBatch, abandonPending).  Once
\* the loop has returned the ring holds only what was submitted after its last
\* look: those are the only events that nobody will answer.
NothingLost ==
  \A r \in Requests : pc[r] = "wait" => \A i \in unanswered(r) : queued(r, i)

\* "successes commit their key, failures roll it back" (materialize): a call that
\* returns, whichever way, leaves no key reserved.  Excepted are batch items the
\* loop answered without their transfer, because the write of their batch failed
\* or the ledger closed: materialize takes the key from the answer, where it is
\* zero then.
KeysSettled ==
  [][\A r \in Requests : pc[r] # "done" /\ pc'[r] = "done" =>
       \A k \in DOMAIN entries' : entries'[k].pending /\ entries'[k].owner = r =>
         \E i \in DOMAIN acks[r] : Key(r, i) = k /\ acks[r][i] = closedAck]_vars

=============================================================================
