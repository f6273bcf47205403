----------------------------- MODULE CallsProofs ----------------------------
(***************************************************************************)
(* The release rule of the result channels (event.go), for any number of   *)
(* calls, kinds of read, channels and queue slots: a read returns its own  *)
(* answer and no older one, an account is created for one call only, and   *)
(* the loop never blocks on a result channel.                              *)
(*                                                                         *)
(* At any time a channel is in at most one place.  It is free, in a pool   *)
(* or not made yet; or a call that has not sent it holds it, empty; or it  *)
(* is in one queued request and empty; or it has been answered.  After it  *)
(* was sent, its caller may have gone, and then it never becomes free.     *)
(***************************************************************************)
EXTENDS Calls, TLAPS

Ids == {Target[r] : r \in Reads}
Requests == [id : Ids, result : Channels]

\* The types the argument needs.
Types ==
  /\ pool \in [Kinds -> SUBSET Channels]
  /\ made \in SUBSET Channels
  /\ DOMAIN buf = Channels
  /\ readQueue \in [Kinds -> Seq(Requests)]
  /\ chan \in [Reads -> SUBSET Channels]
  /\ pc \in [Calls -> {"idle", "queueing", "waiting", "returned"}]

\* No request in a queue carries the channel.
unqueued(ch) == \A k \in Kinds : \A i \in DOMAIN readQueue[k] : readQueue[k][i].result # ch
free(ch) == buf[ch] = <<>> /\ unqueued(ch)

\* Free channels: those not made yet, and those in a pool, in no other pool and
\* not held by a call.
FreeInv ==
  /\ \A ch \in Channels \ made : free(ch)
  /\ \A k \in Kinds : \A ch \in pool[k] :
       /\ ch \in made /\ free(ch)
       /\ \A r \in Reads : ch \notin chan[r]
       /\ \A l \in Kinds : ch \in pool[l] => l = k

\* Queued channels are empty, and each is in one request.
QueueInv ==
  /\ \A k \in Kinds : \A i \in DOMAIN readQueue[k] :
       readQueue[k][i].result \in made /\ buf[readQueue[k][i].result] = <<>>
  /\ \A k, l \in Kinds : \A i \in DOMAIN readQueue[k], j \in DOMAIN readQueue[l] :
       readQueue[k][i].result = readQueue[l][j].result => k = l /\ i = j

\* A call holds one channel, alone: free before it is sent, and carrying the
\* call's own request or answer after that.
CallInv ==
  /\ \A r \in Reads : \A ch \in chan[r] :
       /\ ch \in made /\ pc[r] \in {"queueing", "waiting"}
       /\ \A q \in Reads : \A d \in chan[q] : (d = ch) <=> (q = r)
       /\ pc[r] = "queueing" => free(ch)
       /\ pc[r] = "waiting" =>
            /\ buf[ch] # <<>> => Head(buf[ch]).id = Target[r]
            /\ \A k \in Kinds : \A i \in DOMAIN readQueue[k] :
                 readQueue[k][i].result = ch => readQueue[k][i].id = Target[r]

IInv == Types /\ FreeInv /\ QueueInv /\ CallInv

-----------------------------------------------------------------------------
\* What Get of a pool makes is a channel that did not exist (event.go).
LEMMA MakeFresh ==
  ASSUME made \in SUBSET Channels, NEW ch \in make
  PROVE  ch \in Channels \ made
<1>1. made # Channels /\ ch = CHOOSE d \in Channels \ made : TRUE
  BY DEF make
<1>2. \E d \in Channels \ made : TRUE
  BY <1>1
<1> QED
  BY <1>1, <1>2

\* Init establishes the invariant: there is no channel yet.
LEMMA InitInv == Init => IInv
<1> SUFFICES ASSUME Init PROVE IInv
  OBVIOUS
<1>1. Types
  BY DEF Init, Types
<1>2. FreeInv /\ QueueInv /\ CallInv
  BY DEF Init, FreeInv, QueueInv, CallInv, free, unqueued
<1> QED
  BY <1>1, <1>2 DEF IInv

\* AcquireReadResult takes a channel that nobody else has and that is empty.
LEMMA AcquireInv ==
  ASSUME IInv, NEW r \in Reads, AcquireReadResult(r)
  PROVE  IInv'
<1>1. PICK ch \in pool[Kind[r]] \cup make :
        /\ chan' = [chan EXCEPT ![r] = {ch}]
        /\ pool' = [pool EXCEPT ![Kind[r]] = @ \ {ch}]
        /\ made' = made \cup {ch}
  BY DEF AcquireReadResult
<1>2. /\ pc[r] = "idle" /\ pc' = [pc EXCEPT ![r] = "queueing"]
      /\ buf' = buf /\ readQueue' = readQueue
  BY DEF AcquireReadResult, goto
<1>3. Kind[r] \in Kinds /\ r \in Calls
  BY KindAssumption DEF Calls
<1>4. ch \in Channels /\ free(ch)
  <2>1. CASE ch \in make
    BY <2>1, MakeFresh DEF IInv, Types, FreeInv
  <2>2. CASE ch \in pool[Kind[r]]
    BY <2>2, <1>3 DEF IInv, Types, FreeInv
  <2> QED
    BY <1>1, <2>1, <2>2
\* No call holds it yet.
<1>5. \A q \in Reads : ch \notin chan[q]
  <2>1. CASE ch \in make
    BY <2>1, MakeFresh DEF IInv, Types, CallInv
  <2>2. CASE ch \in pool[Kind[r]]
    BY <2>2, <1>3 DEF IInv, FreeInv
  <2> QED
    BY <1>1, <2>1, <2>2
<1>6. Types'
  BY <1>1, <1>2, <1>3, <1>4 DEF IInv, Types
\* It leaves its pool, and was in no other.
<1>7. \A k \in Kinds : pool'[k] \subseteq pool[k] /\ ch \notin pool'[k]
  <2>1. \A k \in Kinds : k # Kind[r] => ch \notin pool[k]
    <3>1. CASE ch \in make
      BY <3>1, MakeFresh DEF IInv, Types, FreeInv
    <3>2. CASE ch \in pool[Kind[r]]
      BY <3>2, <1>3 DEF IInv, FreeInv
    <3> QED
      BY <1>1, <3>1, <3>2
  <2> QED
    BY <1>1, <1>3, <2>1 DEF IInv, Types
<1>8. \A q \in Reads : chan'[q] = IF q = r THEN {ch} ELSE chan[q]
  BY <1>1 DEF IInv, Types
<1>9. FreeInv'
  BY <1>1, <1>2, <1>7, <1>8 DEF IInv, FreeInv, free, unqueued
<1>10. QueueInv'
  BY <1>1, <1>2 DEF IInv, QueueInv
<1>11. pc'[r] = "queueing" /\ \A q \in Reads : q # r => pc'[q] = pc[q]
  BY <1>2, <1>3 DEF IInv, Types, Calls
<1>12. CallInv'
  BY <1>1, <1>2, <1>4, <1>5, <1>8, <1>11 DEF IInv, CallInv, free, unqueued
<1> QED
  BY <1>6, <1>9, <1>10, <1>12 DEF IInv


\* A sent request carries the caller's channel, which is in no other request.
LEMMA SendInv ==
  ASSUME IInv, NEW r \in Reads, SendRead(r)
  PROVE  IInv'
<1>1. PICK ch \in chan[r] :
        readQueue' = [readQueue EXCEPT ![Kind[r]] = Append(@, [id |-> Target[r], result |-> ch])]
  BY DEF SendRead
<1>2. /\ pc[r] = "queueing" /\ pc' = [pc EXCEPT ![r] = "waiting"]
      /\ pool' = pool /\ made' = made /\ buf' = buf /\ chan' = chan
  BY DEF SendRead, goto, channels
<1>3. Kind[r] \in Kinds /\ r \in Calls
  BY KindAssumption DEF Calls
<1>4. ch \in Channels /\ ch \in made /\ free(ch)
  BY <1>2 DEF IInv, Types, CallInv
<1>5. Types'
  <2>1. [id |-> Target[r], result |-> ch] \in Requests
    BY <1>4 DEF Requests, Ids
  <2>2. readQueue' \in [Kinds -> Seq(Requests)]
    BY <1>1, <1>3, <2>1 DEF IInv, Types
  <2> QED
    BY <1>2, <1>3, <2>2 DEF IInv, Types
\* What is in the queues: the requests of before, and the new one.
<1>6. \A k \in Kinds : \A i \in DOMAIN readQueue'[k] :
        \/ i \in DOMAIN readQueue[k] /\ readQueue'[k][i] = readQueue[k][i]
        \/ /\ k = Kind[r] /\ i \notin DOMAIN readQueue[k] /\ i = Len(readQueue[Kind[r]]) + 1
           /\ readQueue'[k][i].result = ch /\ readQueue'[k][i].id = Target[r]
  BY <1>1, <1>3 DEF IInv, Types
<1>7. pc'[r] = "waiting" /\ \A q \in Reads : q # r => pc'[q] = pc[q]
  BY <1>2, <1>3 DEF IInv, Types, Calls
<1>8. \A d \in Channels : d # ch /\ unqueued(d) => unqueued(d)'
  BY <1>6 DEF unqueued
<1>9. FreeInv'
  <2>1. \A k \in Kinds : ch \notin pool[k]
    BY DEF IInv, FreeInv
  <2> QED
    BY <1>2, <1>4, <1>8, <2>1 DEF IInv, Types, FreeInv, free
<1>10. QueueInv'
  <2>1. \A k \in Kinds : \A i \in DOMAIN readQueue'[k] :
          readQueue'[k][i].result \in made' /\ buf'[readQueue'[k][i].result] = <<>>
    BY <1>2, <1>4, <1>6 DEF IInv, QueueInv, free
  <2>2. ASSUME NEW k \in Kinds, NEW l \in Kinds, NEW i \in DOMAIN readQueue'[k], NEW j \in DOMAIN readQueue'[l],
               readQueue'[k][i].result = readQueue'[l][j].result
        PROVE  k = l /\ i = j
    BY <1>4, <1>6, <2>2 DEF IInv, QueueInv, free, unqueued
  <2> QED
    BY <2>1, <2>2 DEF QueueInv
<1>11. CallInv'
  <2> SUFFICES ASSUME NEW q \in Reads, NEW d \in chan[q]
               PROVE  /\ d \in made /\ pc'[q] \in {"queueing", "waiting"}
                      /\ \A q2 \in Reads : \A d2 \in chan[q2] : (d2 = d) <=> (q2 = q)
                      /\ pc'[q] = "queueing" => free(d)'
                      /\ pc'[q] = "waiting" =>
                           /\ buf[d] # <<>> => Head(buf[d]).id = Target[q]
                           /\ \A k \in Kinds : \A i \in DOMAIN readQueue'[k] :
                                readQueue'[k][i].result = d => readQueue'[k][i].id = Target[q]
    BY <1>2 DEF CallInv
  <2>1. CASE q = r
    <3>1. d = ch
      BY <2>1 DEF IInv, CallInv
    <3> QED
      BY <1>2, <1>4, <1>6, <1>7, <2>1, <3>1 DEF IInv, CallInv, free, unqueued
  <2>2. CASE q # r
    <3>1. d # ch /\ d \in Channels
      BY <2>2 DEF IInv, Types, CallInv
    <3> QED
      BY <1>2, <1>6, <1>7, <1>8, <2>2, <3>1 DEF IInv, CallInv, free
  <2> QED
    BY <2>1, <2>2
<1> QED
  BY <1>5, <1>9, <1>10, <1>11 DEF IInv

\* A read that returns its channel to the pool: before it was sent, or after its
\* result was taken.  Nobody else refers to the channel then.
LEMMA ReleaseInv ==
  ASSUME IInv, NEW r \in Reads, CancelRead(r) \/ ReceiveRead(r)
  PROVE  IInv'
<1>1. /\ pc[r] \in {"queueing", "waiting"} /\ pc' = [pc EXCEPT ![r] = "returned"]
      /\ chan' = [chan EXCEPT ![r] = {}]
      /\ pool' = [pool EXCEPT ![Kind[r]] = @ \cup chan[r]]
      /\ made' = made /\ readQueue' = readQueue
  BY DEF CancelRead, ReceiveRead, release, returnRead, goto
<1>2. Kind[r] \in Kinds /\ r \in Calls
  BY KindAssumption DEF Calls
<1>3. /\ DOMAIN buf' = Channels
      /\ \A d \in Channels : buf'[d] = <<>> \/ buf'[d] = buf[d]
  BY DEF IInv, Types, CancelRead, ReceiveRead
\* The released channel is free: a result was in it, so no request is queued.
<1>4. \A ch \in chan[r] : free(ch)'
  <2>1. CASE CancelRead(r)
    BY <1>1, <2>1 DEF IInv, CallInv, CancelRead, free, unqueued
  <2>2. CASE ReceiveRead(r)
    <3>1. PICK ch \in chan[r] : buf[ch] # <<>> /\ buf' = [buf EXCEPT ![ch] = <<>>]
      BY <2>2 DEF ReceiveRead
    <3>2. \A d \in chan[r] : d = ch
      BY DEF IInv, CallInv
    <3>3. unqueued(ch)
      BY <3>1 DEF IInv, QueueInv, unqueued
    <3>4. buf'[ch] = <<>>
      BY <3>1 DEF IInv, Types
    <3> QED
      BY <1>1, <3>2, <3>3, <3>4 DEF free, unqueued
  <2> QED
    BY <2>1, <2>2
<1>5. Types'
  BY <1>1, <1>2, <1>3 DEF IInv, Types
<1>6. \A q \in Reads : chan'[q] = IF q = r THEN {} ELSE chan[q]
  BY <1>1 DEF IInv, Types
<1>7. \A q \in Reads : q # r => pc'[q] = pc[q]
  BY <1>1, <1>2 DEF IInv, Types, Calls
<1>8. \A d \in Channels : free(d) => free(d)'
  BY <1>1, <1>3 DEF free, unqueued
<1>9. \A k \in Kinds : pool'[k] = IF k = Kind[r] THEN pool[k] \cup chan[r] ELSE pool[k]
  BY <1>1 DEF IInv, Types
<1>10. FreeInv'
  <2>1. \A ch \in Channels \ made' : free(ch)'
    BY <1>1, <1>8 DEF IInv, FreeInv
  <2>2. ASSUME NEW k \in Kinds, NEW ch \in pool'[k]
        PROVE  /\ ch \in made' /\ free(ch)'
               /\ \A q \in Reads : ch \notin chan'[q]
               /\ \A l \in Kinds : ch \in pool'[l] => l = k
    <3>1. CASE ch \in chan[r]
      <4>1. \A l \in Kinds : ch \notin pool[l]
        BY <3>1 DEF IInv, FreeInv
      <4> QED
        BY <1>1, <1>4, <1>6, <1>9, <3>1, <4>1, <2>2 DEF IInv, CallInv
    <3>2. CASE ch \notin chan[r]
      <4>1. ch \in pool[k] /\ ch \in Channels
        BY <1>9, <2>2, <3>2 DEF IInv, Types
      <4> QED
        BY <1>1, <1>6, <1>8, <1>9, <3>2, <4>1 DEF IInv, FreeInv
    <3> QED
      BY <3>1, <3>2
  <2> QED
    BY <2>1, <2>2 DEF FreeInv
<1>11. QueueInv'
  BY <1>1, <1>3 DEF IInv, Types, QueueInv, Requests
<1>12. CallInv'
  BY <1>1, <1>3, <1>6, <1>7, <1>8 DEF IInv, Types, CallInv
<1> QED
  BY <1>5, <1>10, <1>11, <1>12 DEF IInv

\* An abandoned channel goes to no pool, and its call forgets it.
LEMMA GiveUpInv ==
  ASSUME IInv, NEW r \in Reads, GiveUpRead(r)
  PROVE  IInv'
<1>1. /\ pc' = [pc EXCEPT ![r] = "returned"] /\ chan' = [chan EXCEPT ![r] = {}]
      /\ pool' = pool /\ made' = made /\ buf' = buf /\ readQueue' = readQueue
  BY DEF GiveUpRead, returnRead, goto
<1>2. r \in Calls
  BY DEF Calls
<1>3. Types'
  BY <1>1, <1>2 DEF IInv, Types
<1>4. \A q \in Reads : chan'[q] = IF q = r THEN {} ELSE chan[q]
  BY <1>1 DEF IInv, Types
<1>5. \A q \in Reads : q # r => pc'[q] = pc[q]
  BY <1>1, <1>2 DEF IInv, Types, Calls
<1>6. FreeInv' /\ QueueInv'
  BY <1>1, <1>4 DEF IInv, FreeInv, QueueInv, free, unqueued
<1>7. CallInv'
  BY <1>1, <1>4, <1>5 DEF IInv, CallInv, free, unqueued
<1> QED
  BY <1>3, <1>6, <1>7 DEF IInv

\* The loop answers on the channel of the request it takes from the queue.
LEMMA ServeInv ==
  ASSUME IInv, NEW k \in Kinds, ServeRead(k)
  PROVE  IInv'
<1> DEFINE req == Head(readQueue[k])
           ans == [id |-> req.id, seen |-> lookup(k, req.id)]
<1>1. /\ readQueue[k] # <<>> /\ buf' = [buf EXCEPT ![req.result] = <<ans>>]
      /\ readQueue' = [readQueue EXCEPT ![k] = Tail(@)]
      /\ pool' = pool /\ made' = made /\ chan' = chan /\ pc' = pc
  BY DEF ServeRead
<1>2. 1 \in DOMAIN readQueue[k] /\ req = readQueue[k][1] /\ req \in Requests
  BY <1>1 DEF IInv, Types
<1>3. Head(<<ans>>).id = req.id /\ <<ans>> # <<>>
  OBVIOUS
<1> HIDE DEF req, ans
<1>4. req.result \in Channels /\ req.result \in made
  BY <1>2 DEF IInv, Requests, QueueInv
<1>5. \A d \in Channels : buf'[d] = IF d = req.result THEN <<ans>> ELSE buf[d]
  BY <1>1, <1>4 DEF IInv, Types
<1>6. readQueue' \in [Kinds -> Seq(Requests)]
  BY <1>1 DEF IInv, Types
<1>7. Types'
  BY <1>1, <1>6 DEF IInv, Types
\* What is in the queues: the requests of before, the first one of k gone.
<1>8. \A l \in Kinds : \A i \in DOMAIN readQueue'[l] :
        LET j == IF l = k THEN i + 1 ELSE i
        IN  j \in DOMAIN readQueue[l] /\ readQueue'[l][i] = readQueue[l][j] /\ (l = k => j # 1) /\ i \in Nat
  BY <1>1 DEF IInv, Types
<1>9. \A l \in Kinds : \A i \in DOMAIN readQueue'[l] :
        readQueue'[l][i].result \in made /\ readQueue'[l][i].result # req.result
  BY <1>2, <1>8 DEF IInv, QueueInv
<1>10. \A d \in Channels : free(d) => d # req.result /\ free(d)'
  BY <1>2, <1>5, <1>8 DEF free, unqueued
<1>11. FreeInv'
  BY <1>1, <1>10 DEF IInv, Types, FreeInv
<1>12. QueueInv'
  <2>1. \A l \in Kinds : \A i \in DOMAIN readQueue'[l] :
          readQueue'[l][i].result \in made' /\ buf'[readQueue'[l][i].result] = <<>>
    BY <1>1, <1>5, <1>8, <1>9 DEF IInv, Types, QueueInv
  <2>2. ASSUME NEW l \in Kinds, NEW n \in Kinds, NEW i \in DOMAIN readQueue'[l], NEW j \in DOMAIN readQueue'[n],
               readQueue'[l][i].result = readQueue'[n][j].result
        PROVE  l = n /\ i = j
    BY <1>8, <2>2 DEF IInv, QueueInv
  <2> QED
    BY <2>1, <2>2 DEF QueueInv
<1>13. CallInv'
  <2> SUFFICES ASSUME NEW r \in Reads, NEW d \in chan[r]
               PROVE  /\ d \in made /\ pc[r] \in {"queueing", "waiting"}
                      /\ \A q \in Reads : \A e \in chan[q] : (e = d) <=> (q = r)
                      /\ pc[r] = "queueing" => free(d)'
                      /\ pc[r] = "waiting" =>
                           /\ buf'[d] # <<>> => Head(buf'[d]).id = Target[r]
                           /\ \A l \in Kinds : \A i \in DOMAIN readQueue'[l] :
                                readQueue'[l][i].result = d => readQueue'[l][i].id = Target[r]
    BY <1>1 DEF CallInv
  <2>1. d \in Channels
    BY DEF IInv, Types
  <2>2. pc[r] = "queueing" => free(d)'
    BY <1>10, <2>1 DEF IInv, CallInv
  <2>3. pc[r] = "waiting" /\ buf'[d] # <<>> => Head(buf'[d]).id = Target[r]
    BY <1>2, <1>3, <1>5, <2>1 DEF IInv, CallInv
  <2>4. ASSUME pc[r] = "waiting", NEW l \in Kinds, NEW i \in DOMAIN readQueue'[l], readQueue'[l][i].result = d
        PROVE  readQueue'[l][i].id = Target[r]
    BY <1>8, <2>4 DEF IInv, CallInv
  <2> QED
    BY <2>2, <2>3, <2>4 DEF IInv, CallInv
<1> QED
  BY <1>7, <1>11, <1>12, <1>13 DEF IInv

\* All other steps leave the reads and their channels alone.
LEMMA OtherInv ==
  ASSUME IInv, UNCHANGED <<channels, readQueue>>,
         pc' \in [Calls -> {"idle", "queueing", "waiting", "returned"}],
         \A r \in Reads : pc'[r] = pc[r]
  PROVE  IInv'
<1>1. Types'
  BY DEF IInv, Types, channels
<1>2. FreeInv' /\ QueueInv'
  BY DEF IInv, FreeInv, QueueInv, free, unqueued, channels
<1>3. CallInv'
  BY DEF IInv, CallInv, free, unqueued, channels
<1> QED
  BY <1>1, <1>2, <1>3 DEF IInv

\* Every step of a call or of the loop preserves the invariant.
LEMMA NextInv == IInv /\ [Next]_vars => IInv'
<1> SUFFICES ASSUME IInv, [Next]_vars PROVE IInv'
  OBVIOUS
<1>1. ASSUME NEW r \in Reads, readCall(r) PROVE IInv'
  BY <1>1, AcquireInv, SendInv, ReleaseInv, GiveUpInv DEF readCall
<1>2. ASSUME NEW c \in Creates, CreateAccounts(c) PROVE IInv'
  <2>1. UNCHANGED <<channels, readQueue>> /\ \E s \in {"waiting", "returned"} : pc' = [pc EXCEPT ![c] = s]
    BY <1>2 DEF CreateAccounts, SendCreate, CancelCreate, ReceiveCreate, CreateClosed, goto
  <2>2. c \in Calls /\ \A r \in Reads : r # c /\ r \in Calls
    BY DisjointAssumption DEF Calls
  <2>3. pc' \in [Calls -> {"idle", "queueing", "waiting", "returned"}] /\ \A r \in Reads : pc'[r] = pc[r]
    BY <2>1, <2>2 DEF IInv, Types
  <2> QED
    BY <2>1, <2>3, OtherInv
<1>3. ASSUME NEW k \in Kinds, ServeRead(k) PROVE IInv'
  BY <1>3, ServeInv
<1>4. ASSUME UNCHANGED <<channels, readQueue, pc>> PROVE IInv'
  BY <1>4, OtherInv DEF IInv, Types
<1>5. CASE processAccountCreate \/ processAccountCreateFail
  BY <1>4, <1>5 DEF processAccountCreate, processAccountCreateFail, finishCreate
<1>6. CASE Exit \/ processBatch \/ Close
  BY <1>4, <1>6 DEF Exit, Shutdown, abandonPending, processBatch, Close, finishCreate
<1>7. CASE UNCHANGED vars
  BY <1>4, <1>7 DEF vars
<1> QED
  BY <1>1, <1>2, <1>3, <1>5, <1>6, <1>7 DEF Next, GetAccount, GetTransfer, GetAccountTransfers, Control

\* The channels of event.go are where the release rule says, in every behaviour.
THEOREM Invariance == Spec => []IInv
  BY InitInv, NextInv, PTL DEF Spec

\* A read never returns the result of another one, whatever is abandoned and
\* recycled before it (event.go, GetAccount and its siblings in ledger.go).
THEOREM AnswerSafety == Spec => []OwnAnswers
<1>1. IInv => OwnAnswers
  BY DEF IInv, CallInv, OwnAnswers
<1> QED
  BY <1>1, Invariance, PTL

\* The loop never blocks when it sends a result (loop.go), not even on a channel
\* that nobody receives from any more.
THEOREM LoopProgress == Spec => []NeverBlocks
<1>1. IInv => NeverBlocks
  <2> SUFFICES ASSUME IInv, NEW k \in Kinds, readQueue[k] # <<>>
               PROVE  buf[Head(readQueue[k]).result] = <<>>
    BY DEF NeverBlocks
  <2>1. 1 \in DOMAIN readQueue[k] /\ Head(readQueue[k]) = readQueue[k][1]
    BY DEF IInv, Types
  <2> QED
    BY <2>1 DEF IInv, QueueInv
<1> QED
  BY <1>1, Invariance, PTL

-----------------------------------------------------------------------------
(* What calls are told *)

\* The loop has only what is synced, and calls know only what the loop has.
StateInv ==
  /\ accounts \subseteq AccountIds /\ transfers \subseteq DOMAIN Transfers
  /\ accounts \cup transfers \subseteq durable
  /\ known \subseteq accounts \cup transfers

\* A result is about something the loop has.  A read asks the queue of its kind,
\* began with no more than is known by now, and is answered with no less.
ReadInv ==
  /\ DOMAIN floor = Reads
  /\ \A ch \in Channels : buf[ch] # <<>> => Len(buf[ch]) = 1 /\ Head(buf[ch]).seen \subseteq accounts \cup transfers
  /\ \A r \in Reads : \A ch \in chan[r] :
       /\ floor[r] \subseteq about(r, known)
       /\ buf[ch] # <<>> => floor[r] \subseteq Head(buf[ch]).seen
       /\ \A k \in Kinds : \A i \in DOMAIN readQueue[k] : readQueue[k][i].result = ch => k = Kind[r]

\* A call of CreateAccounts is queued once, and answered after that.
WaitingInv ==
  /\ createQueue \in Seq(Creates) /\ DOMAIN results = Creates
  /\ \A i, j \in DOMAIN createQueue : createQueue[i] = createQueue[j] => i = j
  /\ \A i \in DOMAIN createQueue : pc[createQueue[i]] # "idle" /\ results[createQueue[i]] = <<>>
  /\ \A c \in Creates : pc[c] = "idle" => results[c] = <<>>

\* What a call was told of its items: an account that was there, or that it has
\* created, is there, and no other item has created it.
ResultsInv ==
  /\ \A c \in Creates :
       /\ results[c] = <<>> \/ DOMAIN results[c] = DOMAIN Batch[c]
       /\ \A i \in DOMAIN results[c] : results[c][i] \in {"ok", "duplicate"} => Batch[c][i] \in accounts
  /\ \A c, d \in Creates : \A i \in DOMAIN results[c], j \in DOMAIN results[d] :
       results[c][i] = "ok" /\ results[d][j] = "ok" /\ Batch[c][i] = Batch[d][j] => c = d /\ i = j

\* The queues keep their bounds, and the loop stops only when the ledger closes.
BoundsInv ==
  /\ \A k \in Kinds : Len(readQueue[k]) <= QueueSize
  /\ Len(createQueue) <= QueueSize
  /\ loop \in {"serving", "abandoning", "exited"} /\ (loop # "serving" => closing)

ToldInv == StateInv /\ ReadInv /\ WaitingInv /\ ResultsInv /\ BoundsInv

\* More is known about an ID when more is known (GetAccount and its siblings).
LEMMA AboutGrows ==
  ASSUME NEW r \in Reads, NEW S, NEW T, S \subseteq T
  PROVE  about(r, S) \subseteq about(r, T)
BY DEF about

\* What the loop looks up for a read (handleRead and its siblings) covers
\* everything a call can know about the ID, and is something the loop has.
LEMMA LookupCovers ==
  ASSUME StateInv, NEW r \in Reads
  PROVE  about(r, known) \subseteq lookup(Kind[r], Target[r])
<1>1. Kind[r] \in {"account", "transfer", "history"}
  BY KindAssumption, IdAssumption
<1>2. CASE Kind[r] = "account"
  <2>1. lookup(Kind[r], Target[r]) = accounts \cap {Target[r]} /\ about(r, known) = known \cap {Target[r]}
    BY <1>2 DEF lookup, handleRead, about
  <2> QED
    BY <1>2, <2>1, IdAssumption DEF StateInv
<1>3. CASE Kind[r] = "transfer"
  <2>1. lookup(Kind[r], Target[r]) = transfers \cap {Target[r]} /\ about(r, known) = known \cap {Target[r]}
    BY <1>3 DEF lookup, handleReadTransfer, about
  <2> QED
    BY <1>3, <2>1, IdAssumption DEF StateInv
<1>4. CASE Kind[r] = "history"
  <2>1. /\ lookup(Kind[r], Target[r]) = {t \in transfers : Target[r] \in Transfers[t]}
        /\ about(r, known) = {t \in known \cap DOMAIN Transfers : Target[r] \in Transfers[t]}
    BY <1>4 DEF lookup, handleReadAccountTransfers, about
  <2> QED
    BY <2>1, IdAssumption DEF StateInv
<1> QED
  BY <1>1, <1>2, <1>3, <1>4

\* The loop answers with what it has.
LEMMA LookupHas ==
  ASSUME NEW k \in Kinds, NEW id
  PROVE  lookup(k, id) \subseteq accounts \cup transfers
<1>1. k = "account" \/ k = "transfer" \/ k = "history"
  BY IdAssumption
<1>2. CASE k = "account"
  BY <1>2 DEF lookup, handleRead
<1>3. CASE k = "transfer"
  BY <1>3 DEF lookup, handleReadTransfer
<1>4. CASE k = "history"
  BY <1>4 DEF lookup, handleReadAccountTransfers
<1> QED
  BY <1>1, <1>2, <1>3, <1>4

\* Nobody has been told anything in the beginning.
LEMMA InitTold == Init => ToldInv
<1> SUFFICES ASSUME Init PROVE ToldInv
  OBVIOUS
<1>1. StateInv
  BY DEF Init, StateInv, AccountIds
<1>2. ReadInv
  BY DEF Init, ReadInv
<1>3. WaitingInv /\ ResultsInv
  BY DEF Init, WaitingInv, ResultsInv
<1>4. BoundsInv
  BY SizeAssumption DEF Init, BoundsInv
<1> QED
  BY <1>1, <1>2, <1>3, <1>4 DEF ToldInv

\* What the loop has grows, and what is known follows it.
StateGrows == StateInv' /\ accounts \subseteq accounts' /\ transfers \subseteq transfers' /\ known \subseteq known'

\* Every step of a call or of the loop lets the state grow.
LEMMA StateStep ==
  ASSUME IInv, ToldInv, [Next]_vars
  PROVE  StateGrows
<1>1. ASSUME UNCHANGED <<state, known>> PROVE StateGrows
  BY <1>1 DEF ToldInv, StateInv, StateGrows, state
<1>2. ASSUME NEW r \in Reads, ReceiveRead(r) PROVE StateGrows
  <2>1. PICK ch \in chan[r] : buf[ch] # <<>> /\ known' = known \cup Head(buf[ch]).seen
    BY <1>2 DEF ReceiveRead
  <2>2. ch \in Channels
    BY DEF IInv, Types
  <2>3. Head(buf[ch]).seen \subseteq accounts \cup transfers
    BY <2>1, <2>2 DEF ToldInv, ReadInv
  <2>4. UNCHANGED <<accounts, transfers, durable>>
    BY <1>2 DEF ReceiveRead, state
  <2> QED
    BY <2>1, <2>3, <2>4 DEF ToldInv, StateInv, StateGrows
<1>3. ASSUME NEW c \in Creates, ReceiveCreate(c) PROVE StateGrows
  <2>1. UNCHANGED <<accounts, transfers, durable>>
        /\ known' = known \cup {Batch[c][i] : i \in {j \in DOMAIN Batch[c] : results[c][j] \in {"ok", "duplicate"}}}
    BY <1>3 DEF ReceiveCreate, state
  <2>2. ASSUME NEW i \in DOMAIN Batch[c], results[c][i] \in {"ok", "duplicate"}
        PROVE  Batch[c][i] \in accounts
    BY <1>3, <2>2 DEF ToldInv, ResultsInv, ReceiveCreate
  <2> QED
    BY <2>1, <2>2 DEF ToldInv, StateInv, StateGrows
<1>4. CASE processAccountCreate
  <2>1. PICK b : b = Batch[Head(createQueue)]
    OBVIOUS
  <2>2. /\ accounts' = accounts \cup {b[i] : i \in journaled(b)} /\ durable' = durable \cup {b[i] : i \in journaled(b)}
        /\ transfers' = transfers /\ known' = known /\ createQueue # <<>>
    BY <1>4, <2>1 DEF processAccountCreate, serveCreate, finishCreate
  <2>3. Head(createQueue) \in Creates
    BY <2>2 DEF ToldInv, WaitingInv
  <2>4. {b[i] : i \in journaled(b)} \subseteq AccountIds
    BY <2>1, <2>3 DEF journaled, AccountIds
  <2> QED
    BY <2>2, <2>4 DEF ToldInv, StateInv, StateGrows
<1>5. CASE processBatch
  <2>1. PICK t \in DOMAIN Transfers : transfers' = transfers \cup {t} /\ durable' = durable \cup {t} /\ known' = known \cup {t}
    BY <1>5 DEF processBatch
  <2>2. accounts' = accounts
    BY <1>5 DEF processBatch
  <2> QED
    BY <2>1, <2>2 DEF ToldInv, StateInv, StateGrows
<1>6. ASSUME NEW r \in Reads, readCall(r) PROVE StateGrows
  BY <1>1, <1>2, <1>6 DEF readCall, AcquireReadResult, SendRead, CancelRead, GiveUpRead
<1>7. ASSUME NEW c \in Creates, CreateAccounts(c) PROVE StateGrows
  BY <1>1, <1>3, <1>7 DEF CreateAccounts, SendCreate, CancelCreate, CreateClosed
<1>8. CASE Control
  BY <1>1, <1>4, <1>8 DEF Control, ServeRead, processAccountCreateFail, finishCreate, state
<1>9. CASE Exit \/ Close
  BY <1>1, <1>9 DEF Exit, Shutdown, abandonPending, Close, finishCreate, state
<1>10. CASE UNCHANGED vars
  BY <1>1, <1>10 DEF vars
<1> QED
  BY <1>5, <1>6, <1>7, <1>8, <1>9, <1>10 DEF Next, GetAccount, GetTransfer, GetAccountTransfers

\* Steps that leave the reads alone keep what holds of them.
LEMMA ReadSame ==
  ASSUME IInv, ReadInv, StateGrows, UNCHANGED <<channels, readQueue, floor>>
  PROVE  ReadInv'
<1>1. \A r \in Reads : about(r, known) \subseteq about(r, known')
  BY AboutGrows DEF StateGrows
<1>2. \A r \in Reads : about(r, known)' = about(r, known')
  BY DEF about
<1> QED
  BY <1>1, <1>2 DEF ReadInv, StateGrows, channels

\* A read begins with what is known, on an empty channel.
LEMMA ReadAcquire ==
  ASSUME IInv, ReadInv, NEW r \in Reads, AcquireReadResult(r)
  PROVE  ReadInv'
<1>1. PICK ch \in pool[Kind[r]] \cup make : chan' = [chan EXCEPT ![r] = {ch}]
  BY DEF AcquireReadResult
<1>2. UNCHANGED <<buf, readQueue, accounts, transfers, known>> /\ floor' = [floor EXCEPT ![r] = about(r, known)]
  BY DEF AcquireReadResult, state
<1>3. Kind[r] \in Kinds
  BY KindAssumption
<1>4. ch \in Channels /\ free(ch)
  <2>1. CASE ch \in make
    BY <2>1, MakeFresh DEF IInv, Types, FreeInv
  <2>2. CASE ch \in pool[Kind[r]]
    BY <2>2, <1>3 DEF IInv, Types, FreeInv
  <2> QED
    BY <1>1, <2>1, <2>2
<1>5. /\ chan'[r] = {ch} /\ floor'[r] = about(r, known) /\ DOMAIN floor' = Reads
      /\ \A q \in Reads : q # r => chan'[q] = chan[q] /\ floor'[q] = floor[q]
  BY <1>1, <1>2 DEF IInv, Types, ReadInv
<1>6. \A q \in Reads : about(q, known)' = about(q, known)
  BY <1>2 DEF about
<1> QED
  BY <1>2, <1>4, <1>5, <1>6 DEF ReadInv, free, unqueued

\* A read is queued with its kind.
LEMMA ReadSend ==
  ASSUME IInv, ReadInv, NEW r \in Reads, SendRead(r)
  PROVE  ReadInv'
<1>1. PICK ch \in chan[r] :
        readQueue' = [readQueue EXCEPT ![Kind[r]] = Append(@, [id |-> Target[r], result |-> ch])]
  BY DEF SendRead
<1>2. UNCHANGED <<buf, chan, floor, accounts, transfers, known>>
  BY DEF SendRead, channels, state
<1>3. Kind[r] \in Kinds
  BY KindAssumption
<1>4. \A k \in Kinds : \A i \in DOMAIN readQueue'[k] :
        \/ i \in DOMAIN readQueue[k] /\ readQueue'[k][i] = readQueue[k][i]
        \/ k = Kind[r] /\ readQueue'[k][i].result = ch
  BY <1>1, <1>3 DEF IInv, Types
<1>5. \A q \in Reads : \A d \in chan[q] : d = ch => q = r
  BY DEF IInv, CallInv
<1>6. \A q \in Reads : about(q, known)' = about(q, known)
  BY <1>2 DEF about
<1> QED
  BY <1>2, <1>4, <1>5, <1>6 DEF ReadInv

\* A read that returns gives up its channel.
LEMMA ReadReturn ==
  ASSUME IInv, ReadInv, StateGrows, NEW r \in Reads, CancelRead(r) \/ ReceiveRead(r) \/ GiveUpRead(r)
  PROVE  ReadInv'
<1>1. /\ chan' = [chan EXCEPT ![r] = {}] /\ floor' = [floor EXCEPT ![r] = {}]
      /\ readQueue' = readQueue /\ accounts' = accounts /\ transfers' = transfers
  BY DEF CancelRead, ReceiveRead, GiveUpRead, returnRead, state
<1>2. \A d \in Channels : buf'[d] = <<>> \/ buf'[d] = buf[d]
  BY DEF IInv, Types, CancelRead, ReceiveRead, GiveUpRead
<1>3. /\ chan'[r] = {} /\ DOMAIN floor' = Reads
      /\ \A q \in Reads : q # r => chan'[q] = chan[q] /\ floor'[q] = floor[q]
  BY <1>1 DEF IInv, Types, ReadInv
<1>4. \A q \in Reads : about(q, known) \subseteq about(q, known')
  BY AboutGrows DEF StateGrows
<1>5. \A q \in Reads : about(q, known)' = about(q, known')
  BY DEF about
<1>6. \A q \in Reads : chan[q] \subseteq Channels
  BY DEF IInv, Types
<1> QED
  BY <1>1, <1>2, <1>3, <1>4, <1>5, <1>6 DEF ReadInv

\* The loop answers with no less than was known when the read began.
LEMMA ReadServe ==
  ASSUME IInv, StateInv, ReadInv, NEW k \in Kinds, ServeRead(k)
  PROVE  ReadInv'
<1>1. PICK req : req = Head(readQueue[k])
  OBVIOUS
<1>2. PICK ans : ans = [id |-> req.id, seen |-> lookup(k, req.id)]
  OBVIOUS
<1>3. /\ readQueue[k] # <<>> /\ buf' = [buf EXCEPT ![req.result] = <<ans>>]
      /\ readQueue' = [readQueue EXCEPT ![k] = Tail(@)]
      /\ UNCHANGED <<chan, floor, accounts, transfers, known>>
  BY <1>1, <1>2 DEF ServeRead, state
<1>4. 1 \in DOMAIN readQueue[k] /\ req = readQueue[k][1] /\ req.result \in Channels
  <2>1. 1 \in DOMAIN readQueue[k] /\ req = readQueue[k][1] /\ req \in Requests
    BY <1>1, <1>3 DEF IInv, Types
  <2> QED
    BY <2>1 DEF Requests
<1>5. Head(<<ans>>).seen = lookup(k, req.id) /\ Len(<<ans>>) = 1 /\ <<ans>> # <<>>
  BY <1>2
<1>6. \A d \in Channels : buf'[d] = IF d = req.result THEN <<ans>> ELSE buf[d]
  BY <1>3 DEF IInv, Types
<1>7. \A l \in Kinds : \A i \in DOMAIN readQueue'[l] : \E j \in DOMAIN readQueue[l] : readQueue'[l][i] = readQueue[l][j]
  BY <1>3 DEF IInv, Types
<1>8. \A r \in Reads : req.result \in chan[r] => k = Kind[r] /\ req.id = Target[r]
  BY <1>4 DEF IInv, CallInv, QueueInv, ReadInv, free, unqueued
<1>9. \A r \in Reads : req.result \in chan[r] => floor[r] \subseteq lookup(k, req.id)
  BY <1>8, LookupCovers DEF ReadInv
<1>10. lookup(k, req.id) \subseteq accounts \cup transfers
  BY LookupHas
<1>11. \A r \in Reads : about(r, known)' = about(r, known) /\ chan[r] \subseteq Channels
  BY <1>3 DEF about, IInv, Types
<1> QED
  BY <1>3, <1>5, <1>6, <1>7, <1>9, <1>10, <1>11 DEF ReadInv

\* The first call of the queue is served, and told out of its items.
served(out) ==
  /\ createQueue # <<>> /\ createQueue' = Tail(createQueue)
  /\ results' = [results EXCEPT ![Head(createQueue)] = out]
  /\ pc' = pc

\* A served call leaves the queue; nobody else's answer changes.
LEMMA ServedStep ==
  ASSUME WaitingInv, NEW out, served(out)
  PROVE  /\ WaitingInv' /\ Head(createQueue) \in Creates /\ results[Head(createQueue)] = <<>>
         /\ \A c \in Creates : results'[c] = IF c = Head(createQueue) THEN out ELSE results[c]
<1>1. PICK h : h = Head(createQueue)
  OBVIOUS
<1>2. h \in Creates /\ 1 \in DOMAIN createQueue /\ h = createQueue[1]
  BY <1>1 DEF WaitingInv, served
<1>3. \A c \in Creates : results'[c] = IF c = h THEN out ELSE results[c]
  BY <1>1 DEF WaitingInv, served
<1>4. /\ createQueue' \in Seq(Creates) /\ DOMAIN results' = Creates
      /\ \A i \in DOMAIN createQueue' : i \in Nat /\ i + 1 \in DOMAIN createQueue /\ createQueue'[i] = createQueue[i + 1] /\ i + 1 # 1
  BY DEF WaitingInv, served
<1>5. \A i, j \in DOMAIN createQueue' : createQueue'[i] = createQueue'[j] => i = j
  BY <1>4 DEF WaitingInv
<1>6. \A i \in DOMAIN createQueue' : createQueue'[i] # h /\ createQueue'[i] \in Creates
  BY <1>2, <1>4 DEF WaitingInv
<1>7. \A i \in DOMAIN createQueue' : pc'[createQueue'[i]] # "idle" /\ results'[createQueue'[i]] = <<>>
  BY <1>3, <1>4, <1>6 DEF WaitingInv, served
<1>8. \A c \in Creates : pc'[c] = "idle" => results'[c] = <<>>
  BY <1>2, <1>3 DEF WaitingInv, served
<1>9. results[h] = <<>>
  BY <1>2 DEF WaitingInv
<1> QED
  BY <1>1, <1>2, <1>3, <1>4, <1>5, <1>7, <1>8, <1>9 DEF WaitingInv

\* processAccountCreate tells one item of its batch at most that it has created
\* an account, and only if the account was not there.
LEMMA CreateStep ==
  ASSUME ToldInv, StateGrows, processAccountCreate
  PROVE  WaitingInv' /\ ResultsInv'
<1>1. PICK h : h = Head(createQueue)
  OBVIOUS
<1>2. PICK b : b = Batch[h]
  OBVIOUS
<1>3. served(createOutcomes(b)) /\ accounts' = accounts \cup {b[i] : i \in journaled(b)}
  BY <1>1, <1>2 DEF processAccountCreate, serveCreate, finishCreate, served
<1>4. /\ WaitingInv' /\ h \in Creates /\ results[h] = <<>>
      /\ \A c \in Creates : results'[c] = IF c = h THEN createOutcomes(b) ELSE results[c]
  BY <1>1, <1>3, ServedStep DEF ToldInv
<1>5. b \in Seq(AccountIds)
  BY <1>2, <1>4, IdAssumption
<1>6. /\ DOMAIN createOutcomes(b) = DOMAIN b
      /\ \A i \in DOMAIN b : b[i] \in accounts'
      /\ \A i \in DOMAIN b : createOutcomes(b)[i] = "ok" => b[i] \notin accounts
      /\ \A i, j \in DOMAIN b : createOutcomes(b)[i] = "ok" /\ j < i => b[j] # b[i]
  BY <1>3, <1>5 DEF createOutcomes, journaled
<1>7. \A i, j \in DOMAIN b : createOutcomes(b)[i] = "ok" /\ createOutcomes(b)[j] = "ok" /\ b[i] = b[j] => i = j
  <2>1. \A i, j \in DOMAIN b : i < j \/ j < i \/ i = j
    BY <1>5
  <2> QED
    BY <1>6, <2>1
<1>8. \A c \in Creates :
        /\ results'[c] = <<>> \/ DOMAIN results'[c] = DOMAIN Batch[c]
        /\ \A i \in DOMAIN results'[c] : results'[c][i] \in {"ok", "duplicate"} => Batch[c][i] \in accounts'
  BY <1>2, <1>3, <1>4, <1>6 DEF ToldInv, ResultsInv
<1>9. ASSUME NEW c \in Creates, NEW d \in Creates, NEW i \in DOMAIN results'[c], NEW j \in DOMAIN results'[d],
             results'[c][i] = "ok", results'[d][j] = "ok", Batch[c][i] = Batch[d][j]
      PROVE  c = d /\ i = j
  <2>1. CASE c # h /\ d # h
    BY <1>4, <1>9, <2>1 DEF ToldInv, ResultsInv
  <2>2. CASE c = h /\ d = h
    BY <1>2, <1>4, <1>6, <1>7, <1>9, <2>2
  <2>3. CASE c = h /\ d # h
    BY <1>2, <1>4, <1>6, <1>9, <2>3 DEF ToldInv, ResultsInv
  <2>4. CASE c # h /\ d = h
    BY <1>2, <1>4, <1>6, <1>9, <2>4 DEF ToldInv, ResultsInv
  <2> QED
    BY <2>1, <2>2, <2>3, <2>4
<1> QED
  BY <1>4, <1>8, <1>9 DEF ResultsInv

\* A failed write and a shutdown tell nobody that an account was created, and of
\* a duplicate only where the account is there.
LEMMA RefuseStep ==
  ASSUME ToldInv, StateGrows, NEW out, served(out),
         DOMAIN out = DOMAIN Batch[Head(createQueue)],
         \A i \in DOMAIN out : /\ out[i] # "ok"
                               /\ out[i] = "duplicate" => Batch[Head(createQueue)][i] \in accounts
  PROVE  WaitingInv' /\ ResultsInv'
<1>1. PICK h : h = Head(createQueue)
  OBVIOUS
<1>2. /\ WaitingInv' /\ h \in Creates
      /\ \A c \in Creates : results'[c] = IF c = h THEN out ELSE results[c]
  BY <1>1, ServedStep DEF ToldInv
<1>3. \A c \in Creates :
        /\ results'[c] = <<>> \/ DOMAIN results'[c] = DOMAIN Batch[c]
        /\ \A i \in DOMAIN results'[c] : results'[c][i] \in {"ok", "duplicate"} => Batch[c][i] \in accounts'
  BY <1>1, <1>2 DEF ToldInv, ResultsInv, StateGrows
<1>4. \A c, d \in Creates : \A i \in DOMAIN results'[c], j \in DOMAIN results'[d] :
        results'[c][i] = "ok" /\ results'[d][j] = "ok" /\ Batch[c][i] = Batch[d][j] => c = d /\ i = j
  BY <1>1, <1>2 DEF ToldInv, ResultsInv
<1> QED
  BY <1>2, <1>3, <1>4 DEF ResultsInv

\* A call of CreateAccounts is queued when it has not been queued before.
LEMMA SendCreateStep ==
  ASSUME IInv, WaitingInv, NEW c \in Creates, SendCreate(c)
  PROVE  WaitingInv'
<1>1. /\ pc[c] = "idle" /\ pc' = [pc EXCEPT ![c] = "waiting"] /\ c \in Calls
      /\ createQueue' = Append(createQueue, c) /\ results' = results
  BY DEF SendCreate, goto, Calls
<1>2. pc'[c] = "waiting" /\ \A d \in Creates : d # c => pc'[d] = pc[d]
  BY <1>1 DEF IInv, Types, Calls
<1>3. /\ createQueue' \in Seq(Creates)
      /\ \A i \in DOMAIN createQueue' :
           \/ i \in DOMAIN createQueue /\ createQueue'[i] = createQueue[i]
           \/ i = Len(createQueue) + 1 /\ createQueue'[i] = c
  BY <1>1 DEF WaitingInv
<1>4. \A i \in DOMAIN createQueue : createQueue[i] # c /\ createQueue[i] \in Creates
  BY <1>1 DEF WaitingInv
<1>5. \A i, j \in DOMAIN createQueue' : createQueue'[i] = createQueue'[j] => i = j
  BY <1>3, <1>4 DEF WaitingInv
<1>6. \A i \in DOMAIN createQueue' : pc'[createQueue'[i]] # "idle" /\ results'[createQueue'[i]] = <<>>
  BY <1>1, <1>2, <1>3, <1>4 DEF WaitingInv
<1> QED
  BY <1>1, <1>2, <1>3, <1>5, <1>6 DEF WaitingInv

\* Steps that leave account creation alone keep what holds of it.
LEMMA CreateSame ==
  ASSUME ToldInv, StateGrows, UNCHANGED creating, \A c \in Creates : pc'[c] = "idle" => pc[c] = "idle"
  PROVE  WaitingInv' /\ ResultsInv'
<1>1. createQueue' = createQueue /\ results' = results
  BY DEF creating
<1>2. WaitingInv'
  <2>1. \A i \in DOMAIN createQueue : createQueue[i] \in Creates
    BY DEF ToldInv, WaitingInv
  <2> QED
    BY <1>1, <2>1 DEF ToldInv, WaitingInv
<1>3. ResultsInv'
  BY <1>1 DEF ToldInv, ResultsInv, StateGrows
<1> QED
  BY <1>2, <1>3

\* The queues do not outgrow their slots, and only a closed ledger stops its loop.
LEMMA BoundsStep ==
  ASSUME IInv, ToldInv, [Next]_vars
  PROVE  BoundsInv'
<1>1. ASSUME UNCHANGED <<readQueue, createQueue, life>> PROVE BoundsInv'
  BY <1>1 DEF ToldInv, BoundsInv, life
<1>2. ASSUME NEW r \in Reads, readCall(r) PROVE BoundsInv'
  <2>1. CASE SendRead(r)
    <3>1. PICK ch \in chan[r] :
            readQueue' = [readQueue EXCEPT ![Kind[r]] = Append(@, [id |-> Target[r], result |-> ch])]
      BY <2>1 DEF SendRead
    <3>2. Len(readQueue[Kind[r]]) < QueueSize /\ UNCHANGED <<createQueue, loop, closing>>
      BY <2>1 DEF SendRead, creating, life
    <3>3. \A k \in Kinds : readQueue[k] \in Seq(Requests) /\ Len(readQueue[k]) \in Nat /\ DOMAIN readQueue = Kinds
      BY DEF IInv, Types
    <3>4. \A k \in Kinds : Len(readQueue'[k]) <= QueueSize
      BY <3>1, <3>2, <3>3, SizeAssumption DEF ToldInv, BoundsInv
    <3> QED
      BY <3>2, <3>4 DEF ToldInv, BoundsInv
  <2> QED
    BY <1>1, <1>2, <2>1 DEF readCall, AcquireReadResult, CancelRead, ReceiveRead, GiveUpRead, creating
<1>3. ASSUME NEW c \in Creates, CreateAccounts(c) PROVE BoundsInv'
  <2>1. CASE SendCreate(c)
    <3>1. /\ createQueue' = Append(createQueue, c) /\ Len(createQueue) < QueueSize
          /\ UNCHANGED <<readQueue, loop, closing>>
      BY <2>1 DEF SendCreate, life
    <3>2. createQueue \in Seq(Creates)
      BY DEF ToldInv, WaitingInv
    <3>3. Len(createQueue') <= QueueSize
      BY <3>1, <3>2, SizeAssumption
    <3> QED
      BY <3>1, <3>3 DEF ToldInv, BoundsInv
  <2> QED
    BY <1>1, <1>3, <2>1 DEF CreateAccounts, CancelCreate, ReceiveCreate, CreateClosed, creating
<1>4. ASSUME NEW k \in Kinds, ServeRead(k) PROVE BoundsInv'
  <2>1. readQueue[k] # <<>> /\ readQueue' = [readQueue EXCEPT ![k] = Tail(@)] /\ UNCHANGED <<createQueue, loop, closing>>
    BY <1>4 DEF ServeRead, creating, life
  <2>2. readQueue \in [Kinds -> Seq(Requests)] /\ \A l \in Kinds : Len(readQueue[l]) <= QueueSize
    BY DEF IInv, Types, ToldInv, BoundsInv
  <2>3. \A l \in Kinds : readQueue'[l] = IF l = k THEN Tail(readQueue[k]) ELSE readQueue[l]
    BY <2>1, <2>2
  <2>4. Len(Tail(readQueue[k])) <= QueueSize
    <3>1. readQueue[k] \in Seq(Requests)
      BY <2>2
    <3> QED
      BY <2>1, <2>2, <3>1, SizeAssumption
  <2> QED
    BY <2>1, <2>2, <2>3, <2>4 DEF ToldInv, BoundsInv
<1>5. ASSUME NEW out, createQueue # <<>>, finishCreate(out) PROVE BoundsInv'
  <2>1. createQueue' = Tail(createQueue) /\ UNCHANGED <<readQueue, loop, closing>> /\ createQueue \in Seq(Creates)
    BY <1>5 DEF finishCreate, life, ToldInv, WaitingInv
  <2>2. Len(createQueue') <= QueueSize
    BY <1>5, <2>1, SizeAssumption DEF ToldInv, BoundsInv
  <2> QED
    BY <2>1, <2>2 DEF ToldInv, BoundsInv
<1>6. CASE processAccountCreate \/ processAccountCreateFail
  BY <1>5, <1>6 DEF processAccountCreate, processAccountCreateFail, serveCreate
<1>7. CASE Exit
  <2>1. CASE loop' \in {"abandoning", "exited"} /\ closing' = closing /\ closing /\ UNCHANGED <<readQueue, createQueue>>
    BY <2>1 DEF ToldInv, BoundsInv
  <2>2. loop = "abandoning" => closing
    BY DEF ToldInv, BoundsInv
  <2> QED
    BY <1>5, <1>7, <2>1, <2>2 DEF Exit, Shutdown, abandonPending, creating
<1>8. CASE Close
  BY <1>8 DEF Close, ToldInv, BoundsInv, creating
<1>9. CASE processBatch \/ UNCHANGED vars
  BY <1>1, <1>9 DEF processBatch, vars, creating
<1> QED
  BY <1>2, <1>3, <1>4, <1>6, <1>7, <1>8, <1>9 DEF Next, GetAccount, GetTransfer, GetAccountTransfers, Control

\* Every step keeps what calls were told true.
LEMMA NextTold == IInv /\ ToldInv /\ [Next]_vars => ToldInv'
<1> SUFFICES ASSUME IInv, ToldInv, [Next]_vars PROVE ToldInv'
  OBVIOUS
<1>1. StateGrows /\ BoundsInv'
  BY StateStep, BoundsStep
<1>2. ASSUME ReadInv', WaitingInv', ResultsInv' PROVE ToldInv'
  BY <1>1, <1>2 DEF ToldInv, StateGrows
<1>3. ASSUME NEW r \in Reads, readCall(r) PROVE ToldInv'
  <2>1. ReadInv'
    BY <1>1, <1>3, ReadAcquire, ReadSend, ReadReturn DEF ToldInv, readCall
  <2>2. UNCHANGED creating /\ \E s \in {"queueing", "waiting", "returned"} : pc' = [pc EXCEPT ![r] = s]
    BY <1>3 DEF readCall, AcquireReadResult, SendRead, CancelRead, ReceiveRead, GiveUpRead, returnRead, goto
  <2>3. \A c \in Creates : pc'[c] = "idle" => pc[c] = "idle"
    BY <2>2 DEF IInv, Types, Calls
  <2> QED
    BY <1>1, <1>2, <2>1, <2>2, <2>3, CreateSame
<1>4. ASSUME NEW c \in Creates, CreateAccounts(c) PROVE ToldInv'
  <2>1. ReadInv'
    BY <1>1, <1>4, ReadSame DEF ToldInv, CreateAccounts, SendCreate, CancelCreate, ReceiveCreate, CreateClosed
  <2>2. CASE SendCreate(c)
    <3>1. results' = results
      BY <2>2 DEF SendCreate
    <3>2. WaitingInv'
      BY <2>2, SendCreateStep DEF ToldInv
    <3>3. ResultsInv /\ accounts \subseteq accounts'
      BY <1>1 DEF ToldInv, StateGrows
    <3>4. ResultsInv'
      BY <3>1, <3>3 DEF ResultsInv
    <3> QED
      BY <1>2, <2>1, <3>2, <3>4
  <2>3. CASE ~SendCreate(c)
    <3>1. UNCHANGED creating /\ pc' = [pc EXCEPT ![c] = "returned"]
      BY <1>4, <2>3 DEF CreateAccounts, CancelCreate, ReceiveCreate, CreateClosed, goto
    <3>2. \A d \in Creates : pc'[d] = "idle" => pc[d] = "idle"
      BY <3>1 DEF IInv, Types, Calls
    <3> QED
      BY <1>1, <1>2, <2>1, <3>1, <3>2, CreateSame
  <2> QED
    BY <2>2, <2>3
<1>5. ASSUME NEW k \in Kinds, ServeRead(k) PROVE ToldInv'
  BY <1>1, <1>2, <1>5, ReadServe, CreateSame DEF ToldInv, ServeRead
<1>6. ASSUME NEW out, createQueue # <<>>, finishCreate(out) PROVE served(out) /\ ReadInv'
  BY <1>1, <1>6, ReadSame DEF ToldInv, finishCreate, served
<1>7. CASE processAccountCreate
  BY <1>1, <1>2, <1>6, <1>7, CreateStep DEF processAccountCreate, serveCreate
<1>8. CASE processAccountCreateFail
  <2>1. PICK b : b = Batch[Head(createQueue)]
    OBVIOUS
  <2>2. PICK out : out = [i \in DOMAIN b |-> IF i \in journaled(b) THEN "error" ELSE "duplicate"]
    OBVIOUS
  <2>3. createQueue # <<>> /\ finishCreate(out)
    BY <1>8, <2>1, <2>2 DEF processAccountCreateFail, serveCreate
  <2>4. DOMAIN out = DOMAIN b /\ \A i \in DOMAIN out : out[i] # "ok" /\ (out[i] = "duplicate" => b[i] \in accounts)
    BY <2>2 DEF journaled
  <2> QED
    BY <1>1, <1>2, <1>6, <2>1, <2>3, <2>4, RefuseStep
<1>9. CASE abandonPending
  <2>1. PICK out : out = [i \in DOMAIN Batch[Head(createQueue)] |-> "closed"]
    OBVIOUS
  <2>2. CASE createQueue # <<>>
    <3>1. finishCreate(out)
      BY <1>9, <2>1, <2>2 DEF abandonPending
    <3> QED
      BY <1>1, <1>2, <1>6, <2>1, <2>2, <3>1, RefuseStep
  <2>3. CASE createQueue = <<>>
    BY <1>1, <1>2, <1>9, <2>3, ReadSame, CreateSame DEF ToldInv, abandonPending
  <2> QED
    BY <2>2, <2>3
<1>10. CASE Shutdown \/ Close \/ processBatch
  BY <1>1, <1>2, <1>10, ReadSame, CreateSame DEF ToldInv, Shutdown, Close, processBatch
<1>11. CASE UNCHANGED vars
  BY <1>1, <1>2, <1>11, ReadSame, CreateSame DEF ToldInv, vars
<1> QED
  BY <1>3, <1>4, <1>5, <1>7, <1>8, <1>9, <1>10, <1>11
     DEF Next, GetAccount, GetTransfer, GetAccountTransfers, Control, Exit

\* What calls were told stays true, in every behaviour.
THEOREM ToldInvariance == Spec => []ToldInv
  BY Invariance, InitTold, NextTold, PTL DEF Spec

\* A read sees everything that was acknowledged before it began, and nothing that
\* a crash could take back (handleRead and its siblings in loop.go).
THEOREM FreshReads == Spec => []ReadsFresh
<1>1. IInv /\ ToldInv => ReadsFresh
  <2> SUFFICES ASSUME IInv, ToldInv, NEW r \in Reads, NEW ch \in chan[r], buf[ch] # <<>>
               PROVE  floor[r] \subseteq Head(buf[ch]).seen /\ Head(buf[ch]).seen \subseteq durable
    BY DEF ReadsFresh
  <2>1. ch \in Channels
    BY DEF IInv, Types
  <2> QED
    BY <2>1 DEF ToldInv, ReadInv, StateInv
<1> QED
  BY <1>1, Invariance, ToldInvariance, PTL

\* However account batches compete for an ID (processAccountCreate), one item at
\* most is told that it created the account, and the account is durable.
THEOREM UniqueCreation == Spec => []CreatedOnce
<1>1. ASSUME ToldInv PROVE CreatedOnce
  <2>1. ASSUME NEW p \in created
        PROVE  /\ p[1] \in Creates /\ p[2] \in DOMAIN results[p[1]] /\ results[p[1]][p[2]] = "ok"
               /\ p = <<p[1], p[2]>>
    BY <2>1 DEF created
  <2>2. \A p, q \in created : Batch[p[1]][p[2]] = Batch[q[1]][q[2]] => p = q
    BY <1>1, <2>1 DEF ToldInv, ResultsInv
  <2>3. \A p \in created : Batch[p[1]][p[2]] \in durable
    BY <1>1, <2>1 DEF ToldInv, ResultsInv, StateInv
  <2> QED
    BY <1>1, <2>2, <2>3 DEF CreatedOnce, ToldInv, ResultsInv
<1> QED
  BY <1>1, ToldInvariance, PTL

\* Channels hold one result at most, queues keep to their slots, and the loop
\* stops serving only when the ledger closes (event.go, loop.go).
THEOREM TypeCorrectness == Spec => []TypeOK
<1>1. IInv /\ ToldInv => TypeOK
  <2> SUFFICES ASSUME IInv, ToldInv PROVE TypeOK
    OBVIOUS
  <2>1. pool \in [Kinds -> SUBSET made] /\ made \subseteq Channels
    BY DEF IInv, Types, FreeInv
  <2>2. ASSUME NEW ch \in Channels PROVE Len(buf[ch]) <= 1
    <3>1. CASE buf[ch] = <<>>
      BY <3>1
    <3>2. CASE buf[ch] # <<>>
      <4>1. Len(buf[ch]) = 1
        BY <3>2 DEF ToldInv, ReadInv
      <4> QED
        BY <4>1
    <3> QED
      BY <3>1, <3>2
  <2> QED
    BY <2>1, <2>2 DEF TypeOK, IInv, Types, ToldInv, BoundsInv
<1> QED
  BY <1>1, Invariance, ToldInvariance, PTL

=============================================================================
