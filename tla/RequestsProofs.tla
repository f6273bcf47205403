---------------------------- MODULE RequestsProofs ----------------------------
(***************************************************************************)
(* One transfer per idempotency key, one answer per key, no event dropped  *)
(* and no key left reserved, for any calls, batch sizes, keys, store and   *)
(* ring sizes.                                                             *)
(*                                                                         *)
(* A key is loose once a reservation or a result of it was given up, has   *)
(* expired or was evicted.  The argument is about the others: an item that *)
(* is on its way owns the pending entry of its key, so there is one such   *)
(* item per key; and a committed transfer is in the store, or it is the    *)
(* item on its way, answered and not settled yet.  The other way round,    *)
(* every pending entry a call owns is the key of an item it has not        *)
(* settled, so none is left when it returns.                               *)
(***************************************************************************)
EXTENDS Requests, TLAPS

\* Leaves with arithmetic, or too many functions and records for Zenon, name SMT.
USE Zenon

States == {"begin", "lock", "submit", "wait", "settle", "done"}
Events == [r : Requests, item : Nat]
keyOfEvent(e) == Key(e.r, e.item)

\* The types the argument needs.
StoreTypes == \A k \in DOMAIN entries : entries[k].pending \in BOOLEAN
Types ==
  /\ pc \in [Requests -> States] /\ item \in [Requests -> Nat]
  /\ events \in [Requests -> Seq(Nat)] /\ queue \in Seq(Events)
  /\ DOMAIN at = Requests /\ DOMAIN acks = Requests /\ DOMAIN result = Requests
  /\ applied \in SUBSET Events
  /\ StoreTypes

\* Results in the store are committed transfers with the key.
StoreInv ==
  /\ \A k \in DOMAIN entries :
       k # NoKey /\ (~entries[k].pending => entries[k].transfer \in applied /\ keyOfEvent(entries[k].transfer) = k)
  /\ \A e \in applied : e.item \in DOMAIN Items[e.r]

QueueDistinct == \A a, b \in DOMAIN queue : queue[a] = queue[b] => a = b

\* What a call sends: distinct items of its own with distinct keys.
Sends(r) ==
  /\ \A j \in DOMAIN events[r] : events[r][j] \in DOMAIN Items[r]
  /\ \A j, k \in DOMAIN events[r] :
       events[r][j] = events[r][k] \/ (Key(r, events[r][j]) = Key(r, events[r][k]) /\ Key(r, events[r][j]) # NoKey)
         => j = k

\* It reserves them in order ...
Reserves(r) ==
  /\ pc[r] \in {"begin", "lock"} =>
       /\ DOMAIN acks[r] = {} /\ item[r] \in DOMAIN Items[r]
       /\ \A j \in DOMAIN events[r] : events[r][j] < item[r]
  /\ pc[r] = "lock" => key(r) # NoKey /\ \A j \in DOMAIN events[r] : Key(r, events[r][j]) # key(r)

\* ... then submits them in order, then settles them in order.
Submits(r) ==
  /\ pc[r] = "submit" => \A j \in DOMAIN events[r] : item[r] <= j => events[r][j] \notin DOMAIN acks[r]
  /\ pc[r] \in {"submit", "wait", "settle"} => item[r] \in DOMAIN events[r]
  /\ pc[r] = "wait" => item[r] = 1
  /\ pc[r] = "settle" => \A j \in DOMAIN events[r] : events[r][j] \in DOMAIN acks[r]
  /\ pc[r] = "done" => events[r] = <<>>
  /\ r \in Unary => /\ pc[r] \in {"submit", "wait"} => events[r] = <<1>>
                    /\ pc[r] # "settle"

EventsOK(r) == Sends(r) /\ Reserves(r) /\ Submits(r)

\* Queued events are not answered; those of a call that has returned have loose
\* keys or none.
QueueOK(r) ==
  \A a \in DOMAIN queue : queue[a].r = r =>
    /\ queue[a].item \in DOMAIN Items[r]
    /\ \/ /\ pc[r] \in {"submit", "wait"} /\ queue[a].item \notin DOMAIN acks[r]
          /\ \E j \in DOMAIN events[r] : events[r][j] = queue[a].item /\ (pc[r] = "submit" => j < item[r])
       \/ pc[r] = "done" /\ Key(r, queue[a].item) \in loose \cup {NoKey}

\* Answers belong to their event; a good one is of a committed transfer.
AcksOK(r) ==
  \A i \in DOMAIN acks[r] :
    /\ acks[r][i].ok \in BOOLEAN /\ acks[r][i].key \in {NoKey, Key(r, i)}
    /\ acks[r][i].ok => /\ acks[r][i].x = [r |-> r, item |-> i] /\ [r |-> r, item |-> i] \in applied
                        /\ acks[r][i].key = Key(r, i)
    /\ ~acks[r][i].ok => acks[r][i].x = Nobody

\* What a call returns for an item is an error or a committed transfer with the
\* item's key.
isResult(r, i, x) == x = Nobody \/ (x \in applied /\ keyOfEvent(x) = Key(r, i))
areResults(r, res) == \A i \in DOMAIN res : isResult(r, i, res[i])
ResultsOK(r) == areResults(r, result[r])

strict(k) == k \notin loose \cup {NoKey}

\* Item i of call r is on its way: not settled, and not answered without its
\* key.
holds(r, i) ==
  /\ \E j \in DOMAIN events[r] : events[r][j] = i /\ (pc[r] = "settle" => item[r] <= j)
  /\ r \in Unary \/ (i \in DOMAIN acks[r] => acks[r][i].key # NoKey)

reservedBy(k, r) == k \in DOMAIN entries /\ entries[k].pending /\ entries[k].owner = r
stored(e) ==
  /\ keyOfEvent(e) \in DOMAIN entries
  /\ ~entries[keyOfEvent(e)].pending /\ entries[keyOfEvent(e)].transfer = e
answered(e) == holds(e.r, e.item) /\ e.item \in DOMAIN acks[e.r] /\ acks[e.r][e.item].ok

\* An item on its way owns the pending entry of its key.
ReservedOK(r) == \A i \in DOMAIN Items[r] : holds(r, i) /\ strict(Key(r, i)) => reservedBy(Key(r, i), r)

\* A committed transfer is in the store, or on its way and answered.
CommittedOK(r) == \A e \in applied : e.r = r /\ strict(keyOfEvent(e)) => stored(e) \/ answered(e)

\* What a call has submitted is answered or queued.
WaitOK(r) ==
  pc[r] \in {"submit", "wait"} =>
    \A j \in DOMAIN events[r] : (pc[r] = "submit" => j < item[r]) =>
      events[r][j] \in DOMAIN acks[r] \/ queued(r, events[r][j])

CallInv(r) ==
  EventsOK(r) /\ QueueOK(r) /\ AcksOK(r) /\ ResultsOK(r) /\ ReservedOK(r) /\ CommittedOK(r) /\ WaitOK(r)

IState == Types /\ StoreInv /\ QueueDistinct /\ \A r \in Requests : CallInv(r)

\* IInv names it in statements; a proof opens IInv once and IState where it
\* is used.
IInv == IState

-----------------------------------------------------------------------------
(* The store *)

\* removed takes the keys K out of the map (removeElement).
LEMMA RemovedEntries ==
  ASSUME NEW s, NEW K
  PROVE  /\ DOMAIN removed(s, K).e = DOMAIN s.e \ K
         /\ \A k \in DOMAIN s.e \ K : removed(s, K).e[k] = s.e[k]
  BY DEF removed, without

\* toHead sets the entry of k (insertHead, MoveToFront).
LEMMA InsertedEntries ==
  ASSUME NEW s, NEW k, NEW e
  PROVE  /\ DOMAIN toHead(s, k, e).e = DOMAIN s.e \cup {k}
         /\ toHead(s, k, e).e[k] = e
         /\ \A m \in DOMAIN s.e : m # k => toHead(s, k, e).e[m] = s.e[m]
  BY DEF toHead, with

\* Eviction only removes entries (evictExpiredLocked, evictLRULocked).
LEMMA Evicted ==
  ASSUME NEW s, NEW t
  PROVE  /\ \E K : evictExpiredLocked(s, t) = removed(s, K)
         /\ \E K : evictLRU(s) = removed(s, K)
  BY DEF evictExpiredLocked, evictLRU

\* Commit sets the entry of k; every other entry stays, and what is evicted, k
\* included, is loose.
LEMMA CommitStore ==
  ASSUME NEW k, NEW r, NEW x, Commit(k, r, x)
  PROVE  /\ loose \subseteq loose'
         /\ \A m \in DOMAIN entries \cup {k} : m \in DOMAIN entries' \/ m \in loose'
         /\ \A m \in DOMAIN entries' :
              \/ m = k /\ entries'[m] = entry(FALSE, now, r, x)
              \/ m # k /\ m \in DOMAIN entries /\ entries'[m] = entries[m]
<1> DEFINE s1 == evictExpiredLocked(theStore, now)
           new == entry(FALSE, now, r, x)
           s2 == toHead(s1, k, new)
           s3 == evictLRU(s2)
<1>1. entries' = s3.e /\ loose' = loose \cup ((DOMAIN entries \cup {k}) \ DOMAIN s3.e)
  BY DEF Commit
<1>2. PICK K1 : s1 = removed(theStore, K1)
  BY Evicted
<1>3. PICK K2 : s3 = removed(s2, K2)
  BY Evicted
<1>4. theStore.e = entries
  BY DEF theStore
<1>5. DOMAIN s1.e = DOMAIN entries \ K1 /\ \A m \in DOMAIN s1.e : s1.e[m] = entries[m]
  BY SMTT(30), <1>2, <1>4, RemovedEntries
<1> HIDE DEF s1, new
<1>6. /\ DOMAIN s2.e = DOMAIN s1.e \cup {k} /\ s2.e[k] = new
      /\ \A m \in DOMAIN s1.e : m # k => s2.e[m] = s1.e[m]
  BY SMTT(30), InsertedEntries
<1> HIDE DEF s2
<1>7. DOMAIN s3.e = DOMAIN s2.e \ K2 /\ \A m \in DOMAIN s3.e : s3.e[m] = s2.e[m]
  BY SMTT(30), <1>3, RemovedEntries
<1> HIDE DEF s3
<1> QED
  BY <1>1, <1>5, <1>6, <1>7 DEF new

\* Rollback removes pending entries of its keys and nothing else.
LEMMA RollbackStore ==
  ASSUME NEW K, Rollback(K)
  PROVE  /\ \A m \in DOMAIN entries' : m \in DOMAIN entries /\ entries'[m] = entries[m]
         /\ \A m \in DOMAIN entries : m \in DOMAIN entries' \/ (m \in K /\ entries[m].pending)
<1> DEFINE L == {k \in K \cap DOMAIN entries : entries[k].pending}
<1>1. entries' = removed(theStore, L).e /\ theStore.e = entries
  BY DEF Rollback, theStore
<1>2. DOMAIN entries' = DOMAIN entries \ L /\ \A m \in DOMAIN entries \ L : entries'[m] = entries[m]
  BY SMTT(30), <1>1, RemovedEntries
<1> QED
  BY <1>2

\* The write-locked part of CheckAndReserve: it evicts, and then leaves a
\* pending entry alone, answers with one that is there, or makes a new one.
LEMMA ReserveStore ==
  ASSUME NEW r \in Requests, Reserve(r)
  PROVE  /\ loose \subseteq loose'
         /\ \A m \in DOMAIN entries : m \in loose' \/ (m \in DOMAIN entries' /\ entries'[m] = entries[m])
         /\ \A m \in DOMAIN entries' : (m \in DOMAIN entries /\ entries'[m] = entries[m])
                                         \/ (m = key(r) /\ entries'[m] = entry(TRUE, at[r], r, Nobody))
         /\ \/ /\ pc' = [pc EXCEPT ![r] = "begin"] /\ at' = [at EXCEPT ![r] = 0]
               /\ UNCHANGED <<item, events, acks, result>>
               /\ \A m \in DOMAIN entries' : m \in DOMAIN entries /\ entries'[m] = entries[m]
            \/ /\ key(r) \in DOMAIN entries /\ ~entries[key(r)].pending
               /\ answer(r, entries[key(r)].transfer)
               /\ \A m \in DOMAIN entries' : m \in DOMAIN entries /\ entries'[m] = entries[m]
            \/ /\ key(r) \in DOMAIN entries' /\ entries'[key(r)] = entry(TRUE, at[r], r, Nobody)
               /\ send(r)
<1> DEFINE k == key(r)
           s == evictExpiredLocked(theStore, at[r])
           kept == k \in DOMAIN s.e /\ s.e[k].pending
           e == IF found(s, k, at[r]) THEN s.e[k] ELSE entry(TRUE, at[r], r, Nobody)
           h == toHead(s, k, e)
<1>1. PICK K : s = removed(theStore, K)
  BY Evicted
<1>2. theStore.e = entries
  BY DEF theStore
<1>3. DOMAIN s.e = DOMAIN entries \ K /\ \A m \in DOMAIN s.e : s.e[m] = entries[m]
  BY SMTT(30), <1>1, <1>2, RemovedEntries
<1> HIDE DEF k, s, e
<1>4. /\ DOMAIN h.e = DOMAIN s.e \cup {k} /\ h.e[k] = e
      /\ \A m \in DOMAIN s.e : m # k => h.e[m] = s.e[m]
  BY SMTT(30), InsertedEntries
<1> HIDE DEF h
<1>5. /\ entries' = IF kept THEN s.e ELSE h.e
      /\ loose' = loose \cup {x \in DOMAIN entries : x \notin DOMAIN s.e}
                        \cup (IF k \in DOMAIN s.e /\ ~s.e[k].pending /\ ~found(s, k, at[r]) THEN {k} ELSE {})
      /\ IF kept
         THEN pc' = [pc EXCEPT ![r] = "begin"] /\ at' = [at EXCEPT ![r] = 0] /\ UNCHANGED <<item, events, acks, result>>
         ELSE IF found(s, k, at[r]) THEN answer(r, s.e[k].transfer) ELSE send(r)
  BY DEF Reserve, h, e, s, k
<1>6. found(s, k, at[r]) => k \in DOMAIN s.e /\ ~s.e[k].pending
  BY DEF found
<1>7. CASE kept
  BY <1>3, <1>5, <1>7
<1>8. CASE ~kept /\ found(s, k, at[r])
  BY <1>3, <1>4, <1>5, <1>6 DEF k, e
<1>9. CASE ~kept /\ ~found(s, k, at[r])
  BY <1>3, <1>4, <1>5, <1>9 DEF k, e
<1> QED
  BY <1>7, <1>8, <1>9

-----------------------------------------------------------------------------
(* Steps of one call *)

\* Only the locals of r change.
Others(r) ==
  \A q \in Requests \ {r} : /\ pc'[q] = pc[q] /\ item'[q] = item[q] /\ events'[q] = events[q]
                            /\ acks'[q] = acks[q] /\ result'[q] = result[q]

\* Of the entries of strict keys, only reservations of r for keys in K change.
StoreStep(r, K) ==
  /\ loose \subseteq loose'
  /\ \A k \in DOMAIN entries : strict(k)' =>
       (k \in DOMAIN entries' /\ entries'[k] = entries[k]) \/ (k \in K /\ reservedBy(k, r))

\* The store is still right, and the loop does nothing.
StoreKept(r, K) == StoreStep(r, K) /\ StoreInv' /\ StoreTypes'
LoopIdle == applied' = applied /\ queue' = queue

\* Everything r committed is in the store now; what it leaves in the ring has a
\* loose key or none.
AllStored(r) == \A e \in applied : e.r = r /\ strict(keyOfEvent(e))' => stored(e)'
LeavesLoose(r) == \A a \in DOMAIN queue : queue[a].r = r => Key(r, queue[a].item) \in loose' \cup {NoKey}

\* What r is to send: as before, or with its item of key k, new there and
\* reserved.
Extends(r, k, ev) ==
  \/ ev = events[r]
  \/ /\ ev = Append(events[r], item[r])
     /\ k = NoKey \/ \A j \in DOMAIN events[r] : Key(r, events[r][j]) # k
     /\ strict(k)' => reservedBy(k, r)'

\* The keys of a call are a sequence, and not an empty one.
LEMMA ItemsDomain ==
  ASSUME NEW r \in Requests
  PROVE  /\ Len(Items[r]) \in Nat \ {0} /\ DOMAIN Items[r] = 1 .. Len(Items[r])
         /\ r \in Unary => Len(Items[r]) = 1
<1>1. Items[r] = ledgerKeys(Sent[r], r \in Unary) /\ Sent[r].texts \in Seq(Text)
  BY SentAssumption DEF Items
<1>2. DOMAIN Items[r] = 1 .. Len(Sent[r].texts) /\ Len(Sent[r].texts) \in Nat
  BY SMTT(30), <1>1 DEF ledgerKeys
<1>3. Items[r] = [i \in 1 .. Len(Sent[r].texts) |-> Items[r][i]]
  BY SMTT(30), <1>1 DEF ledgerKeys
<1>4. Items[r] \in Seq({Items[r][i] : i \in 1 .. Len(Sent[r].texts)})
  BY SMTT(30), <1>3
<1> QED
  BY SMTT(30), ItemsAssumption

\* What holds for a call is not disturbed by a step of another one.
LEMMA OtherCalls ==
  ASSUME IInv, NEW r \in Requests, NEW K, Others(r), StoreKept(r, K), LoopIdle,
         NEW q \in Requests, q # r
  PROVE  CallInv(q)'
<1> IState
  BY DEF IInv
<1>1. /\ pc'[q] = pc[q] /\ item'[q] = item[q] /\ events'[q] = events[q]
      /\ acks'[q] = acks[q] /\ result'[q] = result[q]
  BY DEF Others
<1>2. CallInv(q)
  BY DEF IState
<1>3. EventsOK(q)'
  BY <1>1, <1>2 DEF CallInv, EventsOK, Sends, Reserves, Submits, key
<1>4. QueueOK(q)'
  BY <1>1, <1>2 DEF CallInv, QueueOK, StoreKept, StoreStep, LoopIdle
<1>5. AcksOK(q)' /\ ResultsOK(q)'
  <2>1. AcksOK(q)'
    BY <1>1, <1>2 DEF CallInv, AcksOK, LoopIdle
  <2>2. ResultsOK(q)'
    BY <1>1, <1>2 DEF CallInv, ResultsOK, areResults, isResult, LoopIdle
  <2> QED
    BY <2>1, <2>2
<1>6. \A k : strict(k)' => strict(k)
  BY DEF StoreKept, StoreStep, strict
<1>7. \A i : holds(q, i)' <=> holds(q, i)
  BY <1>1 DEF holds
<1>8. ReservedOK(q)'
  <2> SUFFICES ASSUME NEW i \in DOMAIN Items[q], holds(q, i)', strict(Key(q, i))'
               PROVE  reservedBy(Key(q, i), q)'
    BY DEF ReservedOK
  <2>1. reservedBy(Key(q, i), q)
    BY <1>2, <1>6, <1>7 DEF CallInv, ReservedOK
  <2> QED
    BY <2>1 DEF StoreKept, StoreStep, reservedBy
<1>9. CommittedOK(q)'
  <2> SUFFICES ASSUME NEW e \in applied, e.r = q, strict(keyOfEvent(e))'
               PROVE  stored(e)' \/ answered(e)'
    BY DEF CommittedOK, LoopIdle
  <2>1. stored(e) \/ answered(e)
    BY <1>2, <1>6 DEF CallInv, CommittedOK
  <2>2. stored(e) => stored(e)'
    BY DEF StoreKept, StoreStep, stored, reservedBy
  <2>3. answered(e) => answered(e)'
    BY <1>1, <1>7 DEF answered
  <2> QED
    BY <2>1, <2>2, <2>3
<1>10. WaitOK(q)'
  BY <1>1, <1>2 DEF CallInv, WaitOK, queued, LoopIdle
<1> QED
  BY <1>3, <1>4, <1>5, <1>8, <1>9, <1>10 DEF CallInv

\* So a step of r is only to be checked for r.
LEMMA CallStep ==
  ASSUME IInv, NEW r \in Requests, NEW K, Others(r), StoreKept(r, K), LoopIdle, Types', CallInv(r)'
  PROVE  IInv'
<1> SUFFICES ASSUME IState PROVE IState'
  BY DEF IInv
<1>1. \A q \in Requests : CallInv(q)'
  BY OtherCalls
<1>2. QueueDistinct'
  BY DEF IState, QueueDistinct, LoopIdle
<1> QED
  BY <1>1, <1>2 DEF IState, StoreKept

\* A call that returns has nothing on its way: what it leaves in the ring has a
\* loose key or none, and what it committed is in the store.
LEMMA ReturnStep ==
  ASSUME IInv, NEW r \in Requests, NEW K, NEW res, return(r, res), StoreKept(r, K), LoopIdle,
         areResults(r, res),
         LeavesLoose(r),
         AllStored(r)
  PROVE  IInv'
<1> IState
  BY DEF IInv
<1>1. Types'
  BY SMTT(30) DEF IState, Types, return, States, StoreKept, LoopIdle
<1>2. /\ pc'[r] = "done" /\ events'[r] = <<>> /\ acks'[r] = <<>> /\ result'[r] = res
      /\ Others(r)
  BY DEF IState, Types, return, Others
<1>3. EventsOK(r)'
  BY SMTT(30), <1>2 DEF EventsOK, Sends, Reserves, Submits
<1>4. QueueOK(r)'
  BY <1>2 DEF IState, CallInv, QueueOK, LeavesLoose, LoopIdle
<1>5. AcksOK(r)' /\ WaitOK(r)'
  BY SMTT(30), <1>2 DEF AcksOK, WaitOK
<1>6. ResultsOK(r)'
  BY <1>2 DEF ResultsOK, areResults, isResult, LoopIdle
<1>7. ReservedOK(r)'
  BY SMTT(30), <1>2 DEF ReservedOK, holds
<1>8. CommittedOK(r)'
  BY DEF CommittedOK, AllStored, LoopIdle
<1> QED
  BY <1>1, <1>2, <1>3, <1>4, <1>5, <1>6, <1>7, <1>8, CallStep DEF CallInv

\* Before it submits, a call has no answers: what it committed is in the store.
LEMMA NoAnswersYet ==
  ASSUME IInv, NEW r \in Requests, NEW K, pc[r] \in {"begin", "lock"}, StoreKept(r, K), LoopIdle
  PROVE  AllStored(r)
<1> IState
  BY DEF IInv
<1> SUFFICES ASSUME NEW e \in applied, e.r = r, strict(keyOfEvent(e))'
             PROVE  stored(e)'
  BY DEF AllStored
<1>1. strict(keyOfEvent(e))
  BY DEF StoreKept, StoreStep, strict
<1>2. ~answered(e)
  BY DEF IState, CallInv, EventsOK, Reserves, answered
<1>3. stored(e)
  BY <1>1, <1>2 DEF IState, CallInv, CommittedOK
<1> QED
  BY <1>3 DEF StoreKept, StoreStep, stored, reservedBy

\* What a call is to send is a sequence; a new element of it is the item, whose
\* key is new there and reserved.
LEMMA ExtendedEvents ==
  ASSUME NEW r \in Requests, NEW k, NEW ev, item[r] \in Nat, events[r] \in Seq(Nat), Extends(r, k, ev)
  PROVE  /\ ev \in Seq(Nat)
         /\ \A j \in DOMAIN ev :
              \/ j \in DOMAIN events[r] /\ ev[j] = events[r][j]
              \/ /\ j = Len(events[r]) + 1 /\ ev[j] = item[r]
                 /\ k = NoKey \/ \A m \in DOMAIN events[r] : Key(r, events[r][m]) # k
                 /\ strict(k)' => reservedBy(k, r)'
<1>1. CASE ev = events[r]
  BY <1>1
<1>2. CASE /\ ev = Append(events[r], item[r])
           /\ k = NoKey \/ \A j \in DOMAIN events[r] : Key(r, events[r][j]) # k
           /\ strict(k)' => reservedBy(k, r)'
  <2>1. /\ ev \in Seq(Nat) /\ Len(events[r]) \in Nat /\ DOMAIN events[r] = 1 .. Len(events[r])
        /\ DOMAIN ev = 1 .. Len(events[r]) + 1
        /\ \A j \in 1 .. Len(events[r]) : ev[j] = events[r][j]
        /\ ev[Len(events[r]) + 1] = item[r]
    BY SMTT(30), <1>2
  <2> QED
    BY SMTT(30), <1>2
<1> QED
  BY <1>1, <1>2 DEF Extends

\* Where the call stands after an item of the first phase (nextItem).
LEMMA AdvancePlace ==
  ASSUME Types, NEW r \in Requests, item[r] \in DOMAIN Items[r], NEW ev, NEW res, nextItem(r, ev, res)
  PROVE  \/ item[r] < Len(Items[r]) /\ pc'[r] = "begin" /\ item'[r] = item[r] + 1
         \/ ev = <<>> /\ pc'[r] = "done" /\ item'[r] = 1
         \/ item[r] = Len(Items[r]) /\ ev # <<>> /\ pc'[r] = "submit" /\ item'[r] = 1
<1>1. item[r] <= Len(Items[r]) /\ Len(Items[r]) \in Nat /\ item[r] \in Nat
  BY SMTT(30), ItemsDomain
<1>2. CASE item[r] < Len(Items[r])
  BY <1>2 DEF Types, nextItem
<1>3. CASE ~(item[r] < Len(Items[r]))
  BY SMTT(30) DEF Types, nextItem
<1> QED
  BY <1>2, <1>3

\* The types after an item of the first phase.
LEMMA AdvanceTypes ==
  ASSUME Types, NEW r \in Requests, NEW ev \in Seq(Nat), NEW res, nextItem(r, ev, res),
         LoopIdle, StoreTypes'
  PROVE  Types'
<1>1. events' \in [Requests -> Seq(Nat)]
  BY DEF Types, nextItem
<1>2. DOMAIN at' = Requests /\ DOMAIN acks' = Requests /\ DOMAIN result' = Requests
  BY DEF Types, nextItem
<1>3. pc' \in [Requests -> States] /\ item' \in [Requests -> Nat]
  <2>1. CASE item[r] < Len(Items[r])
    <3>1. pc' = [pc EXCEPT ![r] = "begin"] /\ item' = [item EXCEPT ![r] = @ + 1]
      BY <2>1 DEF nextItem
    <3> QED
      BY SMTT(30), <3>1 DEF Types, States
  <2>2. CASE ~(item[r] < Len(Items[r]))
    <3>1. PICK p \in States : pc' = [pc EXCEPT ![r] = p] /\ item' = [item EXCEPT ![r] = 1]
      BY <2>2 DEF nextItem, States
    <3> QED
      BY <3>1 DEF Types
  <2> QED
    BY <2>1, <2>2
<1> QED
  BY <1>1, <1>2, <1>3 DEF Types, LoopIdle

\* What the call sends stays in order and without a key twice.
LEMMA AdvanceEvents ==
  ASSUME Types, NEW r \in Requests, EventsOK(r), pc[r] \in {"begin", "lock"}, NEW k, k = key(r),
         NEW ev, NEW res, nextItem(r, ev, res), Extends(r, k, ev)
  PROVE  EventsOK(r)'
<1>1. item[r] \in Nat /\ events[r] \in Seq(Nat)
  BY DEF Types
<1>2. ev \in Seq(Nat)
  BY <1>1, ExtendedEvents
<1>3. \A j \in DOMAIN ev : \/ j \in DOMAIN events[r] /\ ev[j] = events[r][j]
                           \/ /\ j = Len(events[r]) + 1 /\ ev[j] = item[r]
                              /\ k = NoKey \/ \A m \in DOMAIN events[r] : Key(r, events[r][m]) # k
  BY SMTT(30), <1>1, ExtendedEvents
<1>4. DOMAIN acks[r] = {} /\ item[r] \in DOMAIN Items[r] /\ \A j \in DOMAIN events[r] : events[r][j] < item[r]
  BY DEF EventsOK, Reserves
<1>5. \A j \in DOMAIN events[r] : events[r][j] \in DOMAIN Items[r] /\ events[r][j] \in Nat
  BY SMTT(30), <1>1 DEF EventsOK, Sends
<1>6. \A j \in DOMAIN ev : ev[j] \in DOMAIN Items[r] /\ ev[j] \in Nat /\ ev[j] <= item[r]
  BY SMTT(30), <1>1, <1>3, <1>4, <1>5
<1>7. \A j, m \in DOMAIN ev : ev[j] = ev[m] \/ (Key(r, ev[j]) = Key(r, ev[m]) /\ Key(r, ev[j]) # NoKey) => j = m
  <2>1. \A j, m \in DOMAIN events[r] :
          events[r][j] = events[r][m] \/ (Key(r, events[r][j]) = Key(r, events[r][m]) /\ Key(r, events[r][j]) # NoKey)
            => j = m
    BY DEF EventsOK, Sends
  <2>2. \A j \in DOMAIN events[r] : events[r][j] # item[r]
    BY SMTT(30), <1>4, <1>5
  <2>3. k = Key(r, item[r])
    BY DEF key
  <2> QED
    BY SMTT(30), <1>3, <2>1, <2>2, <2>3
<1>8. r \in Unary /\ ev # <<>> => ev = <<1>>
  <2> SUFFICES ASSUME r \in Unary, ev # <<>>
               PROVE  ev = <<1>>
    OBVIOUS
  <2>1. item[r] = 1 /\ DOMAIN Items[r] = 1 .. 1
    BY SMTT(30), <1>4, ItemsDomain
  <2>2. events[r] = <<>>
    BY SMTT(30), <1>1, <1>4, <1>5, <2>1
  <2> QED
    BY SMTT(30), <2>1, <2>2 DEF Extends
<1>9. events'[r] = ev /\ acks'[r] = acks[r]
  BY DEF Types, nextItem
<1>10. \/ item[r] < Len(Items[r]) /\ pc'[r] = "begin" /\ item'[r] = item[r] + 1
       \/ ev = <<>> /\ pc'[r] = "done" /\ item'[r] = 1
       \/ item[r] = Len(Items[r]) /\ ev # <<>> /\ pc'[r] = "submit" /\ item'[r] = 1
  BY <1>4, AdvancePlace
<1>11. ev # <<>> => 1 \in DOMAIN ev
  BY SMTT(30)
<1>12. pc'[r] = "begin" => item'[r] \in DOMAIN Items[r] /\ \A j \in DOMAIN ev : ev[j] < item'[r]
  BY SMTT(30), <1>4, <1>6, <1>10
<1> QED
  BY <1>6, <1>7, <1>8, <1>9, <1>10, <1>11, <1>12 DEF EventsOK, Sends, Reserves, Submits

\* The end of an item in the first phase: it is answered, or added to what the
\* call sends if its key is new there and reserved.
LEMMA AdvanceStep ==
  ASSUME IInv, NEW r \in Requests, NEW k, k = key(r), pc[r] \in {"begin", "lock"},
         NEW ev, NEW res, nextItem(r, ev, res),
         Extends(r, k, ev),
         StoreKept(r, {}), LoopIdle,
         areResults(r, res)
  PROVE  IInv'
<1> IState
  BY DEF IInv
<1>1. Types /\ item[r] \in Nat /\ events[r] \in Seq(Nat)
  BY DEF IState, Types
<1>2. EventsOK(r) /\ QueueOK(r) /\ ReservedOK(r)
  BY DEF IState, CallInv
<1>3. ev \in Seq(Nat)
  BY <1>1, ExtendedEvents
<1>4. DOMAIN acks[r] = {} /\ item[r] \in DOMAIN Items[r]
  BY <1>2 DEF EventsOK, Reserves
<1>5. Types'
  BY <1>1, <1>3, AdvanceTypes DEF StoreKept
<1>6. EventsOK(r)'
  BY <1>1, <1>2, AdvanceEvents
<1>7. events'[r] = ev /\ result'[r] = res /\ acks'[r] = acks[r]
  BY <1>1 DEF Types, nextItem
<1>8. Others(r)
  BY <1>1 DEF Types, nextItem, Others
<1>9. pc'[r] \in {"begin", "done", "submit"} /\ (pc'[r] = "submit" => item'[r] = 1)
  BY <1>1, <1>4, AdvancePlace
<1>10. QueueOK(r)'
  BY <1>2 DEF QueueOK, LoopIdle
<1>11. AcksOK(r)'
  BY <1>4, <1>7 DEF AcksOK
<1>12. ResultsOK(r)'
  BY <1>7 DEF ResultsOK, areResults, isResult, LoopIdle
<1>13. ReservedOK(r)'
  <2> SUFFICES ASSUME NEW i \in DOMAIN Items[r], holds(r, i)', strict(Key(r, i))'
               PROVE  reservedBy(Key(r, i), r)'
    BY DEF ReservedOK
  <2>1. PICK j \in DOMAIN ev : ev[j] = i
    BY <1>7 DEF holds
  <2>2. \/ j \in DOMAIN events[r] /\ ev[j] = events[r][j]
        \/ ev[j] = item[r] /\ (strict(k)' => reservedBy(k, r)')
    BY SMTT(30), <1>1, ExtendedEvents
  <2>3. CASE j \in DOMAIN events[r] /\ ev[j] = events[r][j]
    <3>1. holds(r, i)
      BY <1>4, <2>1, <2>3 DEF holds
    <3>2. strict(Key(r, i))
      BY DEF StoreKept, StoreStep, strict
    <3>3. reservedBy(Key(r, i), r)
      BY <1>2, <3>1, <3>2 DEF ReservedOK
    <3> QED
      BY <3>3 DEF StoreKept, StoreStep, reservedBy
  <2>4. CASE ev[j] = item[r] /\ (strict(k)' => reservedBy(k, r)')
    BY <2>1, <2>4 DEF key
  <2> QED
    BY <2>2, <2>3, <2>4
<1>14. CommittedOK(r)'
  BY SMTT(30), NoAnswersYet DEF CommittedOK, AllStored, LoopIdle
<1>15. WaitOK(r)'
  BY SMTT(30), <1>3, <1>7, <1>9 DEF WaitOK
<1>16. CallInv(r)'
  BY <1>6, <1>10, <1>11, <1>12, <1>13, <1>14, <1>15 DEF CallInv
<1> QED
  BY <1>5, <1>8, <1>16, CallStep

-----------------------------------------------------------------------------
(* The actions of a call *)

\* A step that leaves the store alone.
LEMMA StoreSame ==
  ASSUME IInv, NEW r \in Requests, UNCHANGED <<store, loose>>, LoopIdle
  PROVE  StoreKept(r, {})
<1> IState
  BY DEF IInv
<1>1. entries' = entries /\ loose' = loose
  BY DEF store
<1>2. StoreStep(r, {}) /\ StoreTypes'
  BY <1>1 DEF IState, Types, StoreTypes, StoreStep
<1>3. StoreInv'
  BY <1>1 DEF IState, StoreInv, LoopIdle
<1> QED
  BY <1>2, <1>3 DEF StoreKept

\* Rollback of keys that r has reserved.
LEMMA RollbackStep ==
  ASSUME IInv, NEW r \in Requests, NEW K, Rollback(K), loose \subseteq loose', LoopIdle,
         \A k \in K : strict(k)' => reservedBy(k, r)
  PROVE  StoreKept(r, K)
<1> IState
  BY DEF IInv
<1>1. /\ \A m \in DOMAIN entries' : m \in DOMAIN entries /\ entries'[m] = entries[m]
      /\ \A m \in DOMAIN entries : m \in DOMAIN entries' \/ (m \in K /\ entries[m].pending)
  BY RollbackStore
<1>2. StoreStep(r, K)
  BY <1>1 DEF StoreStep
<1>3. StoreInv'
  BY <1>1 DEF IState, StoreInv, LoopIdle
<1> QED
  BY <1>1, <1>2, <1>3 DEF IState, Types, StoreTypes, StoreKept

\* Commit of a key that r has reserved, with the transfer the loop committed.
LEMMA CommitStep ==
  ASSUME IInv, NEW r \in Requests, NEW k, NEW x, Commit(k, r, x), LoopIdle,
         strict(k)' => reservedBy(k, r), k # NoKey, x \in applied, keyOfEvent(x) = k
  PROVE  /\ StoreKept(r, {k})
         /\ strict(k)' => k \in DOMAIN entries' /\ ~entries'[k].pending /\ entries'[k].transfer = x
<1> IState
  BY DEF IInv
<1>1. /\ loose \subseteq loose'
      /\ \A m \in DOMAIN entries \cup {k} : m \in DOMAIN entries' \/ m \in loose'
      /\ \A m \in DOMAIN entries' :
           \/ m = k /\ entries'[m] = entry(FALSE, now, r, x)
           \/ m # k /\ m \in DOMAIN entries /\ entries'[m] = entries[m]
  BY CommitStore
<1>2. entry(FALSE, now, r, x).pending = FALSE /\ entry(FALSE, now, r, x).transfer = x
  BY DEF entry
<1> DEFINE new == entry(FALSE, now, r, x)
<1> HIDE DEF new
<1>3. StoreTypes'
  BY <1>1, <1>2 DEF IState, Types, StoreTypes
<1>4. strict(k)' => k \in DOMAIN entries' /\ ~entries'[k].pending /\ entries'[k].transfer = x
  BY <1>1, <1>2 DEF strict
<1>5. StoreStep(r, {k})
  BY <1>1 DEF StoreStep, strict
<1>6. StoreInv'
  <2>1. ASSUME NEW m \in DOMAIN entries'
        PROVE  /\ m # NoKey
               /\ ~entries'[m].pending => entries'[m].transfer \in applied /\ keyOfEvent(entries'[m].transfer) = m
    <3>1. CASE m = k /\ entries'[m] = new
      BY <1>2, <3>1 DEF new
    <3>2. CASE m \in DOMAIN entries /\ entries'[m] = entries[m]
      BY <3>2 DEF IState, StoreInv
    <3> QED
      BY <1>1, <3>1, <3>2 DEF new
  <2>2. \A e \in applied : e.item \in DOMAIN Items[e.r]
    BY DEF IState, StoreInv
  <2> QED
    BY <2>1, <2>2 DEF StoreInv, LoopIdle
<1> QED
  BY <1>3, <1>4, <1>5, <1>6 DEF StoreKept

\* An item's answer is added to the results.
LEMMA WithResult ==
  ASSUME IInv, NEW r \in Requests, NEW n, NEW x, isResult(r, n, x)
  PROVE  areResults(r, with(result[r], n, x))
  BY DEF IInv, IState, CallInv, ResultsOK, areResults, with

\* An item without a key.
LEMMA BeginKeylessInv ==
  ASSUME IInv, NEW r \in Requests, BeginKeyless(r)
  PROVE  IInv'
<1> IState
  BY DEF IInv
<1>1. PICK k, ev, res : k = key(r) /\ ev = Append(events[r], item[r]) /\ res = result[r]
  OBVIOUS
<1>2. pc[r] \in {"begin", "lock"} /\ k = NoKey /\ UNCHANGED <<store, loose>> /\ LoopIdle
  BY <1>1 DEF BeginKeyless, keep, LoopIdle
<1>3. nextItem(r, ev, res)
  BY <1>1 DEF BeginKeyless, send
<1>4. Extends(r, k, ev)
  BY <1>1, <1>2 DEF Extends, strict
<1>5. areResults(r, res)
  BY <1>1 DEF IState, CallInv, ResultsOK
<1> QED
  BY <1>1, <1>2, <1>3, <1>4, <1>5, StoreSame, AdvanceStep

\* An item that is answered in the first phase: the transfer of an entry of its
\* key, or an error.
LEMMA AnswerStep ==
  ASSUME IInv, NEW r \in Requests, pc[r] \in {"begin", "lock"}, NEW x, answer(r, x),
         x = Nobody \/ (key(r) \in DOMAIN entries /\ ~entries[key(r)].pending /\ x = entries[key(r)].transfer),
         StoreKept(r, {}), LoopIdle
  PROVE  IInv'
<1> IState
  BY DEF IInv
<1>1. PICK k, n, ev, res : k = key(r) /\ n = item[r] /\ ev = events[r] /\ res = with(result[r], n, x)
  OBVIOUS
<1>2. nextItem(r, ev, res) /\ Extends(r, k, ev)
  BY <1>1 DEF answer, Extends
<1>3. isResult(r, n, x)
  BY <1>1 DEF IState, StoreInv, isResult, key
<1>4. areResults(r, res)
  BY <1>1, <1>3, WithResult
<1> QED
  BY <1>1, <1>2, <1>4, AdvanceStep

\* An item whose key an earlier item of the batch has is refused.
LEMMA BeginDuplicateInv ==
  ASSUME IInv, NEW r \in Requests, BeginDuplicate(r)
  PROVE  IInv'
<1>1. /\ pc[r] \in {"begin", "lock"} /\ answer(r, Nobody)
      /\ UNCHANGED <<store, loose>> /\ LoopIdle
  BY DEF BeginDuplicate, keep, LoopIdle
<1> QED
  BY <1>1, StoreSame, AnswerStep

\* The read-locked look finds the result of the key.
LEMMA CheckFoundInv ==
  ASSUME IInv, NEW r \in Requests, CheckFound(r)
  PROVE  IInv'
<1> DEFINE x == entries[key(r)].transfer
<1>1. /\ pc[r] \in {"begin", "lock"} /\ answer(r, x) /\ key(r) \in DOMAIN entries /\ ~entries[key(r)].pending
      /\ UNCHANGED <<store, loose>> /\ LoopIdle
  BY DEF CheckFound, reserving, found, theStore, keep, LoopIdle
<1>2. x = entries[key(r)].transfer
  OBVIOUS
<1> HIDE DEF x
<1> QED
  BY <1>1, <1>2, StoreSame, AnswerStep

\* Only the point changes where a call in its first phase stands.
Moves(r, p) ==
  /\ pc' = [pc EXCEPT ![r] = p] /\ DOMAIN at' = Requests /\ UNCHANGED <<item, events, acks, result>>
  /\ (p = "begin" /\ pc[r] = "lock") \/ (p = "lock" /\ reserving(r))

\* Such a step: the read-locked look goes on to the lock, or back to the start.
LEMMA MoveStep ==
  ASSUME IInv, NEW r \in Requests, NEW p, Moves(r, p), StoreKept(r, {}), LoopIdle
  PROVE  IInv'
<1> IState
  BY DEF IInv
<1>1. Types'
  BY DEF IState, Types, States, Moves, StoreKept, LoopIdle
<1>2. Others(r) /\ pc'[r] = p
  BY DEF IState, Types, Others, Moves
<1>3. pc[r] \in {"begin", "lock"} /\ p \in {"begin", "lock"}
  BY DEF Moves, reserving
<1>4. events' = events /\ acks' = acks /\ result' = result /\ item' = item
  BY DEF Moves
<1>5. EventsOK(r)'
  <2>1. EventsOK(r) /\ (p = "lock" => reserving(r))
    BY DEF IState, CallInv, Moves
  <2> QED
    BY <1>2, <1>3, <1>4, <2>1 DEF EventsOK, Sends, Reserves, Submits, key, reserving
<1>6. QueueOK(r)'
  <2>1. \A a \in DOMAIN queue : queue[a].r # r
    BY <1>3 DEF IState, CallInv, QueueOK
  <2> QED
    BY <2>1 DEF LoopIdle, QueueOK
<1>7. AcksOK(r)'
  BY <1>4 DEF IState, CallInv, AcksOK, LoopIdle
<1>8. ResultsOK(r)'
  BY <1>4 DEF IState, CallInv, ResultsOK, areResults, isResult, LoopIdle
<1>9. ReservedOK(r)'
  <2> SUFFICES ASSUME NEW i \in DOMAIN Items[r], holds(r, i)', strict(Key(r, i))'
               PROVE  reservedBy(Key(r, i), r)'
    BY DEF ReservedOK
  <2>1. holds(r, i)
    BY <1>3, <1>4 DEF holds
  <2>2. reservedBy(Key(r, i), r)
    BY <2>1 DEF IState, CallInv, ReservedOK, StoreKept, StoreStep, strict
  <2> QED
    BY <2>2 DEF StoreKept, StoreStep, reservedBy
<1>10. CommittedOK(r)'
  <2>1. AllStored(r)
    BY SMTT(30), <1>3, NoAnswersYet
  <2> QED
    BY <2>1 DEF CommittedOK, AllStored, LoopIdle
<1>11. WaitOK(r)'
  BY <1>2, <1>3 DEF WaitOK
<1>12. CallInv(r)'
  BY <1>5, <1>6, <1>7, <1>8, <1>9, <1>10, <1>11 DEF CallInv
<1> QED
  BY <1>1, <1>2, <1>12, CallStep

\* The read-locked look finds nothing.
LEMMA CheckMissedInv ==
  ASSUME IInv, NEW r \in Requests, CheckMissed(r)
  PROVE  IInv'
<1> IState
  BY DEF IInv
<1>1. /\ pc' = [pc EXCEPT ![r] = "lock"] /\ reserving(r) /\ UNCHANGED <<item, events, acks, result>>
      /\ UNCHANGED <<store, loose>> /\ LoopIdle
      /\ DOMAIN at' = Requests
  BY DEF CheckMissed, keep, IState, Types, LoopIdle
<1>2. PICK p : p = "lock"
  OBVIOUS
<1>3. Moves(r, p)
  BY <1>1, <1>2 DEF Moves
<1> QED
  BY <1>1, <1>3, StoreSame, MoveStep

\* The write-locked look: somebody else's reservation, a result, or a new
\* entry.
LEMMA ReserveInv ==
  ASSUME IInv, NEW r \in Requests, Reserve(r)
  PROVE  IInv'
<1> IState
  BY DEF IInv
<1>1. PICK k : k = key(r)
  OBVIOUS
<1> DEFINE x == entries[k].transfer
           new == entry(TRUE, at[r], r, Nobody)
<1>2. /\ loose \subseteq loose'
      /\ \A m \in DOMAIN entries : m \in loose' \/ (m \in DOMAIN entries' /\ entries'[m] = entries[m])
      /\ \A m \in DOMAIN entries' : (m \in DOMAIN entries /\ entries'[m] = entries[m]) \/ (m = k /\ entries'[m] = new)
      /\ \/ /\ pc' = [pc EXCEPT ![r] = "begin"] /\ at' = [at EXCEPT ![r] = 0]
            /\ UNCHANGED <<item, events, acks, result>>
         \/ /\ k \in DOMAIN entries /\ ~entries[k].pending /\ answer(r, x)
         \/ /\ k \in DOMAIN entries' /\ entries'[k] = new /\ send(r)
  BY <1>1, ReserveStore
<1>3. pc[r] = "lock" /\ pc[r] \in {"begin", "lock"} /\ LoopIdle
  BY DEF Reserve, keep, LoopIdle
<1>4. k # NoKey /\ \A j \in DOMAIN events[r] : Key(r, events[r][j]) # k
  BY <1>3, <1>1 DEF IState, CallInv, EventsOK, Reserves
<1>5. new.pending = TRUE /\ new.owner = r
  BY DEF entry
<1>6. x = entries[key(r)].transfer
  BY <1>1
<1> HIDE DEF new, x
<1>7. StoreStep(r, {})
  BY <1>2 DEF StoreStep, strict
<1>8. StoreTypes'
  BY <1>2, <1>5 DEF IState, Types, StoreTypes
<1>9. StoreInv'
  <2>1. ASSUME NEW m \in DOMAIN entries'
        PROVE  /\ m # NoKey
               /\ ~entries'[m].pending => entries'[m].transfer \in applied /\ keyOfEvent(entries'[m].transfer) = m
    <3>1. CASE m = k /\ entries'[m] = new
      BY <1>4, <1>5, <3>1
    <3>2. CASE m \in DOMAIN entries /\ entries'[m] = entries[m]
      BY <3>2 DEF IState, StoreInv
    <3> QED
      BY <1>2, <3>1, <3>2
  <2>2. \A e \in applied : e.item \in DOMAIN Items[e.r]
    BY DEF IState, StoreInv
  <2> QED
    BY <1>3, <2>1, <2>2 DEF StoreInv, LoopIdle
<1>10. StoreKept(r, {})
  BY <1>7, <1>8, <1>9 DEF StoreKept
<1>11. CASE /\ pc' = [pc EXCEPT ![r] = "begin"] /\ at' = [at EXCEPT ![r] = 0]
           /\ UNCHANGED <<item, events, acks, result>>
  <2>1. DOMAIN at' = Requests
    BY <1>11 DEF IState, Types
  <2>2. PICK p : p = "begin"
    OBVIOUS
  <2>3. Moves(r, p)
    BY <1>3, <1>11, <2>1, <2>2 DEF Moves
  <2> QED
    BY <1>3, <1>10, <2>3, MoveStep
<1>12. CASE k \in DOMAIN entries /\ ~entries[k].pending /\ answer(r, x)
  BY <1>3, <1>1, <1>10, <1>12, <1>6, AnswerStep
<1>13. CASE k \in DOMAIN entries' /\ entries'[k] = new /\ send(r)
  <2>1. PICK ev, res : ev = Append(events[r], item[r]) /\ res = result[r]
    OBVIOUS
  <2>2. nextItem(r, ev, res) /\ areResults(r, res)
    BY <1>13, <2>1 DEF send, IState, CallInv, ResultsOK
  <2>3. Extends(r, k, ev)
    BY <1>4, <1>5, <1>13, <2>1 DEF Extends, reservedBy
  <2> QED
    BY <1>3, <1>1, <1>10, <2>2, <2>3, AdvanceStep
<1> QED
  BY <1>2, <1>11, <1>12, <1>13

\* A conflict with an ended context: the call returns and gives its keys back.
LEMMA AbortInv ==
  ASSUME IInv, NEW r \in Requests, Abort(r)
  PROVE  IInv'
<1> IState
  BY DEF IInv
<1> DEFINE K == {Key(r, events[r][i]) : i \in DOMAIN events[r]}
<1>1. /\ pc[r] = "begin" /\ Rollback(K) /\ return(r, <<>>)
      /\ loose' = loose /\ LoopIdle
  BY DEF Abort, reserving, LoopIdle
<1>2. \A k \in K : strict(k)' => reservedBy(k, r)
  <2> SUFFICES ASSUME NEW j \in DOMAIN events[r], strict(Key(r, events[r][j]))
               PROVE  reservedBy(Key(r, events[r][j]), r)
    BY <1>1 DEF strict
  <2>1. DOMAIN acks[r] = {} /\ events[r][j] \in DOMAIN Items[r]
    BY <1>1 DEF IState, CallInv, EventsOK, Sends, Reserves
  <2>2. holds(r, events[r][j])
    BY <1>1, <2>1 DEF holds
  <2> QED
    BY <2>1, <2>2 DEF IState, CallInv, ReservedOK
<1> HIDE DEF K
<1>3. StoreKept(r, K)
  BY <1>1, <1>2, RollbackStep
<1>4. LeavesLoose(r)
  BY <1>1 DEF IState, CallInv, QueueOK, LeavesLoose
<1>5. AllStored(r)
  BY SMTT(30), <1>1, <1>3, NoAnswersYet
<1>6. PICK res : res = <<>>
  OBVIOUS
<1>7. areResults(r, res) /\ return(r, res)
  BY SMTT(30), <1>1, <1>6 DEF areResults
<1> QED
  BY <1>1, <1>3, <1>4, <1>5, <1>7, ReturnStep

\* One event goes into the ring.
LEMMA SubmitInv ==
  ASSUME IInv, NEW r \in Requests, Submit(r)
  PROVE  IInv'
<1> SUFFICES ASSUME IState PROVE IState'
  BY DEF IInv
<1>1. PICK n : n = item[r]
  OBVIOUS
<1>2. PICK d : d = [r |-> r, item |-> events[r][n]]
  OBVIOUS
<1>3. /\ pc[r] = "submit" /\ queue' = Append(queue, d)
      /\ UNCHANGED <<store, at, events, acks, result, applied, loose>>
  BY <1>1, <1>2 DEF Submit
<1>4. /\ EventsOK(r) /\ QueueOK(r) /\ AcksOK(r) /\ ResultsOK(r) /\ ReservedOK(r) /\ CommittedOK(r) /\ WaitOK(r)
      /\ events[r] \in Seq(Nat) /\ queue \in Seq(Events) /\ n \in Nat
  BY <1>1 DEF IState, CallInv, Types
<1>5. n \in DOMAIN events[r] /\ DOMAIN events[r] = 1 .. Len(events[r]) /\ Len(events[r]) \in Nat
  BY SMTT(30), <1>1, <1>3, <1>4 DEF EventsOK, Submits
<1>6. d \in Events /\ d.r = r /\ d.item = events[r][n]
  BY SMTT(30), <1>2, <1>4, <1>5 DEF Events
<1>7. /\ queue' \in Seq(Events) /\ DOMAIN queue' = 1 .. Len(queue) + 1 /\ DOMAIN queue = 1 .. Len(queue)
      /\ Len(queue) \in Nat
      /\ \A a \in DOMAIN queue : queue'[a] = queue[a]
      /\ queue'[Len(queue) + 1] = d
  BY SMTT(30), <1>3, <1>4, <1>6
<1>8. /\ \A q \in Requests : q # r => pc'[q] = pc[q] /\ item'[q] = item[q]
      /\ \/ n < Len(events[r]) /\ pc'[r] = "submit" /\ item'[r] = n + 1
         \/ n = Len(events[r]) /\ pc'[r] = "wait" /\ item'[r] = 1
  <2>1. CASE n < Len(events[r])
    BY <1>1, <2>1 DEF IState, Types, Submit
  <2>2. CASE ~(n < Len(events[r]))
    BY SMTT(30), <1>1, <1>5 DEF IState, Types, Submit
  <2> QED
    BY <2>1, <2>2
<1>9. Types'
  <2>1. pc' \in [Requests -> States] /\ item' \in [Requests -> Nat]
    <3>1. CASE n < Len(events[r])
      <4>1. pc' = pc /\ item' = [item EXCEPT ![r] = @ + 1]
        BY <1>1, <3>1 DEF Submit
      <4> QED
        BY SMTT(30), <4>1 DEF IState, Types
    <3>2. CASE ~(n < Len(events[r]))
      <4>1. pc' = [pc EXCEPT ![r] = "wait"] /\ item' = [item EXCEPT ![r] = 1]
        BY <1>1, <3>2 DEF Submit
      <4> QED
        BY <4>1 DEF IState, Types, States
    <3> QED
      BY <3>1, <3>2
  <2> QED
    BY <1>3, <1>7, <2>1 DEF IState, Types, StoreTypes, store
<1>10. StoreInv'
  BY <1>3 DEF IState, StoreInv, store
<1>11. \A a \in DOMAIN queue : queue[a] # d
  BY SMTT(30), <1>1, <1>3, <1>4, <1>6 DEF QueueOK, EventsOK, Sends, Reserves, Submits, StoreKept, LoopIdle
<1>12. QueueDistinct'
  BY SMTT(30), <1>7, <1>11 DEF IState, QueueDistinct
<1>13. \A q \in Requests : \A i : queued(q, i) => queued(q, i)'
  BY SMTT(30), <1>7 DEF queued
<1>14. \A i : i = events[r][n] => queued(r, i)'
  BY SMTT(30), <1>2, <1>7 DEF queued
<1>15. \A q \in Requests : \A i : holds(q, i)' <=> holds(q, i)
  BY SMTT(30), <1>3, <1>8 DEF holds
<1>16. \A q \in Requests : (ReservedOK(q) => ReservedOK(q)') /\ (CommittedOK(q) => CommittedOK(q)')
  <2>1. \A q \in Requests : ReservedOK(q) => ReservedOK(q)'
    BY <1>3, <1>15 DEF ReservedOK, strict, reservedBy, Key, store
  <2>2. \A e \in applied : answered(e) => answered(e)'
    BY <1>3, <1>15 DEF answered, IState, Types, Events
  <2>3. \A e \in applied : stored(e) => stored(e)'
    BY <1>3 DEF stored, store
  <2>4. \A e \in applied : strict(keyOfEvent(e))' => strict(keyOfEvent(e))
    BY <1>3 DEF strict
  <2> QED
    BY <1>3, <2>1, <2>2, <2>3, <2>4 DEF CommittedOK
<1>17. ASSUME NEW q \in Requests, q # r
       PROVE  CallInv(q)'
  <2>1. CallInv(q) /\ pc'[q] = pc[q] /\ item'[q] = item[q]
    BY <1>8, <1>17 DEF IState
  <2>2. EventsOK(q)'
    BY <1>3, <2>1 DEF CallInv, EventsOK, Sends, Reserves, Submits, key
  <2>3. QueueOK(q)'
    <3>1. \A a \in DOMAIN queue' : queue'[a].r = q => a \in DOMAIN queue /\ queue'[a] = queue[a]
      BY SMTT(30), <1>6, <1>7, <1>17
    <3>2. QueueOK(q) /\ acks' = acks /\ events' = events /\ loose' = loose
      BY <1>3, <2>1 DEF CallInv
    <3> QED
      BY <2>1, <3>1, <3>2 DEF QueueOK
  <2>4. AcksOK(q)' /\ ResultsOK(q)'
    BY <1>3, <2>1 DEF CallInv, AcksOK, ResultsOK, areResults, isResult
  <2>5. WaitOK(q)'
    BY <1>3, <1>13, <2>1 DEF CallInv, WaitOK
  <2> QED
    BY <1>16, <2>1, <2>2, <2>3, <2>4, <2>5 DEF CallInv
<1>18. CallInv(r)'
  <2>0. \A j \in DOMAIN events[r] : n <= j => events[r][j] \notin DOMAIN acks[r]
    BY <1>1, <1>3, <1>4 DEF EventsOK, Submits
  <2>1. EventsOK(r)'
    <3>1. item'[r] \in DOMAIN events[r]
      BY SMTT(30), <1>5, <1>8
    <3>2. \A j \in DOMAIN events[r] : pc'[r] = "submit" /\ item'[r] <= j => n <= j
      BY SMTT(30), <1>5, <1>8
    <3>3. pc'[r] \in {"submit", "wait"} /\ (pc'[r] = "wait" => item'[r] = 1)
      BY <1>8
    <3>4. r \in Unary => events[r] = <<1>>
      BY <1>3, <1>4 DEF EventsOK, Submits
    <3>5. Submits(r)'
      BY <1>3, <2>0, <3>1, <3>2, <3>3, <3>4 DEF Submits
    <3>6. Reserves(r)' /\ (Sends(r) => Sends(r)')
      BY <1>3, <3>3 DEF Reserves, Sends
    <3> QED
      BY <1>4, <3>5, <3>6 DEF EventsOK
  <2>2. QueueOK(r)'
    <3> SUFFICES ASSUME NEW a \in DOMAIN queue', queue'[a].r = r
                 PROVE  /\ queue'[a].item \in DOMAIN Items[r]
                        /\ queue'[a].item \notin DOMAIN acks[r]
                        /\ \E j \in DOMAIN events[r] : events[r][j] = queue'[a].item /\ (pc'[r] = "submit" => j < item'[r])
      BY <1>3, <1>8 DEF QueueOK
    <3>1. CASE a \in DOMAIN queue
      BY SMTT(30), <1>1, <1>3, <1>4, <1>5, <1>7, <1>8, <3>1 DEF QueueOK
    <3>2. CASE a = Len(queue) + 1
      <4>1. queue'[a].item = events[r][n]
        BY <1>6, <1>7, <3>2
      <4>2. events[r][n] \in DOMAIN Items[r]
        BY <1>4, <1>5 DEF EventsOK, Sends
      <4>3. pc'[r] = "submit" => n < item'[r]
        BY SMTT(30), <1>5, <1>8
      <4> QED
        BY SMTT(30), <1>5, <2>0, <4>1, <4>2, <4>3
    <3> QED
      BY SMTT(30), <1>7, <3>1, <3>2
  <2>3. AcksOK(r)' /\ ResultsOK(r)'
    BY <1>3, <1>4 DEF AcksOK, ResultsOK, areResults, isResult
  <2>4. WaitOK(r)'
    <3> SUFFICES ASSUME NEW j \in DOMAIN events[r], pc'[r] = "submit" => j < item'[r], NEW i, i = events[r][j]
                 PROVE  i \in DOMAIN acks[r] \/ queued(r, i)'
      BY <1>3 DEF WaitOK
    <3>1. CASE j = n
      BY <1>14, <3>1
    <3>2. CASE j # n
      <4>1. j < n
        BY SMTT(30), <1>5, <1>8, <3>2
      <4> QED
        BY <1>1, <1>3, <1>4, <1>13, <4>1 DEF WaitOK
    <3> QED
      BY <3>1, <3>2
  <2> QED
    BY <1>4, <1>16, <2>1, <2>2, <2>3, <2>4 DEF CallInv
<1> QED
  BY <1>9, <1>10, <1>12, <1>17, <1>18 DEF IState

\* A result in the store stays there, unless its key becomes loose.
LEMMA StoredStays ==
  ASSUME NEW r \in Requests, NEW K, StoreKept(r, K), NEW e, stored(e), strict(keyOfEvent(e))'
  PROVE  stored(e)'
  BY DEF StoreKept, StoreStep, stored, reservedBy

\* The ring is full, and CreateTransfer gives up.
LEMMA SubmitFullInv ==
  ASSUME IInv, NEW r \in Requests, SubmitFull(r)
  PROVE  IInv'
<1> IState
  BY DEF IInv
<1>1. PICK K : K = {key(r)}
  OBVIOUS
<1>2. /\ pc[r] = "submit" /\ r \in Unary /\ Rollback(K) /\ return(r, result[r])
      /\ loose' = loose /\ LoopIdle
  BY <1>1 DEF SubmitFull, keep, LoopIdle
<1>3. EventsOK(r) /\ QueueOK(r) /\ ReservedOK(r) /\ CommittedOK(r) /\ ResultsOK(r)
  BY DEF IState, CallInv
<1>4. /\ events[r] = <<1>> /\ item[r] = 1 /\ DOMAIN events[r] = {1} /\ events[r][1] = 1
      /\ 1 \in DOMAIN Items[r] /\ 1 \notin DOMAIN acks[r]
  BY SMTT(30), <1>2, <1>3 DEF EventsOK, Sends, Submits
<1>5. LeavesLoose(r)
  BY SMTT(30), <1>2, <1>3, <1>4 DEF LeavesLoose, QueueOK
<1>6. \A k \in K : strict(k)' => reservedBy(k, r)
  <2>1. holds(r, 1)
    BY SMTT(30), <1>4 DEF holds
  <2> QED
    BY <1>1, <1>2, <1>3, <1>4, <2>1 DEF ReservedOK, key, strict
<1>7. StoreKept(r, K)
  BY <1>2, <1>6, RollbackStep
<1>8. AllStored(r)
  <2> SUFFICES ASSUME NEW e \in applied, e.r = r, strict(keyOfEvent(e))'
               PROVE  stored(e)'
    BY DEF AllStored
  <2>1. strict(keyOfEvent(e))
    BY <1>2 DEF strict
  <2>2. ~answered(e)
    BY <1>4 DEF answered, holds
  <2> QED
    BY <1>3, <1>7, <2>1, <2>2, StoredStays DEF CommittedOK
<1>9. PICK res : res = result[r]
  OBVIOUS
<1>10. areResults(r, res) /\ return(r, res)
  BY <1>2, <1>3, <1>9 DEF ResultsOK
<1> QED
  BY <1>2, <1>5, <1>7, <1>8, <1>10, ReturnStep

\* The context ends while CreateTransfer waits.
LEMMA GiveUpInv ==
  ASSUME IInv, NEW r \in Requests, GiveUp(r)
  PROVE  IInv'
<1> IState
  BY DEF IInv
<1>1. PICK K : K = {key(r)}
  OBVIOUS
<1>2. /\ pc[r] = "wait" /\ r \in Unary /\ Rollback(K) /\ return(r, result[r])
      /\ loose' = loose \cup K /\ LoopIdle
  BY <1>1 DEF GiveUp, LoopIdle
<1>3. EventsOK(r) /\ QueueOK(r) /\ CommittedOK(r) /\ ResultsOK(r)
  BY DEF IState, CallInv
<1>4. events[r] = <<1>> /\ item[r] = 1 /\ DOMAIN events[r] = {1} /\ events[r][1] = 1
  BY SMTT(30), <1>2, <1>3 DEF EventsOK, Submits
<1>5. LeavesLoose(r)
  BY <1>1, <1>2, <1>3, <1>4 DEF LeavesLoose, QueueOK, key
<1>6. \A k \in K : strict(k)' => reservedBy(k, r)
  BY <1>2 DEF strict
<1>7. StoreKept(r, K)
  BY <1>2, <1>6, RollbackStep
<1>8. AllStored(r)
  <2> SUFFICES ASSUME NEW e \in applied, e.r = r, strict(keyOfEvent(e))'
               PROVE  stored(e)'
    BY DEF AllStored
  <2>1. strict(keyOfEvent(e)) /\ keyOfEvent(e) \notin K
    BY <1>2 DEF strict
  <2>2. ~answered(e)
    BY <1>1, <1>4, <2>1 DEF answered, holds, keyOfEvent, key
  <2> QED
    BY <1>3, <1>7, <2>1, <2>2, StoredStays DEF CommittedOK
<1>9. PICK res : res = result[r]
  OBVIOUS
<1>10. areResults(r, res) /\ return(r, res)
  BY <1>2, <1>3, <1>9 DEF ResultsOK
<1> QED
  BY <1>2, <1>5, <1>7, <1>8, <1>10, ReturnStep

\* Settling an answered item, with its key or, after a failed write, without.
LEMMA SettleStore ==
  ASSUME IInv, NEW r \in Requests, NEW i \in DOMAIN acks[r], i \in DOMAIN Items[r], NEW k \in {NoKey, Key(r, i)},
         acks[r][i].ok => k = Key(r, i), k # NoKey => holds(r, i), LoopIdle,
         IF k = NoKey THEN UNCHANGED <<store, loose>>
         ELSE IF acks[r][i].ok THEN Commit(k, r, acks[r][i].x)
         ELSE Rollback({k}) /\ UNCHANGED loose
  PROVE  /\ StoreKept(r, {Key(r, i)})
         /\ \A e \in applied : e.r = r /\ e.item = i /\ acks[r][i].ok /\ strict(keyOfEvent(e))' => stored(e)'
<1> IState
  BY DEF IInv
<1>1. AcksOK(r) /\ ReservedOK(r) /\ \A m : strict(m) /\ m = k => reservedBy(m, r)
  BY DEF IState, CallInv, ReservedOK, strict
<1>2. CASE k = NoKey
  <2>1. StoreKept(r, {})
    BY <1>2, StoreSame
  <2>2. \A e \in applied : e.r = r /\ e.item = i /\ acks[r][i].ok => ~strict(keyOfEvent(e))'
    BY <1>2 DEF strict, keyOfEvent
  <2> QED
    BY <2>1, <2>2 DEF StoreKept, StoreStep
<1>3. CASE k # NoKey /\ acks[r][i].ok
  <2>1. PICK x : x = acks[r][i].x
    OBVIOUS
  <2>2. x = [r |-> r, item |-> i] /\ x \in applied /\ k = Key(r, i) /\ keyOfEvent(x) = k
    BY SMTT(30), <1>1, <1>3, <2>1 DEF AcksOK, keyOfEvent
  <2>3. Commit(k, r, x) /\ loose \subseteq loose'
    BY <1>3, <2>1, CommitStore
  <2>4. strict(k)' => reservedBy(k, r)
    BY <1>1, <2>3 DEF strict
  <2>5. /\ StoreKept(r, {k})
        /\ strict(k)' => k \in DOMAIN entries' /\ ~entries'[k].pending /\ entries'[k].transfer = x
    BY <1>3, <2>2, <2>3, <2>4, CommitStep
  <2>6. \A e \in applied : e.r = r /\ e.item = i => e = x
    BY SMTT(30), <2>2 DEF IState, Types, Events
  <2>7. strict(keyOfEvent(x))' => stored(x)'
    BY <2>2, <2>5 DEF stored
  <2> QED
    BY <2>2, <2>5, <2>6, <2>7
<1>4. CASE k # NoKey /\ ~acks[r][i].ok
  <2>1. PICK K : K = {k}
    OBVIOUS
  <2>2. Rollback(K) /\ loose' = loose
    BY <1>4, <2>1
  <2>3. \A m \in K : strict(m)' => reservedBy(m, r)
    BY <1>1, <2>1, <2>2 DEF strict
  <2>4. StoreKept(r, K)
    BY <2>2, <2>3, RollbackStep
  <2> QED
    BY <1>4, <2>1, <2>4
<1> QED
  BY <1>2, <1>3, <1>4

\* What an answer carries is a result for its item.
LEMMA AckResult ==
  ASSUME IInv, NEW r \in Requests, NEW i \in DOMAIN acks[r]
  PROVE  isResult(r, i, acks[r][i].x)
<1> IState
  BY DEF IInv
<1>1. AcksOK(r)
  BY DEF IState, CallInv
<1>2. CASE acks[r][i].ok
  <2>1. PICK x : x = acks[r][i].x
    OBVIOUS
  <2>2. x = [r |-> r, item |-> i] /\ x \in applied
    BY <1>1, <1>2, <2>1 DEF AcksOK
  <2>3. keyOfEvent(x) = Key(r, i)
    BY <2>2 DEF keyOfEvent
  <2> QED
    BY <2>1, <2>2, <2>3 DEF isResult
<1>3. CASE ~acks[r][i].ok
  BY <1>1, <1>3 DEF AcksOK, isResult
<1> QED
  BY <1>2, <1>3

\* CreateTransfer receives its answer.
LEMMA ReceiveAckInv ==
  ASSUME IInv, NEW r \in Requests, ReceiveAck(r)
  PROVE  IInv'
<1> IState
  BY DEF IInv
<1>1. /\ pc[r] = "wait" /\ r \in Unary /\ 1 \in DOMAIN acks[r]
      /\ return(r, with(result[r], 1, acks[r][1].x)) /\ LoopIdle
  BY DEF ReceiveAck, keep, LoopIdle
<1>2. EventsOK(r) /\ QueueOK(r) /\ CommittedOK(r) /\ AcksOK(r)
  BY DEF IState, CallInv
<1>3. events[r] = <<1>> /\ item[r] = 1 /\ DOMAIN events[r] = {1} /\ events[r][1] = 1 /\ 1 \in DOMAIN Items[r]
  BY SMTT(30), <1>1, <1>2 DEF EventsOK, Sends, Submits
<1>4. holds(r, 1)
  BY <1>1, <1>3 DEF holds
<1>5. PICK k : k = Key(r, 1)
  OBVIOUS
<1>6. IF k = NoKey THEN UNCHANGED <<store, loose>>
      ELSE IF acks[r][1].ok THEN Commit(k, r, acks[r][1].x)
      ELSE Rollback({k}) /\ UNCHANGED loose
  BY <1>3, <1>5 DEF ReceiveAck, key
<1>7. /\ StoreKept(r, {Key(r, 1)})
      /\ \A e \in applied : e.r = r /\ e.item = 1 /\ acks[r][1].ok /\ strict(keyOfEvent(e))' => stored(e)'
  BY <1>1, <1>3, <1>4, <1>5, <1>6, SettleStore
<1>8. LeavesLoose(r)
  BY <1>1, <1>2, <1>3 DEF LeavesLoose, QueueOK
<1>9. AllStored(r)
  <2> SUFFICES ASSUME NEW e \in applied, e.r = r, strict(keyOfEvent(e))'
               PROVE  stored(e)'
    BY DEF AllStored
  <2>1. strict(keyOfEvent(e))
    BY <1>7 DEF StoreKept, StoreStep, strict
  <2>2. answered(e) => e.item = 1 /\ acks[r][1].ok
    BY <1>3 DEF answered, holds
  <2> QED
    BY <1>2, <1>7, <2>1, <2>2, StoredStays DEF CommittedOK
<1>10. isResult(r, 1, acks[r][1].x)
  BY <1>1, AckResult
<1>11. PICK res : res = with(result[r], 1, acks[r][1].x)
  OBVIOUS
<1>12. areResults(r, res) /\ return(r, res)
  BY <1>1, <1>10, <1>11, WithResult
<1> QED
  BY <1>1, <1>7, <1>8, <1>9, <1>12, ReturnStep

\* Every event of the batch is answered.
LEMMA BatchDoneInv ==
  ASSUME IInv, NEW r \in Requests, BatchDone(r)
  PROVE  IInv'
<1> IState
  BY DEF IInv
<1>1. /\ pc[r] = "wait" /\ r \notin Unary /\ pc' = [pc EXCEPT ![r] = "settle"]
      /\ \A j \in DOMAIN events[r] : events[r][j] \in DOMAIN acks[r]
      /\ UNCHANGED <<item, at, events, acks, result>> /\ UNCHANGED <<store, loose>>
      /\ LoopIdle
  BY DEF BatchDone, keep, LoopIdle
<1>2. /\ EventsOK(r) /\ QueueOK(r) /\ AcksOK(r) /\ ResultsOK(r) /\ ReservedOK(r) /\ CommittedOK(r)
      /\ events[r] \in Seq(Nat)
  BY DEF IState, CallInv, Types
<1>3. StoreKept(r, {})
  BY <1>1, StoreSame
<1>4. Types'
  BY <1>1, <1>3 DEF IState, Types, States, StoreKept, LoopIdle
<1>5. Others(r) /\ pc'[r] = "settle"
  BY <1>1 DEF IState, Types, Others
<1>6. EventsOK(r)'
  <2>1. Sends(r) /\ item[r] \in DOMAIN events[r]
    BY <1>1, <1>2 DEF EventsOK, Submits
  <2>2. Submits(r)'
    BY <1>1, <1>5, <2>1 DEF Submits
  <2>3. Reserves(r)' /\ Sends(r)'
    BY <1>1, <1>5, <2>1 DEF Reserves, Sends
  <2> QED
    BY <2>2, <2>3 DEF EventsOK
<1>7. \A a \in DOMAIN queue : queue[a].r # r
  BY <1>1, <1>2 DEF QueueOK
<1>8. QueueOK(r)'
  BY <1>1, <1>7 DEF QueueOK, LoopIdle
<1>9. AcksOK(r)' /\ ResultsOK(r)'
  BY <1>1, <1>2 DEF AcksOK, ResultsOK, areResults, isResult, LoopIdle
<1>10. \A i : holds(r, i)' <=> holds(r, i)
  <2>1. item[r] = 1 /\ \A j \in DOMAIN events[r] : item[r] <= j
    BY SMTT(30), <1>1, <1>2 DEF EventsOK, Submits
  <2> QED
    BY <1>1, <2>1 DEF holds
<1>11. ReservedOK(r)'
  BY <1>1, <1>2, <1>10 DEF ReservedOK, reservedBy, strict, store
<1>12. CommittedOK(r)'
  <2>1. \A e \in applied : e.r = r /\ answered(e) => answered(e)'
    BY <1>1, <1>10 DEF answered
  <2>2. \A e \in applied : stored(e) => stored(e)'
    BY <1>1 DEF stored, store
  <2>3. \A e \in applied : strict(keyOfEvent(e))' => strict(keyOfEvent(e))
    BY <1>1 DEF strict
  <2> QED
    BY <1>1, <1>2, <2>1, <2>2, <2>3 DEF CommittedOK, LoopIdle
<1>13. WaitOK(r)'
  BY <1>5 DEF WaitOK
<1> QED
  BY <1>1, <1>3, <1>4, <1>5, <1>6, <1>8, <1>9, <1>11, <1>12, <1>13, CallStep DEF CallInv

\* One item of a batch is settled.
LEMMA materializeInv ==
  ASSUME IInv, NEW r \in Requests, materialize(r)
  PROVE  IInv'
<1> IState
  BY DEF IInv
<1>1. PICK n : n = item[r]
  OBVIOUS
<1>2. PICK i : i = events[r][n]
  OBVIOUS
<1>3. PICK a : a = acks[r][i]
  OBVIOUS
<1>4. /\ pc[r] = "settle" /\ LoopIdle
      /\ IF a.key = NoKey THEN UNCHANGED <<store, loose>>
         ELSE IF a.ok THEN Commit(a.key, r, a.x)
         ELSE Rollback({a.key}) /\ UNCHANGED loose
      /\ IF n < Len(events[r])
         THEN /\ item' = [item EXCEPT ![r] = @ + 1] /\ result' = [result EXCEPT ![r] = with(@, i, a.x)]
              /\ UNCHANGED <<pc, at, events, acks>>
         ELSE return(r, with(result[r], i, a.x))
  BY <1>1, <1>2, <1>3 DEF materialize, keep, LoopIdle
<1>5. /\ EventsOK(r) /\ QueueOK(r) /\ AcksOK(r) /\ ReservedOK(r) /\ CommittedOK(r)
      /\ events[r] \in Seq(Nat) /\ n \in Nat
  BY <1>1 DEF IState, CallInv, Types
<1>6. /\ n \in DOMAIN events[r] /\ i \in DOMAIN acks[r] /\ i \in DOMAIN Items[r] /\ r \notin Unary
      /\ DOMAIN events[r] = 1 .. Len(events[r]) /\ Len(events[r]) \in Nat
  <2>1. Sends(r) /\ n \in DOMAIN events[r] /\ r \notin Unary /\ \A j \in DOMAIN events[r] : events[r][j] \in DOMAIN acks[r]
    BY <1>1, <1>4, <1>5 DEF EventsOK, Submits
  <2> QED
    BY SMTT(30), <1>2, <1>5, <2>1 DEF Sends
<1>7. a.key # NoKey => holds(r, i)
  <2>1. n \in DOMAIN events[r] /\ events[r][n] = i /\ item[r] <= n
    BY SMTT(30), <1>1, <1>2, <1>5, <1>6
  <2>2. a.key # NoKey => acks[r][i].key # NoKey
    BY <1>3
  <2> QED
    BY <2>1, <2>2 DEF holds
<1>8. a.key \in {NoKey, Key(r, i)} /\ (a.ok => a.key = Key(r, i))
  BY <1>3, <1>5, <1>6 DEF AcksOK
<1>9. /\ StoreKept(r, {Key(r, i)})
      /\ \A e \in applied : e.r = r /\ e.item = i /\ a.ok /\ strict(keyOfEvent(e))' => stored(e)'
  BY <1>3, <1>4, <1>6, <1>7, <1>8, SettleStore
<1>10. \A b \in DOMAIN queue : queue[b].r # r
  BY <1>4, <1>5 DEF QueueOK
<1>11. ASSUME NEW e \in applied, e.r = r, strict(keyOfEvent(e))'
       PROVE  \/ stored(e)'
              \/ /\ e.item \in DOMAIN acks[r] /\ acks[r][e.item].ok /\ acks[r][e.item].key # NoKey
                 /\ \E j \in DOMAIN events[r] : events[r][j] = e.item /\ n < j
  <2>1. strict(keyOfEvent(e))
    BY <1>9, <1>11 DEF StoreKept, StoreStep, strict
  <2>2. CASE stored(e)
    BY <1>9, <1>11, <2>2, StoredStays
  <2>3. CASE answered(e)
    <3>1. /\ e.item \in DOMAIN acks[r] /\ acks[r][e.item].ok /\ acks[r][e.item].key # NoKey
          /\ \E j \in DOMAIN events[r] : events[r][j] = e.item /\ n <= j
      BY <1>1, <1>4, <1>6, <1>11, <2>3 DEF answered, holds
    <3>2. PICK j \in DOMAIN events[r] : events[r][j] = e.item /\ n <= j
      BY <3>1
    <3>3. CASE j = n
      BY <1>2, <1>3, <1>9, <1>11, <3>1, <3>2, <3>3
    <3>4. CASE n < j
      BY <3>1, <3>2, <3>4
    <3> QED
      BY SMTT(30), <1>6, <3>2, <3>3, <3>4
  <2> QED
    BY <1>5, <1>11, <2>1, <2>2, <2>3 DEF CommittedOK
<1> DEFINE res == with(result[r], i, a.x)
<1>12. areResults(r, res)
  BY <1>3, <1>6, AckResult, WithResult
<1> HIDE DEF res
<1>13. CASE ~(n < Len(events[r]))
  <2>1. return(r, res)
    BY <1>4, <1>13 DEF res
  <2>2. AllStored(r)
    BY SMTT(30), <1>6, <1>11, <1>13 DEF AllStored
  <2>3. LeavesLoose(r)
    BY <1>10 DEF LeavesLoose
  <2> QED
    BY <1>4, <1>9, <2>3, <1>12, <2>1, <2>2, ReturnStep
<1>14. CASE n < Len(events[r])
  <2>1. /\ item' = [item EXCEPT ![r] = n + 1] /\ result' = [result EXCEPT ![r] = res]
        /\ UNCHANGED <<pc, at, events, acks>>
    BY <1>1, <1>4, <1>14 DEF res
  <2>2. Types'
    <3>1. item \in [Requests -> Nat] /\ n + 1 \in Nat
      BY SMTT(30), <1>5 DEF IState, Types
    <3>2. item' \in [Requests -> Nat]
      BY <2>1, <3>1
    <3>3. applied' = applied /\ queue' = queue /\ StoreTypes'
      BY <1>4, <1>9 DEF StoreKept, LoopIdle
    <3> QED
      BY <2>1, <3>2, <3>3 DEF IState, Types
  <2>3. Others(r) /\ item'[r] = n + 1 /\ result'[r] = res
    BY <2>1 DEF IState, Types, Others
  <2>4. EventsOK(r)'
    <3>1. item'[r] \in DOMAIN events[r]
      <4>1. n + 1 \in DOMAIN events[r]
        BY SMTT(30), <1>5, <1>6, <1>14
      <4> QED
        BY <2>3, <4>1
    <3>2. pc'[r] = "settle" /\ events' = events /\ acks' = acks
      BY <1>4, <2>1
    <3>3. Sends(r) /\ r \notin Unary /\ \A j \in DOMAIN events[r] : events[r][j] \in DOMAIN acks[r]
      BY <1>4, <1>5 DEF EventsOK, Submits
    <3>4. Submits(r)'
      BY <3>1, <3>2, <3>3 DEF Submits
    <3>5. Reserves(r)' /\ Sends(r)'
      BY <3>2, <3>3 DEF Reserves, Sends
    <3> QED
      BY <3>4, <3>5 DEF EventsOK
  <2>5. QueueOK(r)' /\ WaitOK(r)'
    BY <1>4, <1>10, <2>1 DEF QueueOK, WaitOK, LoopIdle
  <2>6. AcksOK(r)'
    BY <1>4, <1>5, <2>1 DEF AcksOK, LoopIdle
  <2>7. ResultsOK(r)'
    BY <1>4, <1>12, <2>3 DEF ResultsOK, areResults, isResult, LoopIdle
  <2>8. ReservedOK(r)'
    <3> SUFFICES ASSUME NEW m \in DOMAIN Items[r], holds(r, m)', strict(Key(r, m))'
                 PROVE  reservedBy(Key(r, m), r)'
      BY DEF ReservedOK
    <3>1. PICK j \in DOMAIN events[r] : events[r][j] = m /\ n + 1 <= j
      BY <1>4, <2>1, <2>3 DEF holds
    <3>2. n <= j /\ j # n
      BY SMTT(30), <1>6, <3>1
    <3>3. holds(r, m)
      BY <1>1, <2>1, <3>1, <3>2 DEF holds
    <3>4. strict(Key(r, m))
      BY <1>9 DEF StoreKept, StoreStep, strict
    <3>5. reservedBy(Key(r, m), r)
      BY <1>5, <3>3, <3>4 DEF ReservedOK
    <3>6. Key(r, m) # Key(r, i)
      BY <1>2, <1>5, <1>6, <3>1, <3>2 DEF EventsOK, Sends, Submits, strict
    <3> QED
      BY <1>9, <3>5, <3>6 DEF StoreKept, StoreStep, reservedBy, Key
  <2>9. CommittedOK(r)'
    <3> SUFFICES ASSUME NEW e \in applied, e.r = r, strict(keyOfEvent(e))'
                 PROVE  stored(e)' \/ answered(e)'
      BY <1>4 DEF CommittedOK, LoopIdle
    <3>1. CASE /\ e.item \in DOMAIN acks[r] /\ acks[r][e.item].ok /\ acks[r][e.item].key # NoKey
               /\ \E j \in DOMAIN events[r] : events[r][j] = e.item /\ n < j
      BY SMTT(30), <1>6, <2>1, <2>3, <3>1 DEF answered, holds
    <3> QED
      BY <1>11, <3>1
  <2> QED
    BY <1>4, <1>9, <2>2, <2>3, <2>4, <2>5, <2>6, <2>7, <2>8, <2>9, CallStep DEF CallInv
<1> QED
  BY <1>13, <1>14

\* The ledger closes while CreateTransfers waits for room: the events that were
\* not queued are answered and their keys given back.
LEMMA SubmitClosedInv ==
  ASSUME IInv, NEW r \in Requests, SubmitClosed(r)
  PROVE  IInv'
<1> IState
  BY DEF IInv
<1>1. PICK n : n = item[r]
  OBVIOUS
<1>2. PICK K : K = eventKeys(r, n)
  OBVIOUS
<1> DEFINE tail == {events[r][j] : j \in n .. Len(events[r])}
<1>3. /\ pc[r] = "submit" /\ r \notin Unary /\ Rollback(K) /\ loose' = loose /\ LoopIdle
      /\ pc' = [pc EXCEPT ![r] = "wait"] /\ item' = [item EXCEPT ![r] = 1] /\ UNCHANGED <<at, events, result>>
      /\ acks' = [acks EXCEPT ![r] = [i \in DOMAIN acks[r] \cup tail |-> IF i \in tail THEN closedAck ELSE acks[r][i]]]
  BY <1>1, <1>2 DEF SubmitClosed, keep, LoopIdle
<1>4. /\ EventsOK(r) /\ QueueOK(r) /\ AcksOK(r) /\ ResultsOK(r) /\ ReservedOK(r) /\ CommittedOK(r) /\ WaitOK(r)
      /\ events[r] \in Seq(Nat) /\ n \in Nat
  BY <1>1 DEF IState, CallInv, Types
<1>5. /\ n \in DOMAIN events[r] /\ DOMAIN events[r] = 1 .. Len(events[r]) /\ Len(events[r]) \in Nat
      /\ \A j \in DOMAIN events[r] : n <= j => events[r][j] \notin DOMAIN acks[r]
  BY SMTT(30), <1>1, <1>3, <1>4 DEF EventsOK, Sends, Reserves, Submits
<1>6. \A j, m \in DOMAIN events[r] :
        events[r][j] = events[r][m] \/ (Key(r, events[r][j]) = Key(r, events[r][m]) /\ Key(r, events[r][j]) # NoKey)
          => j = m
  BY <1>4 DEF EventsOK, Sends, Reserves, Submits
<1>7. /\ \A j \in DOMAIN events[r] : events[r][j] \in tail <=> n <= j
      /\ tail \cap DOMAIN acks[r] = {}
  <2>1. n .. Len(events[r]) = {m \in DOMAIN events[r] : n <= m}
    BY SMTT(30), <1>4, <1>5
  <2> QED
    BY SMTT(30), <1>5, <1>6, <2>1
<1>8. \A j \in DOMAIN events[r] : Key(r, events[r][j]) \in K => n <= j
  <2> SUFFICES ASSUME NEW j \in DOMAIN events[r], Key(r, events[r][j]) \in K
               PROVE  n <= j
    OBVIOUS
  <2>1. PICK m \in n .. Len(events[r]) : Key(r, events[r][j]) = Key(r, events[r][m]) /\ Key(r, events[r][j]) # NoKey
    BY <1>2 DEF eventKeys
  <2>2. m \in DOMAIN events[r] /\ n <= m
    BY SMTT(30), <1>4, <1>5
  <2> QED
    BY <1>6, <2>1, <2>2
<1>9. \A k \in K : strict(k)' => reservedBy(k, r)
  <2> SUFFICES ASSUME NEW j \in n .. Len(events[r]), strict(Key(r, events[r][j]))
               PROVE  reservedBy(Key(r, events[r][j]), r)
    BY <1>2, <1>3 DEF eventKeys, strict
  <2>1. j \in DOMAIN events[r] /\ events[r][j] \notin DOMAIN acks[r] /\ events[r][j] \in DOMAIN Items[r]
    BY SMTT(30), <1>4, <1>5 DEF EventsOK, Sends, Reserves, Submits
  <2>2. holds(r, events[r][j])
    BY <1>3, <2>1 DEF holds
  <2> QED
    BY <1>4, <2>1, <2>2 DEF ReservedOK
<1>10. StoreKept(r, K)
  BY <1>3, <1>9, RollbackStep
<1> HIDE DEF tail
<1>11. Types'
  <2>1. pc \in [Requests -> States] /\ item \in [Requests -> Nat]
    BY DEF IState, Types
  <2>2. pc' \in [Requests -> States] /\ item' \in [Requests -> Nat]
    BY <1>3, <2>1 DEF States
  <2>3. applied' = applied /\ queue' = queue /\ StoreTypes'
    BY <1>3, <1>10 DEF StoreKept, LoopIdle
  <2>4. DOMAIN acks' = Requests
    BY <1>3 DEF IState, Types
  <2> QED
    BY <1>3, <2>2, <2>3, <2>4 DEF IState, Types
<1>12. /\ Others(r) /\ pc'[r] = "wait" /\ item'[r] = 1 /\ events'[r] = events[r] /\ result'[r] = result[r]
       /\ DOMAIN acks'[r] = DOMAIN acks[r] \cup tail
       /\ \A i \in tail : acks'[r][i] = closedAck
       /\ \A i \in DOMAIN acks[r] : acks'[r][i] = acks[r][i]
  BY <1>3, <1>7 DEF IState, Types, Others
<1>13. EventsOK(r)'
  BY SMTT(30), <1>3, <1>4, <1>5, <1>12 DEF EventsOK, Sends, Reserves, Submits
<1>14. QueueOK(r)'
  BY SMTT(30), <1>1, <1>3, <1>4, <1>5, <1>7, <1>12 DEF QueueOK, LoopIdle
<1>15. closedAck.ok = FALSE /\ closedAck.key = NoKey /\ closedAck.x = Nobody
  BY DEF closedAck
<1>16. AcksOK(r)'
  <2> SUFFICES ASSUME NEW i \in DOMAIN acks'[r]
               PROVE  /\ acks'[r][i].ok \in BOOLEAN /\ acks'[r][i].key \in {NoKey, Key(r, i)}
                      /\ acks'[r][i].ok => /\ acks'[r][i].x = [r |-> r, item |-> i] /\ [r |-> r, item |-> i] \in applied
                                           /\ acks'[r][i].key = Key(r, i)
                      /\ ~acks'[r][i].ok => acks'[r][i].x = Nobody
    BY <1>3 DEF AcksOK, LoopIdle
  <2>1. CASE i \in tail
    BY <1>12, <1>15, <2>1
  <2>2. CASE i \in DOMAIN acks[r]
    BY <1>4, <1>12, <2>2 DEF AcksOK
  <2> QED
    BY <1>12, <2>1, <2>2
<1>17. ResultsOK(r)'
  BY <1>3, <1>4, <1>12 DEF ResultsOK, areResults, isResult, LoopIdle
<1>18. ReservedOK(r)'
  <2> SUFFICES ASSUME NEW i \in DOMAIN Items[r], holds(r, i)', strict(Key(r, i))'
               PROVE  reservedBy(Key(r, i), r)'
    BY DEF ReservedOK, Key
  <2>1. PICK j \in DOMAIN events[r] : events[r][j] = i
    BY <1>12 DEF holds
  <2>2. i \notin tail
    BY <1>3, <1>12, <1>15 DEF holds
  <2>3. holds(r, i)
    BY <1>3, <1>12, <2>1 DEF holds
  <2>4. reservedBy(Key(r, i), r) /\ Key(r, i) \notin K
    BY <1>3, <1>4, <1>7, <1>8, <2>1, <2>2, <2>3 DEF ReservedOK, strict, Key
  <2> QED
    BY <1>10, <2>4 DEF StoreKept, StoreStep, reservedBy, Key
<1>19. CommittedOK(r)'
  <2> SUFFICES ASSUME NEW e \in applied, e.r = r, strict(keyOfEvent(e))'
               PROVE  stored(e)' \/ answered(e)'
    BY <1>3 DEF CommittedOK, LoopIdle
  <2>1. strict(keyOfEvent(e))
    BY <1>3 DEF strict, keyOfEvent, Key
  <2>2. stored(e) => stored(e)'
    BY <1>10, StoredStays
  <2>3. answered(e) => answered(e)'
    BY ZenonT(30), <1>3, <1>12 DEF answered, holds
  <2> QED
    BY <1>4, <2>1, <2>2, <2>3 DEF CommittedOK
<1>20. WaitOK(r)'
  BY SMTT(30), <1>1, <1>3, <1>4, <1>5, <1>7, <1>12 DEF WaitOK, queued, LoopIdle
<1> QED
  BY <1>3, <1>10, <1>11, <1>12, <1>13, <1>14, <1>16, <1>17, <1>18, <1>19, <1>20, CallStep DEF CallInv

-----------------------------------------------------------------------------
(* The loop *)

\* An event is a call and an item of it.
LEMMA EventRecord ==
  ASSUME NEW e \in Events
  PROVE  e = [r |-> e.r, item |-> e.item] /\ e.r \in Requests /\ e.item \in Nat
  BY DEF Events

\* The answers of a batch: those of good events carry the transfer and its key.
Answers(F, ack, good) ==
  \A e \in F : /\ ack[e].ok \in BOOLEAN /\ ack[e].key \in {NoKey, keyOfEvent(e)} /\ (ack[e].ok <=> e \in good)
               /\ ack[e].ok => ack[e].x = e /\ ack[e].key = keyOfEvent(e)
               /\ ~ack[e].ok => ack[e].x = Nobody

\* The loop answers the first events of the ring and commits the good ones.
LEMMA CompleteInv ==
  ASSUME IInv, NEW n \in 1 .. Len(queue), NEW F, F = first(n), NEW ack, complete(n, ack),
         NEW good, good \subseteq F, applied' = applied \cup good,
         Answers(F, ack, good),
         UNCHANGED <<store, pc, item, at, events, result, loose>>
  PROVE  IInv'
<1> IState
  BY DEF IInv
<1> DEFINE ev(q, i) == [r |-> q, item |-> i]
<1>1. /\ queue \in Seq(Events) /\ Len(queue) \in Nat /\ n \in Nat /\ n <= Len(queue) /\ DOMAIN queue = 1 .. Len(queue)
      /\ \A q \in Requests : CallInv(q)
  BY SMTT(30) DEF IState, Types
<1>2. \A e : e \in F <=> \E a \in 1 .. n : queue[a] = e
  BY DEF first
<1>3. \A e \in F : e \in Events /\ e = ev(e.r, e.item) /\ e.r \in Requests
  <2>1. \A a \in 1 .. n : queue[a] \in Events
    BY SMTT(30), <1>1
  <2> QED
    BY <1>2, <2>1, EventRecord
<1>4. /\ queue' \in Seq(Events) /\ DOMAIN queue' = 1 .. Len(queue) - n
      /\ \A a \in DOMAIN queue' : queue'[a] = queue[a + n] /\ a + n \in DOMAIN queue /\ a + n > n
  <2>1. queue' = SubSeq(queue, n + 1, Len(queue))
    BY DEF complete
  <2> QED
    BY SMTT(30), <1>1, <2>1
<1>5. \A e \in F : /\ e.item \in DOMAIN Items[e.r]
                   /\ \/ /\ pc[e.r] \in {"submit", "wait"} /\ e.item \notin DOMAIN acks[e.r]
                         /\ \E j \in DOMAIN events[e.r] : events[e.r][j] = e.item /\ (pc[e.r] = "submit" => j < item[e.r])
                      \/ pc[e.r] = "done" /\ ~strict(keyOfEvent(e))
  <2> SUFFICES ASSUME NEW a \in 1 .. n, queue[a].r \in Requests
               PROVE  LET e == queue[a] IN
                      /\ e.item \in DOMAIN Items[e.r]
                      /\ \/ /\ pc[e.r] \in {"submit", "wait"} /\ e.item \notin DOMAIN acks[e.r]
                            /\ \E j \in DOMAIN events[e.r] : events[e.r][j] = e.item /\ (pc[e.r] = "submit" => j < item[e.r])
                         \/ pc[e.r] = "done" /\ ~strict(keyOfEvent(e))
    BY SMTT(30), <1>2, <1>3
  <2>1. a \in DOMAIN queue /\ QueueOK(queue[a].r)
    BY SMTT(30), <1>1 DEF CallInv
  <2> QED
    BY <2>1 DEF QueueOK, strict, keyOfEvent
<1>6. /\ \A q \in Requests : DOMAIN acks'[q] = DOMAIN acks[q] \cup {i \in Nat : ev(q, i) \in F}
      /\ \A q \in Requests : \A i \in DOMAIN acks'[q] :
           acks'[q][i] = IF ev(q, i) \in F THEN ack[ev(q, i)] ELSE acks[q][i]
      /\ DOMAIN acks' = Requests
  <2>1. acks' = [r \in Requests |-> [i \in DOMAIN acks[r] \cup {e.item : e \in {d \in F : d.r = r}} |->
                   IF ev(r, i) \in F THEN ack[ev(r, i)] ELSE acks[r][i]]]
    BY DEF complete
  <2>2. \A q \in Requests : {e.item : e \in {d \in F : d.r = q}} = {i \in Nat : ev(q, i) \in F}
    BY SMTT(30), <1>3 DEF Events
  <2> HIDE DEF ev
  <2> QED
    BY <2>1, <2>2
<1>7. Types'
  BY <1>3, <1>4, <1>6 DEF IState, Types, StoreTypes, store
<1>8. StoreInv'
  BY <1>5 DEF IState, StoreInv, store, keyOfEvent, Key
<1>9. QueueDistinct'
  BY SMTT(30), <1>1, <1>4 DEF IState, QueueDistinct
<1> SUFFICES (\A q \in Requests : CallInv(q))'
  BY <1>7, <1>8, <1>9 DEF IInv, IState
<1> SUFFICES ASSUME NEW q \in Requests
             PROVE  CallInv(q)'
  OBVIOUS
<1>10. EventsOK(q) /\ QueueOK(q) /\ AcksOK(q) /\ ResultsOK(q) /\ ReservedOK(q) /\ CommittedOK(q) /\ WaitOK(q)
  BY <1>1 DEF CallInv
<1>11. \A i : ev(q, i) \in F =>
         /\ i \in DOMAIN Items[q]
         /\ \/ /\ pc[q] \in {"submit", "wait"} /\ i \notin DOMAIN acks[q]
               /\ \E j \in DOMAIN events[q] : events[q][j] = i /\ (pc[q] = "submit" => j < item[q])
            \/ pc[q] = "done" /\ ~strict(Key(q, i))
  BY <1>5 DEF keyOfEvent
<1> HIDE DEF ev
<1>12. EventsOK(q)'
  <2>1. pc[q] \in {"begin", "lock"} => DOMAIN acks'[q] = {}
    BY <1>6, <1>10, <1>11 DEF EventsOK, Sends, Reserves, Submits
  <2>2. pc[q] = "submit" => \A j \in DOMAIN events[q] : item[q] <= j => events[q][j] \notin DOMAIN acks'[q]
    <3> SUFFICES ASSUME pc[q] = "submit", NEW j \in DOMAIN events[q], item[q] <= j, events[q][j] \in DOMAIN acks'[q]
                 PROVE  FALSE
      OBVIOUS
    <3>1. events[q][j] \notin DOMAIN acks[q]
      BY <1>10 DEF EventsOK, Sends, Reserves, Submits
    <3>2. PICK m \in DOMAIN events[q] : events[q][m] = events[q][j] /\ m < item[q]
      BY ZenonT(30), <1>6, <1>11, <3>1
    <3>3. m = j
      BY <1>10, <3>2 DEF EventsOK, Sends, Reserves, Submits
    <3>4. item[q] \in Nat /\ j \in Nat
      BY SMTT(30) DEF IState, Types
    <3> QED
      BY SMTT(30), <3>2, <3>3, <3>4
  <2>3. DOMAIN acks[q] \subseteq DOMAIN acks'[q]
    BY SMTT(30), <1>6
  <2> QED
    BY <1>10, <2>1, <2>2, <2>3 DEF EventsOK, Sends, Reserves, Submits, key
<1>13. QueueOK(q)'
  <2> SUFFICES ASSUME NEW a \in DOMAIN queue', queue'[a].r = q
               PROVE  /\ queue'[a].item \in DOMAIN Items[q]
                      /\ \/ /\ pc[q] \in {"submit", "wait"} /\ queue'[a].item \notin DOMAIN acks'[q]
                            /\ \E j \in DOMAIN events[q] : events[q][j] = queue'[a].item /\ (pc[q] = "submit" => j < item[q])
                         \/ pc[q] = "done" /\ Key(q, queue'[a].item) \in loose \cup {NoKey}
    BY DEF QueueOK, Key
  <2>1. queue'[a] = queue[a + n] /\ a + n \in DOMAIN queue /\ a + n > n
    BY <1>4
  <2>2. queue[a + n] \notin F
    BY SMTT(30), <1>1, <1>2, <2>1 DEF IState, QueueDistinct
  <2>3. queue'[a] = ev(q, queue'[a].item)
    <3>1. queue'[a] \in Events
      BY SMTT(30), <1>1, <2>1
    <3> QED
      BY <3>1, EventRecord DEF ev
  <2> QED
    BY SMTT(30), <1>6, <1>10, <2>1, <2>2, <2>3 DEF QueueOK
<1>14. AcksOK(q)'
  <2> SUFFICES ASSUME NEW i \in DOMAIN acks'[q]
               PROVE  /\ acks'[q][i].ok \in BOOLEAN /\ acks'[q][i].key \in {NoKey, Key(q, i)}
                      /\ acks'[q][i].ok => /\ acks'[q][i].x = ev(q, i) /\ ev(q, i) \in applied'
                                           /\ acks'[q][i].key = Key(q, i)
                      /\ ~acks'[q][i].ok => acks'[q][i].x = Nobody
    BY DEF AcksOK, Key, ev
  <2>1. CASE ev(q, i) \in F
    <3>1. keyOfEvent(ev(q, i)) = Key(q, i)
      BY DEF keyOfEvent, ev
    <3>2. acks'[q][i] = ack[ev(q, i)]
      BY <1>6, <2>1
    <3> QED
      BY <2>1, <3>1, <3>2 DEF Answers
  <2>2. CASE ev(q, i) \notin F
    <3>1. i \in DOMAIN acks[q] /\ acks'[q][i] = acks[q][i]
      BY ZenonT(30), <1>6, <2>2
    <3> QED
      BY <1>10, <3>1 DEF AcksOK, ev
  <2> QED
    BY <2>1, <2>2
<1>15. ResultsOK(q)'
  BY <1>10 DEF ResultsOK, areResults, isResult
<1>16. ASSUME NEW i \in DOMAIN acks[q], NEW j \in DOMAIN events[q]
       PROVE  ev(q, i) \notin F /\ acks'[q][i] = acks[q][i] /\ i \in DOMAIN acks'[q]
  <2>1. pc[q] # "done"
    BY SMTT(30), <1>10 DEF EventsOK, Sends, Reserves, Submits
  <2> QED
    BY ZenonT(30), <1>6, <1>11, <2>1
<1>17. ReservedOK(q)'
  <2> SUFFICES ASSUME NEW i \in DOMAIN Items[q], holds(q, i)', strict(Key(q, i))
               PROVE  reservedBy(Key(q, i), q)
    BY DEF ReservedOK, strict, reservedBy, Key, store
  <2>1. holds(q, i)
    BY <1>16 DEF holds
  <2> QED
    BY <1>10, <2>1 DEF ReservedOK
<1>18. CommittedOK(q)'
  <2> SUFFICES ASSUME NEW e \in applied', e.r = q, strict(keyOfEvent(e))
               PROVE  stored(e) \/ answered(e)'
    BY DEF CommittedOK, stored, strict, keyOfEvent, Key, store
  <2>1. CASE e \in applied
    <3>1. answered(e) => answered(e)'
      BY <1>16 DEF answered, holds
    <3> QED
      BY <1>10, <2>1, <3>1 DEF CommittedOK
  <2>2. CASE e \in good
    <3>1. e \in F /\ e = ev(q, e.item) /\ ack[e].ok /\ ack[e].key = keyOfEvent(e) /\ ack[e].key # NoKey
      BY <1>3, <2>2 DEF strict, ev, Answers
    <3>2. e.item \in DOMAIN acks'[q] /\ acks'[q][e.item] = ack[e]
      BY SMTT(30), <1>3, <1>6, <3>1 DEF Events
    <3>3. pc[q] \in {"submit", "wait"} /\ \E j \in DOMAIN events[q] : events[q][j] = e.item
      BY <1>5, <3>1
    <3> QED
      BY <3>1, <3>2, <3>3 DEF answered, holds
  <2> QED
    BY <2>1, <2>2
<1>19. WaitOK(q)'
  <2>1. \A i : queued(q, i) => i \in DOMAIN acks'[q] \/ queued(q, i)'
    <3> SUFFICES ASSUME NEW i, NEW a \in DOMAIN queue, queue[a] = ev(q, i)
                 PROVE  i \in DOMAIN acks'[q] \/ \E b \in DOMAIN queue' : queue'[b] = ev(q, i)
      BY DEF queued, ev
    <3>1. CASE a <= n
      BY SMTT(30), <1>1, <1>2, <1>3, <1>6, <1>10, <3>1 DEF ev, Events
    <3>2. CASE a > n
      <4>1. a - n \in DOMAIN queue' /\ queue'[a - n] = queue[a]
        BY SMTT(30), <1>1, <1>4, <3>2
      <4> QED
        BY <4>1
    <3> QED
      BY SMTT(30), <1>1, <3>1, <3>2
  <2> QED
    BY <1>6, <1>10, <2>1 DEF WaitOK
<1> QED
  BY <1>12, <1>13, <1>14, <1>15, <1>17, <1>18, <1>19 DEF CallInv

\* The clock, and the life of the ledger, do not matter.
LEMMA QuietInv ==
  ASSUME IInv, UNCHANGED <<store, queue, pc, item, at, events, acks, result, applied, loose>>
  PROVE  IInv'
<1> SUFFICES ASSUME IState PROVE IState'
  BY DEF IInv
<1>1. Types' /\ StoreInv' /\ QueueDistinct'
  BY DEF IState, Types, StoreTypes, StoreInv, QueueDistinct, store, keyOfEvent, Key
<1>2. ASSUME NEW r \in Requests
      PROVE  CallInv(r)'
  <2>1. CallInv(r)
    BY DEF IState
  <2>2. EventsOK(r)' /\ QueueOK(r)' /\ AcksOK(r)' /\ ResultsOK(r)' /\ WaitOK(r)'
    BY ZenonT(30), <2>1 DEF CallInv, EventsOK, Sends, Reserves, Submits, key, Key, QueueOK, AcksOK, ResultsOK,
                            areResults, isResult, keyOfEvent, WaitOK, queued
  <2>3. ReservedOK(r)' /\ CommittedOK(r)'
    BY <2>1 DEF CallInv, ReservedOK, CommittedOK, holds, strict, reservedBy, stored, answered, keyOfEvent, Key, store
  <2> QED
    BY <2>2, <2>3 DEF CallInv
<1> QED
  BY <1>1, <1>2 DEF IState

\* A step of the loop.
LEMMA LoopInv ==
  ASSUME IInv, Loop
  PROVE  IInv'
<1> IState
  BY DEF IInv
<1>1. queue \in Seq(Events) /\ Len(queue) \in Nat /\ (queue # <<>> => Len(queue) \in 1 .. Len(queue))
  BY SMTT(30) DEF IState, Types
<1>2. ASSUME NEW n \in 1 .. Len(queue), complete(n, [e \in first(n) |-> closedAck]), applied' = applied, loopUnchanged
      PROVE  IInv'
  <2>1. PICK F : F = first(n)
    OBVIOUS
  <2>2. PICK ack : ack = [e \in F |-> closedAck]
    OBVIOUS
  <2>3. \A e \in F : ack[e].ok = FALSE /\ ack[e].key = NoKey /\ ack[e].x = Nobody
    BY <2>2 DEF closedAck
  <2>4. Answers(F, ack, {})
    BY <2>3 DEF Answers
  <2>5. complete(n, ack) /\ applied' = applied \cup {} /\ UNCHANGED <<store, pc, item, at, events, result, loose>>
    BY <1>2, <2>1, <2>2 DEF loopUnchanged
  <2> QED
    BY <2>1, <2>4, <2>5, CompleteInv
<1>3. ASSUME processBatch
      PROVE  IInv'
  <2>0. PICK n \in 1 .. Len(queue) : \E bad \in SUBSET first(n) :
          /\ complete(n, [e \in first(n) |-> [ok |-> e \notin bad, key |-> Key(e.r, e.item),
                                              x |-> IF e \in bad THEN Nobody ELSE e]])
          /\ applied' = applied \cup (first(n) \ bad)
    BY <1>3 DEF processBatch
  <2>1. PICK bad \in SUBSET first(n) :
          /\ complete(n, [e \in first(n) |-> [ok |-> e \notin bad, key |-> Key(e.r, e.item),
                                              x |-> IF e \in bad THEN Nobody ELSE e]])
          /\ applied' = applied \cup (first(n) \ bad)
    BY <2>0
  <2>2. PICK F : F = first(n)
    OBVIOUS
  <2>3. PICK ack : ack = [e \in F |-> [ok |-> e \notin bad, key |-> Key(e.r, e.item),
                                       x |-> IF e \in bad THEN Nobody ELSE e]]
    OBVIOUS
  <2>4. PICK good : good = F \ bad
    OBVIOUS
  <2>5. complete(n, ack) /\ applied' = applied \cup good /\ UNCHANGED <<store, pc, item, at, events, result, loose>>
    BY <1>3, <2>1, <2>2, <2>3, <2>4 DEF processBatch, loopUnchanged
  <2>6. ASSUME NEW e \in F
        PROVE  /\ ack[e].ok \in BOOLEAN /\ ack[e].key \in {NoKey, keyOfEvent(e)} /\ (ack[e].ok <=> e \in good)
               /\ ack[e].ok => ack[e].x = e /\ ack[e].key = keyOfEvent(e)
               /\ ~ack[e].ok => ack[e].x = Nobody
    <3>1. ack[e].key = keyOfEvent(e)
      BY <2>3 DEF keyOfEvent
    <3>2. CASE e \in bad
      BY <2>3, <2>4, <3>1, <3>2
    <3>3. CASE e \notin bad
      BY <2>3, <2>4, <3>1, <3>3
    <3> QED
      BY <3>2, <3>3
  <2>7. good \subseteq F /\ Answers(F, ack, good)
    BY <2>4, <2>6 DEF Answers
  <2> QED
    BY <2>2, <2>5, <2>7, CompleteInv
<1>4. ASSUME processBatchFail
      PROVE  IInv'
  BY <1>2, <1>4 DEF processBatchFail
<1>5. ASSUME abandonPending
      PROVE  IInv'
  <2>1. CASE queue # <<>>
    BY <1>1, <1>2, <1>5, <2>1 DEF abandonPending
  <2>2. CASE queue = <<>>
    BY <1>5, <2>2, QuietInv DEF abandonPending, loopUnchanged
  <2> QED
    BY <2>1, <2>2
<1> QED
  BY <1>3, <1>4, <1>5 DEF Loop

\* The empty state.
LEMMA InitInv == Init => IInv
<1> SUFFICES ASSUME Init
             PROVE  IInv
  OBVIOUS
<1> USE DEF Init
<1>1. Types
  BY SMTT(30) DEF Types, StoreTypes, States
<1>2. StoreInv /\ QueueDistinct
  BY SMTT(30) DEF StoreInv, QueueDistinct
<1>3. ASSUME NEW r \in Requests
      PROVE  CallInv(r)
  <2>1. EventsOK(r)
    BY SMTT(30), ItemsDomain DEF EventsOK, Sends, Reserves, Submits
  <2>2. QueueOK(r) /\ AcksOK(r) /\ ResultsOK(r)
    <3>1. DOMAIN queue = {} /\ DOMAIN acks[r] = {} /\ DOMAIN result[r] = {}
      BY SMTT(30)
    <3> HIDE DEF Init
    <3> QED
      BY <3>1 DEF QueueOK, AcksOK, ResultsOK, areResults
  <2>3. ReservedOK(r) /\ CommittedOK(r) /\ WaitOK(r)
    BY SMTT(30) DEF ReservedOK, CommittedOK, WaitOK, holds
  <2> QED
    BY <2>1, <2>2, <2>3 DEF CallInv
<1> QED
  BY <1>1, <1>2, <1>3 DEF IInv, IState

\* Every step preserves the invariant.
LEMMA NextInv == IInv /\ [Next]_vars => IInv'
<1> SUFFICES ASSUME IInv, [Next]_vars
             PROVE  IInv'
  OBVIOUS
<1>1. ASSUME NEW r \in Requests, Step(r)
      PROVE  IInv'
  BY <1>1, BeginKeylessInv, BeginDuplicateInv, CheckFoundInv, CheckMissedInv, AbortInv, ReserveInv,
     SubmitInv, SubmitFullInv, SubmitClosedInv, ReceiveAckInv, GiveUpInv, BatchDoneInv, materializeInv DEF Step
<1>2. CASE Close
  BY <1>2, QuietInv DEF Close, loopUnchanged
<1>3. CASE Tick
  BY <1>3, QuietInv DEF Tick, calls
<1>4. CASE UNCHANGED vars
  BY <1>4, QuietInv DEF vars, calls
<1> QED
  BY <1>1, <1>2, <1>3, <1>4, LoopInv DEF Next

-----------------------------------------------------------------------------
(* The theorems *)

\* IInv holds in every reachable state.
THEOREM Invariance == Spec => []IInv
  BY InitInv, NextInv, PTL DEF Spec

\* Two committed transfers with one strict key are one: a result in the store
\* is not a reservation, and the key of an item on its way is reserved by its
\* call.
LEMMA OneTransfer ==
  ASSUME IInv, NEW e \in applied, NEW f \in applied, keyOfEvent(e) = keyOfEvent(f), strict(keyOfEvent(e))
  PROVE  e = f
<1> IState
  BY DEF IInv
<1>1. e \in Events /\ f \in Events
  BY DEF IState, Types
<1>2. /\ e.r \in Requests /\ f.r \in Requests
      /\ e = [r |-> e.r, item |-> e.item] /\ f = [r |-> f.r, item |-> f.item]
  BY <1>1, EventRecord
<1>3. (stored(e) \/ answered(e)) /\ (stored(f) \/ answered(f))
  BY <1>2 DEF IState, CallInv, CommittedOK
<1>4. ASSUME NEW d \in {e, f}, answered(d)
      PROVE  reservedBy(keyOfEvent(d), d.r)
  BY <1>2, <1>4 DEF IState, StoreInv, CallInv, ReservedOK, answered, keyOfEvent
<1>5. CASE stored(e) /\ stored(f)
  BY <1>5 DEF stored
<1>6. CASE answered(e) /\ answered(f)
  <2>1. e.r = f.r
    BY <1>4, <1>6 DEF reservedBy
  <2>2. \E j, k \in DOMAIN events[e.r] : events[e.r][j] = e.item /\ events[e.r][k] = f.item
    BY <1>6, <2>1 DEF answered, holds
  <2>3. e.item = f.item
    BY SMTT(30), <1>2, <2>1, <2>2 DEF IState, CallInv, EventsOK, Sends, Reserves, Submits, keyOfEvent, strict
  <2> QED
    BY <1>2, <2>1, <2>3
<1>7. CASE stored(e) /\ answered(f)
  BY <1>4, <1>7 DEF stored, reservedBy
<1>8. CASE answered(e) /\ stored(f)
  BY <1>4, <1>8 DEF stored, reservedBy
<1> QED
  BY <1>3, <1>5, <1>6, <1>7, <1>8

\* The servers give items with one key text one key, except between the two
\* servers for texts of 32 bytes (keyOf, restKey).
LEMMA OneKey ==
  ASSUME IInv, NEW e \in applied, NEW f \in applied, asked(e) = asked(f), asked(e) # NoText,
         asked(e)[2] = 32 => Sent[e.r].rest = Sent[f.r].rest
  PROVE  keyOfEvent(e) = keyOfEvent(f) /\ keyOfEvent(e) # NoKey
<1> IState
  BY DEF IInv
<1> DEFINE byRest(d) == IF Sent[d.r].rest THEN hashed(asked(d)) ELSE keyOf(asked(d))
<1>1. ASSUME NEW d \in {e, f}
      PROVE  keyOfEvent(d) = byRest(d) /\ Sent[d.r].rest \in BOOLEAN /\ asked(d) \in Text
  <2>1. d.r \in Requests /\ d.item \in DOMAIN Items[d.r]
    BY EventRecord DEF IState, Types, StoreInv
  <2>2. /\ d.item \in DOMAIN Sent[d.r].texts /\ Sent[d.r].rest \in BOOLEAN
        /\ Sent[d.r].header \in Text /\ Sent[d.r].texts[d.item] \in Text
    BY SMTT(30), <2>1, SentAssumption DEF Items, ledgerKeys
  <2>3. keyOfEvent(d) = IF ~Sent[d.r].rest THEN grpcKey(Sent[d.r].header, Sent[d.r].texts[d.item])
                        ELSE IF d.r \in Unary THEN restKey(Sent[d.r].header, Sent[d.r].texts[d.item])
                        ELSE restBatchKey(Sent[d.r].texts[d.item])
    BY <2>1, <2>2 DEF keyOfEvent, Key, Items, ledgerKeys
  <2>4. CASE ~Sent[d.r].rest
    BY <2>2, <2>3, <2>4 DEF asked, grpcKey
  <2>5. CASE Sent[d.r].rest /\ d.r \in Unary
    BY <2>2, <2>3, <2>5 DEF asked, restKey
  <2>6. CASE Sent[d.r].rest /\ d.r \notin Unary
    BY <2>2, <2>3, <2>6 DEF asked, restBatchKey
  <2> QED
    BY <2>2, <2>4, <2>5, <2>6
<1>2. NoKey # asked(e) /\ NoKey # Sum256(asked(e))
  <2>1. asked(e) = <<asked(e)[1], asked(e)[2]>>
    <3>1. PICK t : t = asked(e)
      OBVIOUS
    <3>2. t \in STRING \X Nat
      BY <1>1, <3>1 DEF Text
    <3>3. t = <<t[1], t[2]>>
      BY SMTT(30), <3>2
    <3> QED
      BY <3>1, <3>3
  <2>2. Len(NoKey) = 1 /\ Len(asked(e)) = 2 /\ Len(Sum256(asked(e))) = 2
    BY <2>1 DEF NoKey, Sum256
  <2> QED
    BY SMTT(30), <2>2
<1> QED
  BY SMTT(30), <1>1, <1>2 DEF hashed, keyOf

\* At most one transfer per key text, through both servers (KeyOnce).
THEOREM Idempotence == Spec => []KeyOnce
<1>1. IInv => KeyOnce
  BY OneKey, OneTransfer DEF KeyOnce, strict, keyOfEvent
<1> QED
  BY <1>1, Invariance, PTL

\* Calls with one key return the same committed transfer or an error
\* (SameAnswer).
THEOREM OneAnswer == Spec => []SameAnswer
<1>1. ASSUME IInv
      PROVE  SameAnswer
  <2> SUFFICES ASSUME NEW r \in Requests, NEW q \in Requests, NEW i \in DOMAIN result[r], NEW j \in DOMAIN result[q]
               PROVE  /\ result[r][i] \in applied \cup {Nobody}
                      /\ /\ Key(r, i) = Key(q, j) /\ Key(r, i) \notin loose \cup {NoKey}
                         /\ result[r][i] # Nobody /\ result[q][j] # Nobody
                         => result[r][i] = result[q][j]
    BY DEF SameAnswer
  <2>1. isResult(r, i, result[r][i]) /\ isResult(q, j, result[q][j])
    BY <1>1 DEF IInv, IState, CallInv, ResultsOK, areResults
  <2>2. result[r][i] \in applied \cup {Nobody}
    BY <2>1 DEF isResult
  <2>3. ASSUME Key(r, i) = Key(q, j), Key(r, i) \notin loose \cup {NoKey}, result[r][i] # Nobody, result[q][j] # Nobody
        PROVE  result[r][i] = result[q][j]
    BY <1>1, <2>1, <2>3, OneTransfer DEF isResult, strict
  <2> QED
    BY <2>2, <2>3
<1> QED
  BY <1>1, Invariance, PTL

\* An event a call waits for is answered or in the ring (NothingLost).
THEOREM NothingDropped == Spec => []NothingLost
<1>1. IInv => NothingLost
  BY DEF IInv, IState, CallInv, WaitOK, NothingLost, unanswered
<1> QED
  BY <1>1, Invariance, PTL

-----------------------------------------------------------------------------
(* Reservations end with their call *)

\* An item of r with key k is not settled, or was answered without its
\* transfer.
unsettled(r, k) ==
  \E j \in DOMAIN events[r] : /\ Key(r, events[r][j]) = k
                              /\ pc[r] = "settle" /\ j < item[r] => acks[r][events[r][j]] = closedAck

\* What a call has reserved is the key of such an item; an answer has the key of
\* its event, or is that of a batch that was not written.
OwnedOK(r) ==
  /\ pc[r] # "done" => \A k : reservedBy(k, r) => unsettled(r, k)
  /\ \A i \in DOMAIN acks[r] : acks[r][i] = closedAck \/ acks[r][i].key = Key(r, i)
OwnedInv == \A r \in Requests : OwnedOK(r)

\* Reservations are kept or dropped, those of keys in K are dropped.
Drops(K) == \A k, q : reservedBy(k, q)' => reservedBy(k, q) /\ k \notin K

\* What KeysSettled says of r.
Settles(r) ==
  pc[r] # "done" /\ pc'[r] = "done" =>
    \A k : reservedBy(k, r)' => \E i \in DOMAIN acks[r] : Key(r, i) = k /\ acks[r][i] = closedAck

\* The methods of the store that do not reserve.
LEMMA StoreDrops ==
  /\ UNCHANGED store => Drops({})
  /\ \A K : Rollback(K) => Drops(K)
  /\ \A k, r, x : Commit(k, r, x) => Drops({k})
<1>1. UNCHANGED store => Drops({})
  BY DEF Drops, reservedBy, store
<1>2. ASSUME NEW K, Rollback(K)
      PROVE  Drops(K)
  <2>1. /\ \A m \in DOMAIN entries' : m \in DOMAIN entries /\ entries'[m] = entries[m]
        /\ \A m \in DOMAIN entries' : ~(m \in K /\ entries[m].pending)
    <3> DEFINE L == {k \in K \cap DOMAIN entries : entries[k].pending}
    <3>1. entries' = removed(theStore, L).e /\ theStore.e = entries
      BY <1>2 DEF Rollback, theStore
    <3>2. DOMAIN entries' = DOMAIN entries \ L /\ \A m \in DOMAIN entries \ L : entries'[m] = entries[m]
      BY SMTT(30), <3>1, RemovedEntries
    <3> QED
      BY <3>2
  <2> QED
    BY <2>1 DEF Drops, reservedBy
<1>3. ASSUME NEW k, NEW r, NEW x, Commit(k, r, x)
      PROVE  Drops({k})
  <2>1. \A m \in DOMAIN entries' :
          \/ m = k /\ entries'[m] = entry(FALSE, now, r, x)
          \/ m # k /\ m \in DOMAIN entries /\ entries'[m] = entries[m]
    BY <1>3, CommitStore
  <2> QED
    BY SMTT(30), <2>1 DEF Drops, reservedBy, entry
<1> QED
  BY <1>1, <1>2, <1>3

\* A call that does nothing keeps what holds for it.
LEMMA OtherOwned ==
  ASSUME NEW q \in Requests, OwnedOK(q), \A k : reservedBy(k, q)' => reservedBy(k, q),
         pc'[q] = pc[q], item'[q] = item[q], events'[q] = events[q], acks'[q] = acks[q]
  PROVE  OwnedOK(q)' /\ Settles(q)
<1>1. \A k : unsettled(q, k)' <=> unsettled(q, k)
  BY DEF unsettled
<1>2. OwnedOK(q)'
  BY <1>1 DEF OwnedOK
<1> QED
  BY <1>2 DEF Settles

\* A step of r, seen by all.
LEMMA OwnedStep ==
  ASSUME OwnedInv, NEW r \in Requests, Others(r),
         \A k : \A q \in Requests \ {r} : reservedBy(k, q)' => reservedBy(k, q),
         OwnedOK(r)', Settles(r)
  PROVE  OwnedInv' /\ \A q \in Requests : Settles(q)
<1> SUFFICES ASSUME NEW q \in Requests
             PROVE  OwnedOK(q)' /\ Settles(q)
  BY DEF OwnedInv
<1>1. CASE q = r
  BY <1>1
<1>2. CASE q # r
  <2>1. /\ OwnedOK(q) /\ \A k : reservedBy(k, q)' => reservedBy(k, q)
        /\ pc'[q] = pc[q] /\ item'[q] = item[q] /\ events'[q] = events[q] /\ acks'[q] = acks[q]
    BY <1>2 DEF OwnedInv, Others
  <2> QED
    BY <2>1, OtherOwned
<1> QED
  BY <1>1, <1>2

\* The call returns: it has no reservation left but those of answers without a
\* transfer.
LEMMA ReturnOwned ==
  ASSUME Types, OwnedInv, NEW r \in Requests, NEW res, return(r, res), NEW K, Drops(K),
         \A k : reservedBy(k, r) /\ k \notin K => \E i \in DOMAIN acks[r] : Key(r, i) = k /\ acks[r][i] = closedAck
  PROVE  OwnedInv' /\ \A q \in Requests : Settles(q)
<1>1. Others(r) /\ pc'[r] = "done" /\ acks'[r] = <<>>
  BY DEF Types, Others, return
<1>2. OwnedOK(r)'
  BY SMTT(30), <1>1 DEF OwnedOK
<1>3. Settles(r)
  BY DEF Settles, Drops
<1>4. \A k : \A q \in Requests \ {r} : reservedBy(k, q)' => reservedBy(k, q)
  BY DEF Drops
<1> QED
  BY <1>1, <1>2, <1>3, <1>4, OwnedStep

\* Phase 1 goes on with the next item: everything reserved is sent.
LEMMA ReservingOwned ==
  ASSUME Types, OwnedInv, NEW r \in Requests, pc[r] \in {"begin", "lock"}, NEW ev, NEW res, nextItem(r, ev, res),
         NEW p, p = item[r], ev = events[r] \/ ev = Append(events[r], p),
         \A k : \A q \in Requests : reservedBy(k, q)' =>
           reservedBy(k, q) \/ (q = r /\ k = Key(r, p) /\ ev = Append(events[r], p))
  PROVE  OwnedInv' /\ \A q \in Requests : Settles(q)
<1>1. /\ Others(r) /\ pc'[r] \in {"begin", "submit", "done"} /\ events'[r] = ev /\ acks' = acks
      /\ pc'[r] = "done" => ev = <<>>
  BY DEF Types, Others, nextItem
<1>2. events[r] \in Seq(Nat) /\ p \in Nat
  BY DEF Types
<1>3. /\ \A j \in DOMAIN events[r] : j \in DOMAIN ev /\ ev[j] = events[r][j]
      /\ ev = Append(events[r], p) => \E j \in DOMAIN ev : ev[j] = p
  <2>1. CASE ev = events[r]
    <3>1. ev # Append(events[r], p)
      BY SMTT(30), <1>2, <2>1
    <3> QED
      BY <2>1, <3>1
  <2>2. CASE ev = Append(events[r], p)
    <3>1. DOMAIN ev = 1 .. Len(events[r]) + 1 /\ ev[Len(events[r]) + 1] = p /\ Len(events[r]) \in Nat
      BY SMTT(30), <1>2, <2>2
    <3>2. \A j \in DOMAIN events[r] : j \in DOMAIN ev /\ ev[j] = events[r][j]
      BY SMTT(30), <1>2, <2>2
    <3> QED
      BY SMTT(30), <3>1, <3>2
  <2> QED
    BY <2>1, <2>2
<1>4. ASSUME NEW k, reservedBy(k, r)'
      PROVE  \E j \in DOMAIN ev : Key(r, ev[j]) = k
  <2>1. CASE reservedBy(k, r)
    <3>1. PICK j \in DOMAIN events[r] : Key(r, events[r][j]) = k
      BY <2>1 DEF OwnedInv, OwnedOK, unsettled
    <3> QED
      BY <1>3, <3>1
  <2>2. CASE k = Key(r, p) /\ ev = Append(events[r], p)
    BY <1>3, <2>2
  <2> QED
    BY <1>4, <2>1, <2>2
<1>5. pc'[r] = "done" => \A k : ~reservedBy(k, r)'
  BY SMTT(30), <1>1, <1>4
<1>6. OwnedOK(r)'
  <2>1. \A k : reservedBy(k, r)' => unsettled(r, k)'
    BY <1>1, <1>4 DEF unsettled, Key
  <2>2. \A i \in DOMAIN acks[r] : acks[r][i] = closedAck \/ acks[r][i].key = Key(r, i)
    BY DEF OwnedInv, OwnedOK
  <2> QED
    BY <1>1, <2>1, <2>2 DEF OwnedOK, closedAck, Key
<1>7. Settles(r)
  BY <1>5 DEF Settles
<1> QED
  BY <1>1, <1>6, <1>7, OwnedStep


\* A step that only moves the control of r, not beyond settling.
LEMMA MovesOwned ==
  ASSUME Types, OwnedInv, NEW r \in Requests, NEW p \in States \ {"done"}, pc[r] # "done",
         pc' = [pc EXCEPT ![r] = p], UNCHANGED <<events, acks>>,
         NEW n \in Nat, item' = [item EXCEPT ![r] = n], p = "settle" => n = 1, pc[r] # "settle",
         \A k : \A q \in Requests : reservedBy(k, q)' => reservedBy(k, q)
  PROVE  OwnedInv' /\ \A q \in Requests : Settles(q)
<1>1. /\ pc'[r] = p /\ item'[r] = n
      /\ \A q \in Requests \ {r} : pc'[q] = pc[q] /\ item'[q] = item[q]
  BY DEF Types
<1>2. ASSUME NEW q \in Requests
      PROVE  OwnedOK(q)' /\ Settles(q)
  <2>1. OwnedOK(q) /\ \A k : reservedBy(k, q)' => reservedBy(k, q)
    BY DEF OwnedInv
  <2>2. CASE q = r
    <3>1. \A k : unsettled(r, k) => unsettled(r, k)'
      <4>1. DOMAIN events[r] \subseteq Nat \ {0}
        BY SMTT(30) DEF Types
      <4> QED
        BY SMTT(30), <1>1, <4>1 DEF unsettled, Key
    <3>2. OwnedOK(r)'
      BY <1>1, <2>1, <2>2, <3>1 DEF OwnedOK, closedAck, Key
    <3> QED
      BY <1>1, <2>2, <3>2 DEF Settles
  <2>3. CASE q # r
    BY <1>1, <2>1, <2>3, OtherOwned
  <2> QED
    BY <2>2, <2>3
<1> QED
  BY <1>2 DEF OwnedInv

\* Phase 1.
LEMMA BeginOwned ==
  ASSUME Types, OwnedInv, NEW r \in Requests,
         BeginKeyless(r) \/ BeginDuplicate(r) \/ CheckFound(r) \/ Reserve(r)
  PROVE  OwnedInv' /\ \A q \in Requests : Settles(q)
<1>1. PICK p : p = item[r]
  OBVIOUS
<1>2. key(r) = Key(r, p)
  BY <1>1 DEF key
<1>3. ASSUME UNCHANGED store
      PROVE  \A k : \A q \in Requests : reservedBy(k, q)' => reservedBy(k, q)
  BY <1>3, StoreDrops DEF Drops
<1>4. CASE BeginKeyless(r)
  <2>1. pc[r] = "begin" /\ UNCHANGED store /\ nextItem(r, Append(events[r], p), result[r])
    BY <1>1, <1>4 DEF BeginKeyless, send
  <2> QED
    BY <1>1, <1>3, <2>1, ReservingOwned
<1>5. CASE BeginDuplicate(r) \/ CheckFound(r)
  <2>1. pc[r] = "begin" /\ UNCHANGED store /\ \E res : nextItem(r, events[r], res)
    BY <1>5 DEF BeginDuplicate, CheckFound, reserving, answer
  <2> QED
    BY <1>1, <1>3, <2>1, ReservingOwned
<1>6. CASE Reserve(r)
  <2>1. pc[r] = "lock"
    BY <1>6 DEF Reserve
  <2>2. \A m \in DOMAIN entries' : (m \in DOMAIN entries /\ entries'[m] = entries[m])
                                     \/ (m = key(r) /\ entries'[m] = entry(TRUE, at[r], r, Nobody))
    BY <1>6, ReserveStore
  <2>3. entry(TRUE, at[r], r, Nobody).owner = r
    BY DEF entry
  <2>4. \A k : \A q \in Requests : reservedBy(k, q)' => reservedBy(k, q) \/ (q = r /\ k = Key(r, p))
    BY <1>2, <2>2, <2>3 DEF reservedBy
  <2>5. ASSUME \A m \in DOMAIN entries' : m \in DOMAIN entries /\ entries'[m] = entries[m]
        PROVE  \A k : \A q \in Requests : reservedBy(k, q)' => reservedBy(k, q)
    BY <2>5 DEF reservedBy
  <2>6. CASE /\ pc' = [pc EXCEPT ![r] = "begin"] /\ UNCHANGED <<item, events, acks, result>>
             /\ \A k : \A q \in Requests : reservedBy(k, q)' => reservedBy(k, q)
    <3>1. item' = [item EXCEPT ![r] = p] /\ p \in Nat
      BY <1>1, <2>6 DEF Types
    <3>2. PICK b \in States \ {"done"} : b = "begin"
      BY DEF States
    <3>3. pc' = [pc EXCEPT ![r] = b] /\ UNCHANGED <<events, acks>> /\ b # "settle" /\ pc[r] # "done" /\ pc[r] # "settle"
      BY <2>1, <2>6, <3>2
    <3> QED
      BY <2>6, <3>1, <3>3, MovesOwned
  <2>7. CASE /\ \E res : nextItem(r, events[r], res)
             /\ \A k : \A q \in Requests : reservedBy(k, q)' => reservedBy(k, q)
    BY <1>1, <2>1, <2>7, ReservingOwned
  <2>8. CASE send(r)
    <3>1. nextItem(r, Append(events[r], p), result[r])
      BY <1>1, <2>8 DEF send
    <3> QED
      BY <1>1, <2>1, <2>4, <3>1, ReservingOwned
  <2>9. \/ /\ pc' = [pc EXCEPT ![r] = "begin"] /\ UNCHANGED <<item, events, acks, result>>
           /\ \A m \in DOMAIN entries' : m \in DOMAIN entries /\ entries'[m] = entries[m]
        \/ /\ \E res : nextItem(r, events[r], res)
           /\ \A m \in DOMAIN entries' : m \in DOMAIN entries /\ entries'[m] = entries[m]
        \/ send(r)
    BY <1>6, ReserveStore DEF answer
  <2> QED
    BY <2>5, <2>6, <2>7, <2>8, <2>9
<1> QED
  BY <1>4, <1>5, <1>6


\* Looking up a key, submitting and the end of the wait move the control only.
LEMMA QuietOwned ==
  ASSUME IInv, OwnedInv, NEW r \in Requests, CheckMissed(r) \/ Submit(r) \/ BatchDone(r)
  PROVE  OwnedInv' /\ \A q \in Requests : Settles(q)
<1>1. IState
  BY DEF IInv
<1>2. Types /\ CallInv(r)
  BY <1>1 DEF IState
<1>3. UNCHANGED <<events, acks>> /\ UNCHANGED store
  BY DEF CheckMissed, Submit, BatchDone
<1>4. \A k : \A q \in Requests : reservedBy(k, q)' => reservedBy(k, q)
  BY <1>3, StoreDrops DEF Drops
<1>5. PICK n \in Nat : n = item[r]
  BY <1>2 DEF Types
<1>6. \E p \in States \ {"done"} : \E m \in Nat :
        /\ pc' = [pc EXCEPT ![r] = p] /\ item' = [item EXCEPT ![r] = m]
        /\ (p = "settle" => m = 1) /\ pc[r] # "done" /\ pc[r] # "settle"
  <2>1. CASE CheckMissed(r)
    <3>1. pc' = [pc EXCEPT ![r] = "lock"] /\ item' = item /\ pc[r] = "begin"
      BY <2>1 DEF CheckMissed, reserving
    <3>2. item' = [item EXCEPT ![r] = n]
      BY <1>2, <1>5, <3>1 DEF Types
    <3> QED
      BY <3>1, <3>2 DEF States
  <2>2. CASE BatchDone(r)
    <3>1. pc' = [pc EXCEPT ![r] = "settle"] /\ item' = item /\ pc[r] = "wait"
      BY <2>2 DEF BatchDone
    <3>2. item' = [item EXCEPT ![r] = n]
      BY <1>2, <1>5, <3>1 DEF Types
    <3>3. n = 1
      BY <1>2, <1>5, <3>1 DEF CallInv, EventsOK, Submits
    <3> QED
      BY <3>1, <3>2, <3>3 DEF States
  <2>3. CASE Submit(r)
    <3>1. /\ pc[r] = "submit"
          /\ \/ item' = [item EXCEPT ![r] = n + 1] /\ pc' = pc
             \/ pc' = [pc EXCEPT ![r] = "wait"] /\ item' = [item EXCEPT ![r] = 1]
      BY <1>2, <1>5, <2>3 DEF Submit, Types
    <3>2. pc' = pc => pc' = [pc EXCEPT ![r] = "submit"]
      BY <1>2, <3>1 DEF Types
    <3> QED
      BY SMTT(30), <3>1, <3>2 DEF States
  <2> QED
    BY <2>1, <2>2, <2>3
<1> QED
  BY <1>2, <1>3, <1>4, <1>6, MovesOwned

\* An ended context gives back the keys of all items.
LEMMA AbortOwned ==
  ASSUME IInv, OwnedInv, NEW r \in Requests, Abort(r)
  PROVE  OwnedInv' /\ \A q \in Requests : Settles(q)
<1>1. PICK K : K = {Key(r, events[r][i]) : i \in DOMAIN events[r]}
  OBVIOUS
<1>2. PICK res : res = <<>>
  OBVIOUS
<1>3. Rollback(K) /\ return(r, res) /\ pc[r] = "begin"
  BY <1>1, <1>2 DEF Abort, reserving
<1>4. Drops(K)
  BY <1>3, StoreDrops
<1>5. \A k : reservedBy(k, r) => k \in K
  BY <1>1, <1>3 DEF OwnedInv, OwnedOK, unsettled
<1>6. Types
  BY DEF IInv, IState
<1> QED
  BY <1>3, <1>4, <1>5, <1>6, ReturnOwned

\* CreateTransfer has one key, and settles it however it ends.
LEMMA UnaryOwned ==
  ASSUME IInv, OwnedInv, NEW r \in Requests, SubmitFull(r) \/ GiveUp(r) \/ ReceiveAck(r)
  PROVE  OwnedInv' /\ \A q \in Requests : Settles(q)
<1>1. IState
  BY DEF IInv
<1>2. Types /\ StoreInv /\ CallInv(r)
  BY <1>1 DEF IState
<1>3. r \in Unary /\ pc[r] \in {"submit", "wait"}
  BY DEF SubmitFull, GiveUp, ReceiveAck
<1>4. events[r] = <<1>> /\ item[r] \in DOMAIN events[r]
  BY <1>2, <1>3 DEF CallInv, EventsOK, Submits
<1>5. PICK k0 : k0 = Key(r, 1)
  OBVIOUS
<1>6. key(r) = k0
  BY SMTT(30), <1>4, <1>5 DEF key
<1>7. \A k : reservedBy(k, r) => k = k0 /\ k # NoKey
  <2> SUFFICES ASSUME NEW k, reservedBy(k, r)
               PROVE  k = k0 /\ k # NoKey
    OBVIOUS
  <2>1. k # NoKey
    BY <1>2 DEF StoreInv, reservedBy
  <2>2. PICK j \in DOMAIN events[r] : Key(r, events[r][j]) = k
    BY <1>3 DEF OwnedInv, OwnedOK, unsettled
  <2> QED
    BY SMTT(30), <1>4, <1>5, <2>1, <2>2
<1>8. \E K : Drops(K) /\ (k0 # NoKey => k0 \in K)
  <2>1. CASE SubmitFull(r) \/ GiveUp(r)
    <3>1. Rollback({k0})
      BY <1>6, <2>1 DEF SubmitFull, GiveUp
    <3> QED
      BY <3>1, StoreDrops
  <2>2. CASE ReceiveAck(r)
    <3>1. \/ k0 = NoKey /\ UNCHANGED store
          \/ \E x : Commit(k0, r, x)
          \/ Rollback({k0})
      BY <1>6, <2>2 DEF ReceiveAck, store
    <3> QED
      BY <3>1, StoreDrops
  <2> QED
    BY <2>1, <2>2
<1>9. \E res : return(r, res)
  BY DEF SubmitFull, GiveUp, ReceiveAck
<1> QED
  BY SMTT(30), <1>2, <1>7, <1>8, <1>9, ReturnOwned


\* A closing ledger: what was not queued is answered, and given back, at once.
LEMMA SubmitClosedOwned ==
  ASSUME IInv, OwnedInv, NEW r \in Requests, SubmitClosed(r)
  PROVE  OwnedInv' /\ \A q \in Requests : Settles(q)
<1>1. Types /\ OwnedOK(r)
  BY DEF IInv, IState, OwnedInv
<1>2. PICK tail : acks' = [acks EXCEPT ![r] = [i \in DOMAIN @ \cup tail |-> IF i \in tail THEN closedAck ELSE @[i]]]
  BY DEF SubmitClosed
<1>3. /\ pc[r] = "submit" /\ pc' = [pc EXCEPT ![r] = "wait"] /\ item' = [item EXCEPT ![r] = 1]
      /\ UNCHANGED <<events, result>>
  BY DEF SubmitClosed
<1>4. \A k, q : reservedBy(k, q)' => reservedBy(k, q)
  <2>1. PICK K : Rollback(K)
    BY DEF SubmitClosed
  <2> QED
    BY <2>1, StoreDrops DEF Drops
<1>5. /\ Others(r) /\ pc'[r] = "wait"
      /\ acks'[r] = [i \in DOMAIN acks[r] \cup tail |-> IF i \in tail THEN closedAck ELSE acks[r][i]]
  BY <1>1, <1>2, <1>3 DEF Types, Others
<1>6. OwnedOK(r)'
  <2>1. \A k : unsettled(r, k) => unsettled(r, k)'
    BY <1>3, <1>5 DEF unsettled, Key
  <2>2. \A i \in DOMAIN acks'[r] : acks'[r][i] = closedAck \/ acks'[r][i].key = Key(r, i)
    BY <1>1, <1>5 DEF OwnedOK
  <2> QED
    BY <1>1, <1>3, <1>4, <2>1, <2>2 DEF OwnedOK, closedAck, Key
<1>7. Settles(r)
  BY <1>5 DEF Settles
<1> QED
  BY <1>4, <1>5, <1>6, <1>7, OwnedStep

\* materialize settles one item after the other.
LEMMA materializeOwned ==
  ASSUME IInv, OwnedInv, NEW r \in Requests, materialize(r)
  PROVE  OwnedInv' /\ \A q \in Requests : Settles(q)
<1>1. Types /\ StoreInv /\ CallInv(r) /\ OwnedOK(r)
  BY DEF IInv, IState, OwnedInv
<1>2. PICK n \in Nat : n = item[r]
  BY <1>1 DEF Types
<1>3. PICK i : i = events[r][n]
  OBVIOUS
<1>4. PICK a : a = acks[r][i]
  OBVIOUS
<1>5. /\ pc[r] = "settle" /\ n \in DOMAIN events[r] /\ \A j \in DOMAIN events[r] : events[r][j] \in DOMAIN acks[r]
      /\ i \in DOMAIN acks[r]
  BY <1>1, <1>2, <1>3 DEF materialize, CallInv, EventsOK, Submits
<1>6. a = closedAck \/ a.key = Key(r, i)
  BY <1>1, <1>4, <1>5 DEF OwnedOK
<1>7. \/ a.key = NoKey /\ UNCHANGED store
      \/ \E x : Commit(a.key, r, x)
      \/ Rollback({a.key})
  BY <1>2, <1>3, <1>4 DEF materialize
<1>8. PICK K : Drops(K) /\ (a.key # NoKey => a.key \in K)
  BY <1>7, StoreDrops
<1>9. ASSUME NEW k, reservedBy(k, r), k \notin K
      PROVE  \E j \in DOMAIN events[r] : /\ Key(r, events[r][j]) = k
                                         /\ j <= n => acks[r][events[r][j]] = closedAck
  <2>1. PICK j \in DOMAIN events[r] : /\ Key(r, events[r][j]) = k
                                      /\ j < n => acks[r][events[r][j]] = closedAck
    BY <1>1, <1>2, <1>5, <1>9 DEF OwnedOK, unsettled
  <2>2. k # NoKey
    BY <1>1, <1>9 DEF StoreInv, reservedBy
  <2>3. j = n => a = closedAck
    BY <1>3, <1>6, <1>8, <1>9, <2>1, <2>2
  <2>4. j \in Nat
    BY SMTT(30), <1>1 DEF Types
  <2>5. j <= n => j < n \/ j = n
    BY SMTT(30), <2>4
  <2> QED
    BY <1>3, <1>4, <2>1, <2>3, <2>5
<1>10. CASE n < Len(events[r])
  <2>1. item' = [item EXCEPT ![r] = n + 1] /\ UNCHANGED <<pc, at, events, acks>>
        /\ \E x : result' = [result EXCEPT ![r] = x]
    BY <1>1, <1>2, <1>10 DEF materialize, Types
  <2>2. Others(r) /\ pc'[r] = "settle" /\ item'[r] = n + 1
    BY <1>1, <1>5, <2>1 DEF Others, Types
  <2>3. ASSUME NEW k, reservedBy(k, r)'
        PROVE  unsettled(r, k)'
    <3>1. PICK j \in DOMAIN events[r] : /\ Key(r, events[r][j]) = k
                                        /\ j <= n => acks[r][events[r][j]] = closedAck
      BY <1>8, <1>9, <2>3 DEF Drops
    <3>2. j \in Nat
      BY SMTT(30), <1>1 DEF Types
    <3>3. j < n + 1 => j <= n
      BY SMTT(30), <3>2
    <3> QED
      BY <2>1, <2>2, <3>1, <3>3 DEF unsettled, Key, closedAck
  <2>4. OwnedOK(r)'
    BY <1>1, <2>1, <2>3 DEF OwnedOK, Key, closedAck
  <2>5. Settles(r)
    BY <2>2 DEF Settles
  <2>6. \A k : \A q \in Requests \ {r} : reservedBy(k, q)' => reservedBy(k, q)
    BY <1>8 DEF Drops
  <2> QED
    BY <2>2, <2>4, <2>5, <2>6, OwnedStep
<1>11. CASE ~(n < Len(events[r]))
  <2>1. \E res : return(r, res)
    BY <1>2, <1>11 DEF materialize
  <2>2. ASSUME NEW k, reservedBy(k, r), k \notin K
        PROVE  \E m \in DOMAIN acks[r] : Key(r, m) = k /\ acks[r][m] = closedAck
    <3>1. PICK j \in DOMAIN events[r] : /\ Key(r, events[r][j]) = k
                                        /\ j <= n => acks[r][events[r][j]] = closedAck
      BY <1>9, <2>2
    <3>2. j <= n
      BY SMTT(30), <1>1, <1>11 DEF Types
    <3> QED
      BY <1>5, <3>1, <3>2
  <2> QED
    BY <1>1, <1>8, <2>1, <2>2, ReturnOwned
<1> QED
  BY <1>10, <1>11

\* The answers of a batch have the keys of their events, or are those of a batch
\* that was not written; none is for a call that settles.
LEMMA CompleteOwned ==
  ASSUME IInv, OwnedInv, NEW n \in 1 .. Len(queue), NEW ack, complete(n, ack),
         \A e \in first(n) : ack[e] = closedAck \/ ack[e].key = Key(e.r, e.item),
         UNCHANGED <<store, pc, item, events>>
  PROVE  OwnedInv' /\ \A q \in Requests : Settles(q)
<1>1. PICK F : F = first(n)
  OBVIOUS
<1>2. acks' = [r \in Requests |-> [i \in DOMAIN acks[r] \cup {e.item : e \in {d \in F : d.r = r}} |->
                   IF [r |-> r, item |-> i] \in F THEN ack[[r |-> r, item |-> i]] ELSE acks[r][i]]]
  BY <1>1 DEF complete
<1>3. ASSUME NEW q \in Requests
      PROVE  OwnedOK(q)' /\ Settles(q)
  <2>1. OwnedOK(q) /\ QueueOK(q) /\ EventsOK(q) /\ Types
    BY DEF OwnedInv, IInv, IState, CallInv
  <2>2. \A i \in DOMAIN acks'[q] :
          /\ [r |-> q, item |-> i] \in F => acks'[q][i] = ack[[r |-> q, item |-> i]]
          /\ [r |-> q, item |-> i] \notin F => acks'[q][i] = acks[q][i]
    BY <1>2
  <2>3. \A e \in F : e \in Events
    BY SMTT(30), <1>1, <2>1 DEF first, Types
  <2>4. \A i \in DOMAIN acks'[q] : [r |-> q, item |-> i] \notin F => i \in DOMAIN acks[q]
    <3>1. \A e \in F : e.r = q => e = [r |-> q, item |-> e.item]
      BY SMTT(30), <2>3 DEF Events
    <3>2. DOMAIN acks'[q] = DOMAIN acks[q] \cup {e.item : e \in {d \in F : d.r = q}}
      BY <1>2
    <3> QED
      BY <3>1, <3>2
  <2>5. ASSUME NEW i \in DOMAIN acks'[q]
        PROVE  acks'[q][i] = closedAck \/ acks'[q][i].key = Key(q, i)
    <3>1. CASE [r |-> q, item |-> i] \in F
      <4>1. PICK e : e = [r |-> q, item |-> i]
        OBVIOUS
      <4>2. e.r = q /\ e.item = i /\ e \in first(n)
        BY <1>1, <3>1, <4>1
      <4>3. ack[e] = closedAck \/ ack[e].key = Key(q, i)
        BY <4>2
      <4>4. acks'[q][i] = ack[e]
        BY <2>2, <2>5, <3>1, <4>1
      <4> QED
        BY <4>3, <4>4
    <3>2. CASE [r |-> q, item |-> i] \notin F
      BY <2>1, <2>2, <2>4, <2>5, <3>2 DEF OwnedOK
    <3> QED
      BY <3>1, <3>2
  <2>6. pc[q] = "settle" => \A j \in DOMAIN events[q] : acks'[q][events[q][j]] = acks[q][events[q][j]]
    <3> SUFFICES ASSUME pc[q] = "settle", NEW j \in DOMAIN events[q]
                 PROVE  acks'[q][events[q][j]] = acks[q][events[q][j]]
      OBVIOUS
    <3>1. \A a \in DOMAIN queue : queue[a].r # q
      BY <2>1 DEF QueueOK
    <3>2. \A e \in F : e.r # q
      BY SMTT(30), <1>1, <2>1, <3>1 DEF first, Types
    <3>3. PICK i : i = events[q][j]
      OBVIOUS
    <3>4. [r |-> q, item |-> i] \notin F
      <4>1. PICK e : e = [r |-> q, item |-> i]
        OBVIOUS
      <4> QED
        BY <3>2, <4>1
    <3>5. i \in DOMAIN acks[q]
      BY <2>1, <3>3 DEF EventsOK, Submits
    <3>6. i \in DOMAIN acks'[q]
      BY <1>2, <3>5
    <3> QED
      BY <2>2, <3>3, <3>4, <3>6
  <2>7. \A k : unsettled(q, k) => unsettled(q, k)'
    BY <2>6 DEF unsettled, Key, closedAck
  <2>8. \A k : reservedBy(k, q)' => reservedBy(k, q)
    BY StoreDrops DEF Drops
  <2>9. OwnedOK(q)'
    BY <2>1, <2>5, <2>7, <2>8 DEF OwnedOK, closedAck, Key
  <2> QED
    BY <2>9 DEF Settles
<1> QED
  BY <1>3 DEF OwnedInv

\* Every step keeps OwnedInv and settles what KeysSettled names.
LEMMA NextOwned ==
  ASSUME IInv, OwnedInv, [Next]_vars
  PROVE  OwnedInv' /\ \A q \in Requests : Settles(q)
<1>1. Types
  BY DEF IInv, IState
<1>2. ASSUME NEW r \in Requests, Step(r)
      PROVE  OwnedInv' /\ \A q \in Requests : Settles(q)
  BY <1>1, <1>2, BeginOwned, QuietOwned, AbortOwned, UnaryOwned, SubmitClosedOwned, materializeOwned DEF Step
<1>3. ASSUME UNCHANGED <<store, pc, item, events, acks>>
      PROVE  OwnedInv' /\ \A q \in Requests : Settles(q)
  <2>1. \A k, q : reservedBy(k, q)' => reservedBy(k, q)
    BY <1>3, StoreDrops DEF Drops
  <2> QED
    BY <1>3, <2>1, OtherOwned DEF OwnedInv
<1>4. CASE processBatch
  <2>1. PICK n \in 1 .. Len(queue) : \E bad \in SUBSET first(n) :
          complete(n, [e \in first(n) |-> [ok |-> e \notin bad, key |-> Key(e.r, e.item),
                                           x |-> IF e \in bad THEN Nobody ELSE e]])
    BY <1>4 DEF processBatch
  <2>2. PICK bad \in SUBSET first(n) :
          complete(n, [e \in first(n) |-> [ok |-> e \notin bad, key |-> Key(e.r, e.item),
                                           x |-> IF e \in bad THEN Nobody ELSE e]])
    BY <2>1
  <2>3. PICK ack : ack = [e \in first(n) |-> [ok |-> e \notin bad, key |-> Key(e.r, e.item),
                                              x |-> IF e \in bad THEN Nobody ELSE e]]
    OBVIOUS
  <2>4. complete(n, ack)
    BY <2>2, <2>3
  <2>5. \A e \in first(n) : ack[e].key = Key(e.r, e.item)
    BY <2>3
  <2>6. UNCHANGED <<store, pc, item, events>>
    BY <1>4 DEF processBatch, loopUnchanged
  <2> QED
    BY <2>4, <2>5, <2>6, CompleteOwned
<1>5. ASSUME NEW n \in 1 .. Len(queue), complete(n, [e \in first(n) |-> closedAck]), loopUnchanged
      PROVE  OwnedInv' /\ \A q \in Requests : Settles(q)
  <2>1. PICK ack : ack = [e \in first(n) |-> closedAck]
    OBVIOUS
  <2>2. complete(n, ack) /\ \A e \in first(n) : ack[e] = closedAck
    BY <1>5, <2>1
  <2>3. UNCHANGED <<store, pc, item, events>>
    BY <1>5 DEF loopUnchanged
  <2> QED
    BY <2>2, <2>3, CompleteOwned
<1>6. CASE processBatchFail
  BY <1>5, <1>6 DEF processBatchFail
<1>7. CASE abandonPending
  <2>1. loopUnchanged
    BY <1>7 DEF abandonPending
  <2>2. CASE queue = <<>>
    BY <1>3, <1>7, <2>2 DEF abandonPending, loopUnchanged
  <2>3. CASE queue # <<>>
    <3>1. Len(queue) \in 1 .. Len(queue)
      BY SMTT(30), <1>1, <2>3 DEF Types
    <3>2. complete(Len(queue), [e \in first(Len(queue)) |-> closedAck])
      BY <1>7, <2>3 DEF abandonPending
    <3> QED
      BY <1>5, <2>1, <3>1, <3>2
  <2> QED
    BY <2>2, <2>3
<1>8. CASE Close \/ Tick \/ UNCHANGED vars
  BY <1>3, <1>8 DEF Close, Tick, loopUnchanged, calls, vars
<1> QED
  BY <1>2, <1>4, <1>6, <1>7, <1>8 DEF Next, Loop

\* A call that returns leaves no key reserved, but for batch items that were
\* answered without their transfer (CreateTransfer, CreateTransfers,
\* materialize).
THEOREM ReservationsSettled == Spec => KeysSettled
<1>1. Init => OwnedInv
  BY SMTT(30) DEF Init, OwnedInv, OwnedOK, reservedBy
<1>2. IInv /\ OwnedInv /\ [Next]_vars => OwnedInv'
  BY NextOwned
<1>3. IInv /\ OwnedInv /\ [Next]_vars =>
        [\A r \in Requests : pc[r] # "done" /\ pc'[r] = "done" =>
           \A k \in DOMAIN entries' : entries'[k].pending /\ entries'[k].owner = r =>
             \E i \in DOMAIN acks[r] : Key(r, i) = k /\ acks[r][i] = closedAck]_vars
  BY NextOwned DEF Settles, reservedBy
<1> QED
  BY <1>1, <1>2, <1>3, Invariance, PTL DEF Spec, KeysSettled

==============================================================================
