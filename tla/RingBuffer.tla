----------------------------- MODULE RingBuffer -----------------------------
(***************************************************************************)
(* The MPSC ring buffer between submitters and the event loop              *)
(* (internal/engine/ring_buffer.go), with the loop's idle wait and the     *)
(* batcher's fill phase (loop.go Run/waitForWork, batch.go Collect).       *)
(*                                                                         *)
(* One action is one atomic operation on shared state: a load, a           *)
(* compare-and-swap, a store, or a critical section under notifyMu.        *)
(* Sequence numbers are naturals: 2^64 submissions are out of reach.  The  *)
(* power-of-two check of NewRingBuffer is what makes h & mask equal to     *)
(* Slot(h).  The flag `waiting' is only ever written, and is left out.     *)
(***************************************************************************)
EXTENDS Naturals, Sequences

CONSTANTS
  Producers,   \* goroutines that call Submit
  Cap,         \* capacity of the ring
  MaxBatch,    \* Batcher.maxBatchSize
  MaxSubmits   \* bound: events each producer tries to submit

ASSUME CapAssumption == Cap \in Nat \ {0}
ASSUME MaxBatchAssumption == MaxBatch \in Nat \ {0}
ASSUME MaxSubmitsAssumption == MaxSubmits \in Nat

Slots == 0 .. (Cap - 1)
Slot(h) == h % Cap
Event == Producers \X (1 .. MaxSubmits)
ZeroEvent == <<>>          \* the zero value of a never written slot

VARIABLES
  buf, ready,    \* slot contents and publication stamps
  head,          \* producer claim sequence
  tail,          \* consumer-owned sequence
  tailShared,    \* the tail producers see
  arrive,        \* the arrival channel: "nil" or "open"
  ppc, h, n,     \* producer: control point, claimed sequence, current event
  cpc, dhead,    \* consumer: control point, head as DrainBatch loaded it
  room,          \* consumer: how many more events this batch may take
  claims,        \* history: events in the order their slots were claimed
  consumed       \* history: events DrainBatch has returned, in order

pvars == <<ppc, h, n>>
cvars == <<cpc, dhead, room>>
vars == <<buf, ready, head, tail, tailShared, arrive, pvars, cvars, claims, consumed>>

\* Types of the ring, of the control points and of the histories; that room is
\* a natural number says DrainBatch never takes more than the batch limit.
TypeOK ==
  /\ buf \in [Slots -> Event \cup {ZeroEvent}]
  /\ ready \in [Slots -> Nat]
  /\ head \in Nat /\ tail \in Nat /\ tailShared \in Nat
  /\ arrive \in {"nil", "open"}
  /\ ppc \in [Producers -> {"idle", "tail", "cas", "write", "publish", "signal"}]
  /\ h \in [Producers -> Nat]
  /\ n \in [Producers -> 1 .. (MaxSubmits + 1)]
  /\ cpc \in {"run", "arm", "wait", "recheck", "fill", "drain", "ready", "read", "store"}
  /\ dhead \in Nat /\ room \in Nat
  /\ claims \in Seq(Event)
  /\ consumed \in Seq(Event)

Init ==
  /\ buf = [i \in Slots |-> ZeroEvent]
  /\ ready = [i \in Slots |-> 0]
  /\ head = 0 /\ tail = 0 /\ tailShared = 0
  /\ arrive = "nil"
  /\ ppc = [p \in Producers |-> "idle"]
  /\ h = [p \in Producers |-> 0]
  /\ n = [p \in Producers |-> 1]
  /\ cpc = "run" /\ dhead = 0 /\ room = 0
  /\ claims = <<>>
  /\ consumed = <<>>

-----------------------------------------------------------------------------
(* Submit, one producer. *)

\* h := rb.head.Load(); the entry of the retry loop.
SubmitLoadHead(p) ==
  /\ ppc[p] = "idle" /\ n[p] \in 1 .. MaxSubmits
  /\ h' = [h EXCEPT ![p] = head]
  /\ ppc' = [ppc EXCEPT ![p] = "tail"]
  /\ UNCHANGED <<buf, ready, head, tail, tailShared, arrive, n, cvars, claims, consumed>>

\* Mutant: the capacity test admits one lap too many.
SubmitFullOffByOne(p) == h[p] < tailShared \/ h[p] > tailShared + Cap

\* h - t >= rb.cap over uint64: a tail beyond h wraps to a huge difference.
SubmitFull(p) == h[p] < tailShared \/ h[p] >= tailShared + Cap

\* t := rb.tailShared.Load(); the ring looks full.  CreateTransfer gives the
\* event up, CreateTransfers submits it again.
SubmitReject(p) ==
  /\ ppc[p] = "tail" /\ SubmitFull(p)
  /\ ppc' = [ppc EXCEPT ![p] = "idle"]
  /\ \E next \in {n[p], n[p] + 1} : n' = [n EXCEPT ![p] = next]
  /\ UNCHANGED <<buf, ready, head, tail, tailShared, arrive, h, cvars, claims, consumed>>

SubmitLoadTail(p) ==
  /\ ppc[p] = "tail" /\ ~SubmitFull(p)
  /\ ppc' = [ppc EXCEPT ![p] = "cas"]
  /\ UNCHANGED <<buf, ready, head, tail, tailShared, arrive, h, n, cvars, claims, consumed>>

\* rb.head.CompareAndSwap(h, h+1)
SubmitClaim(p) ==
  /\ ppc[p] = "cas" /\ head = h[p]
  /\ head' = head + 1
  /\ claims' = Append(claims, <<p, n[p]>>)
  /\ ppc' = [ppc EXCEPT ![p] = "write"]
  /\ UNCHANGED <<buf, ready, tail, tailShared, arrive, h, n, cvars, consumed>>

\* The swap failed: Gosched and go round the loop again.
SubmitRetry(p) ==
  /\ ppc[p] = "cas" /\ head # h[p]
  /\ ppc' = [ppc EXCEPT ![p] = "idle"]
  /\ UNCHANGED <<buf, ready, head, tail, tailShared, arrive, h, n, cvars, claims, consumed>>

SubmitWrite(p) ==
  /\ ppc[p] = "write"
  /\ buf' = [buf EXCEPT ![Slot(h[p])] = <<p, n[p]>>]
  /\ ppc' = [ppc EXCEPT ![p] = "publish"]
  /\ UNCHANGED <<ready, head, tail, tailShared, arrive, h, n, cvars, claims, consumed>>

SubmitPublish(p) ==
  /\ ppc[p] = "publish"
  /\ ready' = [ready EXCEPT ![Slot(h[p])] = h[p] + 1]
  /\ ppc' = [ppc EXCEPT ![p] = "signal"]
  /\ UNCHANGED <<buf, head, tail, tailShared, arrive, h, n, cvars, claims, consumed>>

\* Mutant: the producer returns without closing the arrival channel.
signalArrivedSilent(p) ==
  /\ ppc[p] = "signal"
  /\ ppc' = [ppc EXCEPT ![p] = "idle"]
  /\ n' = [n EXCEPT ![p] = @ + 1]
  /\ UNCHANGED <<buf, ready, head, tail, tailShared, arrive, h, cvars, claims, consumed>>

\* Under notifyMu: close the arrival channel if the consumer has one.
signalArrived(p) ==
  /\ ppc[p] = "signal"
  /\ arrive' = "nil"
  /\ ppc' = [ppc EXCEPT ![p] = "idle"]
  /\ n' = [n EXCEPT ![p] = @ + 1]
  /\ UNCHANGED <<buf, ready, head, tail, tailShared, h, cvars, claims, consumed>>

Producer(p) ==
  \/ SubmitLoadHead(p) \/ SubmitReject(p) \/ SubmitLoadTail(p)
  \/ SubmitClaim(p) \/ SubmitRetry(p)
  \/ SubmitWrite(p) \/ SubmitPublish(p) \/ signalArrived(p)

-----------------------------------------------------------------------------
(* The event loop, the only consumer.  It alone writes tail and tailShared, *)
(* so its Len() is a single load of head.                                   *)

RingLen == IF head < tailShared THEN 0 ELSE head - tailShared

Consumer(from, to) == cpc = from /\ cpc' = to

\* Run: is the ring idle?
RunCheck ==
  /\ cpc = "run"
  /\ cpc' = IF RingLen = 0 THEN "arm" ELSE "fill"
  /\ UNCHANGED <<buf, ready, head, tail, tailShared, arrive, pvars, dhead, room, claims, consumed>>

\* waitForWork calls arriveChan.  With events claimed it gets a closed channel.
ArmClosed ==
  /\ head > tailShared
  /\ Consumer("arm", "recheck")
  /\ arrive' = "nil"
  /\ UNCHANGED <<buf, ready, head, tail, tailShared, pvars, dhead, room, claims, consumed>>

\* Mutant: arriveChan hands out the channel without looking at the ring again.
ArmOpenUnchecked ==
  /\ Consumer("arm", "wait")
  /\ arrive' = "open"
  /\ UNCHANGED <<buf, ready, head, tail, tailShared, pvars, dhead, room, claims, consumed>>

ArmOpen ==
  /\ head <= tailShared
  /\ Consumer("arm", "wait")
  /\ arrive' = "open"
  /\ UNCHANGED <<buf, ready, head, tail, tailShared, pvars, dhead, room, claims, consumed>>

\* The arrival channel was closed by a producer.
Wake ==
  /\ arrive = "nil"
  /\ Consumer("wait", "recheck")
  /\ UNCHANGED <<buf, ready, head, tail, tailShared, arrive, pvars, dhead, room, claims, consumed>>

\* A read, account or snapshot request woke the select; the channel stays armed.
WakeControl ==
  /\ Consumer("wait", "recheck")
  /\ UNCHANGED <<buf, ready, head, tail, tailShared, arrive, pvars, dhead, room, claims, consumed>>

RunRecheck ==
  /\ cpc = "recheck"
  /\ cpc' = IF RingLen = 0 THEN "run" ELSE "fill"
  /\ UNCHANGED <<buf, ready, head, tail, tailShared, arrive, pvars, dhead, room, claims, consumed>>

\* Collect, fill phase: the batch is short, so ask arriveChan for the next
\* arrival.  Events are claimed, so the channel comes back closed.
FillPoll ==
  /\ Consumer("fill", "fill")
  /\ RingLen < MaxBatch
  /\ head > tailShared
  /\ arrive' = "nil"
  /\ UNCHANGED <<buf, ready, head, tail, tailShared, pvars, dhead, room, claims, consumed>>

\* The batch is full, the deadline passed, or control work is pending.
FillDone ==
  /\ Consumer("fill", "drain")
  /\ UNCHANGED <<buf, ready, head, tail, tailShared, arrive, pvars, dhead, room, claims, consumed>>

\* DrainBatch: load head and size the batch.
DrainBatch ==
  /\ Consumer("drain", IF head = tail THEN "run" ELSE "ready")
  /\ dhead' = head
  /\ room' = IF MaxBatch > head - tail THEN head - tail ELSE MaxBatch
  /\ UNCHANGED <<buf, ready, head, tail, tailShared, arrive, pvars, claims, consumed>>

DrainMore == room > 0 /\ tail < dhead

\* Mutant: the slot is read as soon as it is claimed.
DrainReadyUnstamped ==
  /\ DrainMore
  /\ Consumer("ready", "read")
  /\ UNCHANGED <<buf, ready, head, tail, tailShared, arrive, pvars, dhead, room, claims, consumed>>

\* The next slot carries the stamp the consumer wants.
DrainReady ==
  /\ DrainMore /\ ready[Slot(tail)] = tail + 1
  /\ Consumer("ready", "read")
  /\ UNCHANGED <<buf, ready, head, tail, tailShared, arrive, pvars, dhead, room, claims, consumed>>

\* The batch is complete, or the next slot is claimed but not published.
DrainStop ==
  /\ ~(DrainMore /\ ready[Slot(tail)] = tail + 1)
  /\ Consumer("ready", "store")
  /\ UNCHANGED <<buf, ready, head, tail, tailShared, arrive, pvars, dhead, room, claims, consumed>>

DrainRead ==
  /\ Consumer("read", "ready")
  /\ consumed' = Append(consumed, buf[Slot(tail)])
  /\ tail' = tail + 1
  /\ room' = room - 1
  /\ UNCHANGED <<buf, ready, head, tailShared, arrive, pvars, dhead, claims>>

DrainStore ==
  /\ Consumer("store", "run")
  /\ tailShared' = tail
  /\ UNCHANGED <<buf, ready, head, tail, arrive, pvars, dhead, room, claims, consumed>>

EventLoop ==
  \/ RunCheck \/ ArmClosed \/ ArmOpen \/ Wake \/ RunRecheck
  \/ FillPoll \/ FillDone
  \/ DrainBatch \/ DrainReady \/ DrainStop \/ DrainRead \/ DrainStore

Next == EventLoop \/ WakeControl \/ \E p \in Producers : Producer(p)

Spec == Init /\ [][Next]_vars

\* Goroutines are scheduled fairly and the fill deadline passes, so the loop
\* and every producer that can move eventually does.  Nothing is assumed of
\* control requests: WakeControl may never happen.
Fairness ==
  /\ WF_vars(EventLoop)
  /\ \A p \in Producers : WF_vars(Producer(p))

FairSpec == Spec /\ Fairness

-----------------------------------------------------------------------------
(* Properties *)

Owns(p) == ppc[p] \in {"write", "publish"}

\* The plain (non-atomic) slots of Submit and DrainBatch are race free: two
\* producers between their claim and their publication never hold the same
\* slot, and no producer holds the slot the consumer is reading.
NoSlotRace ==
  /\ \A p, q \in Producers :
       Owns(p) /\ Owns(q) /\ p # q => Slot(h[p]) # Slot(h[q])
  /\ cpc = "read" => \A p \in Producers : Owns(p) => Slot(h[p]) # Slot(tail)

\* arriveChan and signalArrived lose no wake-up: when the loop sleeps on an
\* open channel although events are in the ring, a producer is still on its
\* way to signalArrived.
NoLostWakeup ==
  cpc = "wait" /\ arrive = "open" /\ head > tailShared
    => \E p \in Producers : ppc[p] \in {"write", "publish", "signal"}

\* The ring implements the bounded FIFO: claiming a slot is the enqueue,
\* advancing tail in DrainBatch is the dequeue.
Outstanding == [i \in 1 .. (head - tail) |-> claims[tail + i]]

Fifo == INSTANCE SubmissionQueue WITH queue <- Outstanding, delivered <- consumed

ImplementsFifo == Fifo!Spec

\* Every event that claimed a slot is eventually drained by the loop, with no
\* help from control requests.
ClaimedIsDrained ==
  \A e \in Event :
    (\E i \in 1 .. Len(claims) : claims[i] = e)
      ~> (\E i \in 1 .. Len(consumed) : consumed[i] = e)

-----------------------------------------------------------------------------
(* The inductive invariant behind NoSlotRace, NoLostWakeup and the FIFO      *)
(* refinement; RingBufferProofs proves it, TLC checks it on small instances. *)

\* Claims never reach further than one lap beyond the shared tail.
Window ==
  /\ tailShared <= tail /\ tail <= head /\ head <= tailShared + Cap
  /\ Len(claims) = head /\ Len(consumed) = tail
  /\ \A i \in Slots : ready[i] <= head

\* What a producer between two steps of Submit may rely on.
ProducerInv ==
  \A p \in Producers :
    /\ ppc[p] # "idle" => n[p] <= MaxSubmits
    /\ ppc[p] = "cas" => h[p] < tailShared + Cap
    /\ Owns(p) => /\ tail <= h[p] /\ h[p] < head
                  /\ claims[h[p] + 1] = <<p, n[p]>>
                  /\ ready[Slot(h[p])] <= h[p]
    /\ ppc[p] = "publish" => buf[Slot(h[p])] = <<p, n[p]>>

\* A slot that carries its stamp carries the event that claimed it.
Published ==
  \A s \in tail .. (head - 1) :
    ready[Slot(s)] = s + 1 => buf[Slot(s)] = claims[s + 1]

ConsumerInv ==
  /\ cpc \in {"ready", "read"} => dhead <= head
  /\ cpc = "read" => tail < dhead /\ room > 0 /\ ready[Slot(tail)] = tail + 1
  /\ \A i \in 1 .. tail : consumed[i] = claims[i]

IInv == TypeOK /\ Window /\ ProducerInv /\ Published /\ ConsumerInv /\ NoLostWakeup

=============================================================================
