-------------------------- MODULE RingBufferProofs --------------------------
(***************************************************************************)
(* Proofs about RingBuffer for every set of producers, capacity, batch     *)
(* size and number of submissions.                                         *)
(***************************************************************************)
EXTENDS RingBuffer, Integers, SequenceTheorems, TLAPS

(* Slot arithmetic *)

\* A sequence number names one of the ring's slots.
LEMMA SlotType ==
  ASSUME NEW x \in Nat
  PROVE  Slot(x) \in Slots
  BY CapAssumption DEF Slot, Slots

\* Two sequence numbers less than one lap apart name different slots.
LEMMA SlotDistinct ==
  ASSUME NEW x \in Nat, NEW y \in Nat, x < y, y < x + Cap
  PROVE  Slot(x) # Slot(y)
<1> DEFINE qx == x \div Cap
           qy == y \div Cap
<1>1. qx \in Nat /\ qy \in Nat /\ x % Cap \in Nat /\ y % Cap \in Nat
  BY CapAssumption
<1>2. x = Cap * qx + (x % Cap) /\ y = Cap * qy + (y % Cap)
  BY CapAssumption
<1>3. SUFFICES ASSUME x % Cap = y % Cap PROVE FALSE
  BY DEF Slot
<1> DEFINE k == qy - qx
<1>4. k \in Int /\ y - x = Cap * k
  BY <1>1, <1>2, <1>3, CapAssumption
<1>5. k >= 1
  BY <1>4, CapAssumption
<1>6. Cap * k >= Cap
  BY <1>4, <1>5, CapAssumption
<1> QED
  BY <1>4, <1>6, CapAssumption

-----------------------------------------------------------------------------
(* The inductive invariant *)

\* The empty ring satisfies the invariant.
LEMMA InitIInv == Init => IInv
  BY CapAssumption, MaxSubmitsAssumption
     DEF Init, IInv, TypeOK, Window, ProducerInv, Published, ConsumerInv,
         NoLostWakeup, Owns, Slots

\* The counters are numbers and bound each other; the histories have their
\* lengths.
LEMMA Counters ==
  ASSUME IInv
  PROVE  /\ head \in Nat /\ tail \in Nat /\ tailShared \in Nat /\ dhead \in Nat /\ room \in Nat
         /\ tailShared <= tail /\ tail <= head /\ head <= tailShared + Cap
         /\ claims \in Seq(Event) /\ Len(claims) = head
         /\ consumed \in Seq(Event) /\ Len(consumed) = tail
  BY DEF IInv, TypeOK, Window

\* A producer between claim and publication owns a sequence of the window whose
\* slot does not carry its stamp yet.
LEMMA OwnerInWindow ==
  ASSUME IInv, NEW p \in Producers, Owns(p)
  PROVE  /\ h[p] \in Nat /\ tail <= h[p] /\ h[p] < head
         /\ claims[h[p] + 1] = <<p, n[p]>>
         /\ ready[Slot(h[p])] \in Nat /\ ready[Slot(h[p])] <= h[p]
<1>1. h[p] \in Nat
  BY DEF IInv, TypeOK
<1>2. ready[Slot(h[p])] \in Nat
  BY <1>1, SlotType DEF IInv, TypeOK
<1> QED
  BY <1>1, <1>2 DEF IInv, ProducerInv

\* The slot the consumer reads is in the window and carries its stamp.
LEMMA ReadInWindow ==
  ASSUME IInv, cpc = "read"
  PROVE  /\ tail \in Nat /\ tail < dhead /\ dhead <= head /\ tail < head /\ room > 0
         /\ ready[Slot(tail)] = tail + 1
<1>1. tail < dhead /\ dhead <= head /\ room > 0 /\ ready[Slot(tail)] = tail + 1
  BY DEF IInv, ConsumerInv
<1> QED
  BY <1>1, Counters

\* So no producer owns the sequence the consumer reads.
LEMMA ReadNotOwned ==
  ASSUME IInv, cpc = "read", NEW p \in Producers, Owns(p)
  PROVE  tail < h[p]
<1>1. h[p] # tail
  BY OwnerInWindow, ReadInWindow
<1> QED
  BY <1>1, OwnerInWindow, ReadInWindow

\* Different sequence numbers of the window between tail and head never share
\* a slot.
LEMMA WindowDistinct ==
  ASSUME IInv, NEW x \in Nat, NEW y \in Nat, x # y,
         tail <= x, x < head, tail <= y, y < head
  PROVE  Slot(x) # Slot(y)
<1>1. x < y + Cap /\ y < x + Cap
  BY CapAssumption DEF IInv, TypeOK, Window
<1>2. CASE x < y
  BY <1>1, <1>2, SlotDistinct
<1>3. CASE y < x
  BY <1>1, <1>3, SlotDistinct
<1> QED
  BY <1>2, <1>3

\* Producers between claim and publication hold different sequence numbers.
LEMMA OwnersDiffer ==
  ASSUME IInv, NEW p \in Producers, NEW q \in Producers, p # q, Owns(p), Owns(q)
  PROVE  h[p] # h[q]
<1>1. claims[h[p] + 1] = <<p, n[p]>> /\ claims[h[q] + 1] = <<q, n[q]>>
  BY DEF IInv, ProducerInv
<1>2. <<p, n[p]>> # <<q, n[q]>>
  OBVIOUS
<1> QED
  BY <1>1, <1>2

\* The event a producer submits is an event of the specification.
LEMMA CurrentEvent ==
  ASSUME IInv, NEW p \in Producers, ppc[p] # "idle"
  PROVE  <<p, n[p]>> \in Event /\ n[p] \in 1 .. MaxSubmits /\ n[p] + 1 \in 1 .. (MaxSubmits + 1)
  BY MaxSubmitsAssumption DEF IInv, TypeOK, ProducerInv, Event

\* Every step of a producer preserves the invariant.
LEMMA ProducerIInv ==
  ASSUME NEW p \in Producers, IInv, Producer(p)
  PROVE  IInv'
<1> USE CapAssumption, MaxSubmitsAssumption
<1>1. CASE SubmitLoadHead(p)
  <2>1. TypeOK'
    BY <1>1 DEF SubmitLoadHead, IInv, TypeOK, pvars, cvars
  <2>2. ProducerInv'
    BY <1>1 DEF SubmitLoadHead, IInv, TypeOK, ProducerInv, Owns, pvars, cvars
  <2>3. Window' /\ Published' /\ ConsumerInv' /\ NoLostWakeup'
    BY <1>1 DEF SubmitLoadHead, IInv, TypeOK, Window, Published, ConsumerInv, NoLostWakeup, pvars, cvars
  <2> QED
    BY <2>1, <2>2, <2>3 DEF IInv
<1>2. CASE SubmitReject(p)
  <2>1. ppc[p] # "idle"
    BY <1>2 DEF SubmitReject
  <2>2. PICK next \in {n[p], n[p] + 1} : n' = [n EXCEPT ![p] = next]
    BY <1>2 DEF SubmitReject
  <2>3. next \in 1 .. (MaxSubmits + 1)
    <3>1. n[p] \in 1 .. MaxSubmits /\ n[p] + 1 \in 1 .. (MaxSubmits + 1)
      BY <2>1, CurrentEvent
    <3>2. next = n[p] \/ next = n[p] + 1
      BY <2>2
    <3> QED
      BY <3>1, <3>2
  <2>4. TypeOK'
    BY <1>2, <2>2, <2>3 DEF SubmitReject, IInv, TypeOK, cvars
  <2>5. Window' /\ Published' /\ ConsumerInv' /\ NoLostWakeup'
    BY <1>2 DEF SubmitReject, IInv, TypeOK, Window, Published, ConsumerInv, NoLostWakeup, cvars
  <2>6. ProducerInv'
    BY <1>2, <2>2 DEF SubmitReject, IInv, TypeOK, ProducerInv, Owns
  <2> QED
    BY <2>4, <2>5, <2>6 DEF IInv
<1>3. CASE SubmitLoadTail(p)
  <2>1. TypeOK'
    BY <1>3 DEF SubmitLoadTail, SubmitFull, IInv, TypeOK, pvars, cvars
  <2>2. ProducerInv'
    <3>1. ppc[p] = "tail" /\ h[p] < tailShared + Cap
      BY <1>3, Counters DEF SubmitLoadTail, SubmitFull, IInv, TypeOK
    <3> QED
      BY <1>3, <3>1 DEF SubmitLoadTail, IInv, TypeOK, ProducerInv, Owns, cvars, Slot
  <2>3. Window' /\ Published' /\ ConsumerInv' /\ NoLostWakeup'
    BY <1>3 DEF SubmitLoadTail, IInv, TypeOK, Window, Published, ConsumerInv, NoLostWakeup, pvars, cvars
  <2> QED
    BY <2>1, <2>2, <2>3 DEF IInv
<1>4. CASE SubmitClaim(p)
  <2> USE DEF SubmitClaim
  <2>1. <<p, n[p]>> \in Event /\ n[p] <= MaxSubmits
    BY <1>4, CurrentEvent
  <2>2. claims \in Seq(Event) /\ claims' = Append(claims, <<p, n[p]>>) /\ Len(claims) = head /\ head \in Nat
    BY <1>4 DEF IInv, TypeOK, Window
  <2>3. /\ claims' \in Seq(Event) /\ Len(claims') = head + 1
        /\ claims'[head + 1] = <<p, n[p]>>
        /\ \A i \in 1 .. head : claims'[i] = claims[i]
    BY <2>1, <2>2
  <2>4. TypeOK'
    BY <1>4, <2>3 DEF IInv, TypeOK, cvars
  <2>5. Window'
    BY <1>4, <2>3 DEF IInv, TypeOK, Window, ProducerInv
  <2>6. ProducerInv'
    <3> SUFFICES ASSUME NEW q \in Producers
                 PROVE  /\ ppc'[q] # "idle" => n'[q] <= MaxSubmits
                        /\ ppc'[q] = "cas" => h'[q] < tailShared' + Cap
                        /\ Owns(q)' => /\ tail' <= h'[q] /\ h'[q] < head'
                                       /\ claims'[h'[q] + 1] = <<q, n'[q]>>
                                       /\ ready'[Slot(h'[q])] <= h'[q]
                        /\ ppc'[q] = "publish" => buf'[Slot(h'[q])] = <<q, n'[q]>>
      BY DEF ProducerInv, Slot
    <3>1. CASE q = p
      <4>1. ready[Slot(head)] <= head
        BY <1>4, SlotType DEF IInv, TypeOK, Window
      <4>2. ppc'[q] = "write" /\ h[q] = head
        BY <1>4, <3>1 DEF IInv, TypeOK
      <4>3. tail <= head /\ head < head + 1
        BY Counters
      <4> QED
        BY <1>4, <2>1, <2>3, <3>1, <4>1, <4>2, <4>3
    <3>2. CASE q # p
      <4>1. ppc'[q] = ppc[q]
        BY <1>4, <3>2 DEF IInv, TypeOK
      <4>2. Owns(q) => h[q] + 1 \in 1 .. head
        BY Counters, OwnerInWindow
      <4> QED
        <5>1. Owns(q)' => /\ tail <= h[q] /\ h[q] < head + 1
                          /\ claims'[h[q] + 1] = <<q, n[q]>>
                          /\ ready[Slot(h[q])] <= h[q]
          <6> SUFFICES ASSUME Owns(q) PROVE /\ tail <= h[q] /\ h[q] < head + 1
                                            /\ claims'[h[q] + 1] = <<q, n[q]>>
                                            /\ ready[Slot(h[q])] <= h[q]
            BY <4>1 DEF Owns
          <6>1. claims'[h[q] + 1] = claims[h[q] + 1]
            BY <2>3, <4>2
          <6> QED
            BY <6>1, Counters, OwnerInWindow
        <5> QED
          BY <1>4, <4>1, <5>1 DEF IInv, ProducerInv
    <3> QED
      BY <3>1, <3>2
  <2>7. Published'
    <3> SUFFICES ASSUME NEW s \in tail .. head, ready[Slot(s)] = s + 1
                 PROVE  buf[Slot(s)] = claims'[s + 1]
      <4>1. tail' .. (head' - 1) = tail .. head
        BY <1>4 DEF IInv, TypeOK
      <4> QED
        BY <1>4, <4>1 DEF Published, Slot
    <3>1. s # head
      BY SlotType DEF IInv, TypeOK, Window
    <3> QED
      <4>1. s \in tail .. (head - 1) /\ s + 1 \in 1 .. head
        BY <3>1, Counters
      <4> QED
        BY <2>3, <4>1 DEF IInv, Published
  <2>8. ConsumerInv'
    <3>1. \A i \in 1 .. tail : consumed[i] = claims'[i]
      BY <2>3, Counters DEF IInv, ConsumerInv
    <3>2. dhead <= head => dhead <= head + 1
      BY Counters
    <3> QED
      BY <1>4, <3>1, <3>2 DEF IInv, ConsumerInv, cvars, Slot
  <2>9. NoLostWakeup'
    BY <1>4 DEF IInv, TypeOK, NoLostWakeup, cvars
  <2> QED
    BY <2>4, <2>5, <2>6, <2>7, <2>8, <2>9 DEF IInv
<1>5. CASE SubmitRetry(p)
  <2>1. TypeOK'
    BY <1>5 DEF SubmitRetry, IInv, TypeOK, pvars, cvars
  <2>2. ProducerInv'
    BY <1>5 DEF SubmitRetry, IInv, TypeOK, Window, ProducerInv, Owns, pvars, cvars
  <2>3. Window' /\ Published'
    BY <1>5 DEF SubmitRetry, IInv, TypeOK, Window, Published, pvars, cvars
  <2>4. ConsumerInv'
    BY <1>5 DEF SubmitRetry, IInv, TypeOK, Window, ConsumerInv, pvars, cvars
  <2>5. NoLostWakeup'
    BY <1>5 DEF SubmitRetry, IInv, TypeOK, Window, NoLostWakeup, pvars, cvars
  <2> QED
    BY <2>1, <2>2, <2>3, <2>4, <2>5 DEF IInv
<1>6. CASE SubmitWrite(p)
  <2> USE DEF SubmitWrite
  <2>1. Owns(p) /\ <<p, n[p]>> \in Event /\ h[p] \in Nat /\ Slot(h[p]) \in Slots
    BY <1>6, CurrentEvent, SlotType DEF Owns, IInv, TypeOK
  <2>2. tail <= h[p] /\ h[p] < head /\ ready[Slot(h[p])] <= h[p] /\ claims[h[p] + 1] = <<p, n[p]>>
    BY <2>1 DEF IInv, ProducerInv
  <2>3. TypeOK'
    BY <1>6, <2>1 DEF IInv, TypeOK, cvars
  <2>4. Window' /\ NoLostWakeup'
    BY <1>6 DEF IInv, TypeOK, Window, NoLostWakeup, cvars
  <2>5. ConsumerInv'
    BY <1>6 DEF IInv, ConsumerInv, cvars, Slot
  <2>6. ProducerInv'
    <3> SUFFICES ASSUME NEW q \in Producers
                 PROVE  /\ ppc'[q] # "idle" => n[q] <= MaxSubmits
                        /\ ppc'[q] = "cas" => h[q] < tailShared + Cap
                        /\ Owns(q)' => /\ tail <= h[q] /\ h[q] < head
                                       /\ claims[h[q] + 1] = <<q, n[q]>>
                                       /\ ready[Slot(h[q])] <= h[q]
                        /\ ppc'[q] = "publish" => buf'[Slot(h[q])] = <<q, n[q]>>
      BY <1>6 DEF ProducerInv, Slot
    <3>1. CASE q = p
      BY <1>6, <2>1, <2>2, <3>1 DEF IInv, TypeOK, ProducerInv, Owns
    <3>2. CASE q # p
      <4>1. ppc'[q] = ppc[q]
        BY <1>6, <3>2 DEF IInv, TypeOK
      <4>2. Owns(q) => Slot(h[q]) # Slot(h[p])
        BY <2>1, <2>2, <3>2, OwnersDiffer, WindowDistinct DEF IInv, TypeOK, ProducerInv
      <4>3. Owns(q) => buf'[Slot(h[q])] = buf[Slot(h[q])]
        BY <1>6, <4>2, SlotType DEF IInv, TypeOK
      <4> QED
        BY <4>1, <4>3 DEF IInv, ProducerInv, Owns
    <3> QED
      BY <3>1, <3>2
  <2>7. Published'
    <3> SUFFICES ASSUME NEW s \in tail .. (head - 1), ready[Slot(s)] = s + 1
                 PROVE  buf'[Slot(s)] = claims[s + 1]
      BY <1>6 DEF Published, Slot
    <3>1. s # h[p] /\ s \in Nat /\ tail <= s /\ s < head
      BY <2>1, <2>2 DEF IInv, TypeOK
    <3>2. Slot(s) # Slot(h[p])
      BY <2>1, <2>2, <3>1, WindowDistinct
    <3> QED
      BY <1>6, <3>1, <3>2, SlotType DEF IInv, TypeOK, Published
  <2> QED
    BY <2>3, <2>4, <2>5, <2>6, <2>7 DEF IInv
<1>7. CASE SubmitPublish(p)
  <2> USE DEF SubmitPublish
  <2>1. Owns(p) /\ h[p] \in Nat /\ Slot(h[p]) \in Slots
    BY <1>7, SlotType DEF Owns, IInv, TypeOK
  <2>2. tail <= h[p] /\ h[p] < head /\ claims[h[p] + 1] = buf[Slot(h[p])] /\ ready[Slot(h[p])] <= h[p]
    BY <1>7, <2>1 DEF IInv, ProducerInv
  <2>3. TypeOK'
    BY <1>7, <2>1 DEF IInv, TypeOK, cvars
  <2>4. Window' /\ NoLostWakeup'
    BY <1>7, <2>1, <2>2 DEF IInv, TypeOK, Window, NoLostWakeup, cvars
  <2>5. \A s \in Nat : tail <= s /\ s < head /\ s # h[p] => ready'[Slot(s)] = ready[Slot(s)]
    BY <1>7, <2>1, <2>2, SlotType, WindowDistinct DEF IInv, TypeOK
  <2>6. ConsumerInv'
    <3>1. cpc = "read" => tail # h[p] /\ tail < head /\ tail \in Nat
      BY <2>1, ReadInWindow, ReadNotOwned
    <3>2. cpc = "read" => ready'[Slot(tail)] = tail + 1
      BY <2>5, <3>1 DEF IInv, TypeOK, ConsumerInv, Window
    <3>3. UNCHANGED <<cpc, dhead, room, head, tail, claims, consumed>>
      BY <1>7 DEF cvars
    <3> QED
      BY <3>2, <3>3 DEF IInv, ConsumerInv, Slot
  <2>7. ProducerInv'
    <3> SUFFICES ASSUME NEW q \in Producers
                 PROVE  /\ ppc'[q] # "idle" => n[q] <= MaxSubmits
                        /\ ppc'[q] = "cas" => h[q] < tailShared + Cap
                        /\ Owns(q)' => /\ tail <= h[q] /\ h[q] < head
                                       /\ claims[h[q] + 1] = <<q, n[q]>>
                                       /\ ready'[Slot(h[q])] <= h[q]
                        /\ ppc'[q] = "publish" => buf[Slot(h[q])] = <<q, n[q]>>
      BY <1>7 DEF ProducerInv, Slot
    <3>1. CASE q = p
      BY <1>7, <3>1 DEF IInv, TypeOK, ProducerInv, Owns
    <3>2. CASE q # p
      <4>1. ppc'[q] = ppc[q]
        BY <1>7, <3>2 DEF IInv, TypeOK
      <4>2. Owns(q) => h[q] # h[p] /\ h[q] \in Nat
        BY <2>1, <3>2, OwnersDiffer DEF IInv, TypeOK
      <4> QED
        BY <2>5, <4>1, <4>2 DEF IInv, ProducerInv, Owns
    <3> QED
      BY <3>1, <3>2
  <2>8. Published'
    <3> SUFFICES ASSUME NEW s \in tail .. (head - 1), ready'[Slot(s)] = s + 1
                 PROVE  buf[Slot(s)] = claims[s + 1]
      BY <1>7 DEF Published, Slot
    <3>1. s \in Nat /\ tail <= s /\ s < head
      BY Counters
    <3>2. CASE s = h[p]
      BY <2>2, <3>2
    <3>3. CASE s # h[p]
      BY <2>5, <3>1, <3>3 DEF IInv, Published
    <3> QED
      BY <3>2, <3>3
  <2> QED
    BY <2>3, <2>4, <2>6, <2>7, <2>8 DEF IInv
<1>8. CASE signalArrived(p)
  <2>1. n[p] + 1 \in 1 .. (MaxSubmits + 1)
    BY <1>8, CurrentEvent DEF signalArrived
  <2>2. TypeOK'
    BY <1>8, <2>1 DEF signalArrived, IInv, TypeOK, cvars
  <2>3. Window' /\ Published' /\ ConsumerInv' /\ NoLostWakeup'
    BY <1>8 DEF signalArrived, IInv, TypeOK, Window, Published, ConsumerInv, NoLostWakeup, cvars, Slot
  <2>4. ProducerInv'
    BY <1>8 DEF signalArrived, IInv, TypeOK, ProducerInv, Owns
  <2> QED
    BY <2>2, <2>3, <2>4 DEF IInv
<1> QED
  BY <1>1, <1>2, <1>3, <1>4, <1>5, <1>6, <1>7, <1>8 DEF Producer

\* Every step of the event loop preserves the invariant.
LEMMA EventLoopIInv ==
  ASSUME IInv, EventLoop \/ WakeControl
  PROVE  IInv'
<1> USE CapAssumption, MaxBatchAssumption
<1>1. CASE RunCheck
  BY <1>1 DEF RunCheck, Consumer, IInv, TypeOK, Window, ProducerInv, Published, ConsumerInv, NoLostWakeup, Owns, pvars, cvars
<1>2. CASE ArmClosed
  BY <1>2 DEF ArmClosed, Consumer, IInv, TypeOK, Window, ProducerInv, Published, ConsumerInv, NoLostWakeup, Owns, pvars, cvars
<1>3. CASE ArmOpen
  <2>1. TypeOK'
    BY <1>3 DEF ArmOpen, Consumer, IInv, TypeOK, pvars, cvars
  <2>2. ProducerInv'
    BY <1>3 DEF ArmOpen, Consumer, IInv, TypeOK, Window, ProducerInv, Owns, pvars, cvars
  <2>3. Window' /\ Published'
    BY <1>3 DEF ArmOpen, Consumer, IInv, TypeOK, Window, Published, pvars, cvars
  <2>4. ConsumerInv'
    BY <1>3 DEF ArmOpen, Consumer, IInv, TypeOK, Window, ConsumerInv, pvars, cvars
  <2>5. NoLostWakeup'
    BY <1>3 DEF ArmOpen, Consumer, IInv, TypeOK, Window, NoLostWakeup, pvars, cvars
  <2> QED
    BY <2>1, <2>2, <2>3, <2>4, <2>5 DEF IInv
<1>4. CASE Wake
  BY <1>4 DEF Wake, Consumer, IInv, TypeOK, Window, ProducerInv, Published, ConsumerInv, NoLostWakeup, Owns, pvars, cvars
<1>5. CASE WakeControl
  BY <1>5 DEF WakeControl, Consumer, IInv, TypeOK, Window, ProducerInv, Published, ConsumerInv, NoLostWakeup, Owns, pvars, cvars
<1>6. CASE RunRecheck
  BY <1>6 DEF RunRecheck, Consumer, IInv, TypeOK, Window, ProducerInv, Published, ConsumerInv, NoLostWakeup, Owns, pvars, cvars
<1>7. CASE FillPoll
  BY <1>7 DEF FillPoll, Consumer, IInv, TypeOK, Window, ProducerInv, Published, ConsumerInv, NoLostWakeup, Owns, pvars, cvars
<1>8. CASE FillDone
  BY <1>8 DEF FillDone, Consumer, IInv, TypeOK, Window, ProducerInv, Published, ConsumerInv, NoLostWakeup, Owns, pvars, cvars
<1>9. CASE DrainBatch
  <2>1. TypeOK'
    <3>1. dhead' \in Nat /\ room' \in Nat
      BY <1>9, Counters DEF DrainBatch
    <3> QED
      BY <1>9, <3>1 DEF DrainBatch, Consumer, IInv, TypeOK, pvars
  <2>2. ProducerInv'
    BY <1>9 DEF DrainBatch, Consumer, IInv, TypeOK, Window, ProducerInv, Owns, pvars, cvars
  <2>3. Window' /\ Published'
    BY <1>9 DEF DrainBatch, Consumer, IInv, TypeOK, Window, Published, pvars, cvars
  <2>4. ConsumerInv'
    BY <1>9 DEF DrainBatch, Consumer, IInv, TypeOK, Window, ConsumerInv, pvars, cvars
  <2>5. NoLostWakeup'
    BY <1>9 DEF DrainBatch, Consumer, IInv, TypeOK, Window, NoLostWakeup, pvars, cvars
  <2> QED
    BY <2>1, <2>2, <2>3, <2>4, <2>5 DEF IInv
<1>10. CASE DrainReady
  <2>1. TypeOK' /\ Window' /\ ProducerInv' /\ Published' /\ NoLostWakeup'
    BY <1>10 DEF DrainReady, Consumer, IInv, TypeOK, Window, ProducerInv, Published,
       NoLostWakeup, Owns, pvars
  <2>2. ConsumerInv'
    BY <1>10 DEF DrainReady, DrainMore, Consumer, IInv, TypeOK, ConsumerInv, Slot
  <2> QED
    BY <2>1, <2>2 DEF IInv
<1>11. CASE DrainStop
  BY <1>11 DEF DrainStop, Consumer, IInv, TypeOK, Window, ProducerInv, Published, ConsumerInv, NoLostWakeup, Owns, pvars, cvars
<1>12. CASE DrainRead
  <2> USE DEF DrainRead, Consumer
  <2>1. /\ tail < dhead /\ dhead <= head /\ room > 0
        /\ ready[Slot(tail)] = tail + 1 /\ tail \in Nat /\ tail < head
    BY <1>12, ReadInWindow
  <2>2. buf[Slot(tail)] = claims[tail + 1] /\ claims[tail + 1] \in Event
    BY <2>1 DEF IInv, TypeOK, Published, Window
  <2>3. /\ consumed' \in Seq(Event) /\ Len(consumed') = tail + 1
        /\ consumed'[tail + 1] = claims[tail + 1]
        /\ \A i \in 1 .. tail : consumed'[i] = consumed[i]
    BY <1>12, <2>2 DEF IInv, TypeOK, Window
  <2>4. TypeOK'
    <3>1. tail + 1 \in Nat /\ room - 1 \in Nat
      BY <2>1, Counters
    <3> QED
      BY <1>12, <2>3, <3>1 DEF IInv, TypeOK, pvars
  <2>5. Window'
    BY <1>12, <2>1, <2>3, Counters DEF IInv, Window
  <2>6. ProducerInv'
    <3> SUFFICES ASSUME NEW p \in Producers
                 PROVE  Owns(p) => tail + 1 <= h[p]
      BY <1>12 DEF IInv, ProducerInv, Owns, pvars, Slot
    <3> QED
      BY <1>12, <2>1, ReadNotOwned, OwnerInWindow
  <2>7. Published'
    <3> SUFFICES ASSUME NEW s \in (tail + 1) .. (head - 1), ready[Slot(s)] = s + 1
                 PROVE  buf[Slot(s)] = claims[s + 1]
      BY <1>12 DEF Published, Slot
    <3> QED
      BY <2>1 DEF IInv, TypeOK, Published
  <2>8. ConsumerInv'
    BY <1>12, <2>1, <2>3 DEF IInv, TypeOK, ConsumerInv
  <2>9. NoLostWakeup'
    BY <1>12 DEF NoLostWakeup
  <2> QED
    BY <2>4, <2>5, <2>6, <2>7, <2>8, <2>9 DEF IInv
<1>13. CASE DrainStore
  <2>1. TypeOK'
    BY <1>13 DEF DrainStore, Consumer, IInv, TypeOK, pvars, cvars
  <2>2. ProducerInv'
    <3> SUFFICES ASSUME NEW p \in Producers, ppc[p] = "cas" PROVE h[p] < tail + Cap
      BY <1>13 DEF DrainStore, Consumer, IInv, ProducerInv, Owns, pvars, Slot
    <3>1. h[p] \in Nat /\ h[p] < tailShared + Cap
      BY DEF IInv, TypeOK, ProducerInv
    <3> QED
      BY <3>1, Counters
  <2>3. Window' /\ Published'
    BY <1>13 DEF DrainStore, Consumer, IInv, TypeOK, Window, Published, pvars, cvars
  <2>4. ConsumerInv'
    BY <1>13 DEF DrainStore, Consumer, IInv, TypeOK, Window, ConsumerInv, pvars, cvars
  <2>5. NoLostWakeup'
    BY <1>13 DEF DrainStore, Consumer, IInv, TypeOK, Window, NoLostWakeup, pvars, cvars
  <2> QED
    BY <2>1, <2>2, <2>3, <2>4, <2>5 DEF IInv
<1> QED
  BY <1>1, <1>2, <1>3, <1>4, <1>5, <1>6, <1>7, <1>8, <1>9, <1>10, <1>11, <1>12, <1>13 DEF EventLoop

-----------------------------------------------------------------------------
(* Theorems *)

\* The inductive invariant holds in every reachable state of the ring.
THEOREM Invariance == Spec => []IInv
<1>1. IInv /\ [Next]_vars => IInv'
  <2> SUFFICES ASSUME IInv, [Next]_vars PROVE IInv'
    OBVIOUS
  <2>1. CASE EventLoop \/ WakeControl
    BY <2>1, EventLoopIInv
  <2>2. ASSUME NEW p \in Producers, Producer(p) PROVE IInv'
    BY <2>2, ProducerIInv
  <2>3. CASE UNCHANGED vars
    BY <2>3 DEF vars, IInv, TypeOK, Window, ProducerInv, Published, ConsumerInv,
       NoLostWakeup, Owns, pvars, cvars, Slot
  <2> QED
    BY <2>1, <2>2, <2>3 DEF Next
<1> QED
  BY <1>1, InitIInv, PTL DEF Spec

\* The plain slots are race free for any number of producers and any capacity:
\* no two goroutines between claim and release ever touch the same slot.
THEOREM SlotSafety == Spec => []NoSlotRace
<1>1. IInv => NoSlotRace
  <2> SUFFICES ASSUME IInv PROVE NoSlotRace
    OBVIOUS
  <2>1. ASSUME NEW p \in Producers, NEW q \in Producers, Owns(p), Owns(q), p # q
        PROVE  Slot(h[p]) # Slot(h[q])
    BY <2>1, OwnersDiffer, WindowDistinct DEF IInv, TypeOK, ProducerInv
  <2>2. ASSUME cpc = "read", NEW p \in Producers, Owns(p)
        PROVE  Slot(h[p]) # Slot(tail)
    <3>1. tail \in Nat /\ tail < head /\ h[p] \in Nat /\ tail <= h[p] /\ h[p] < head /\ h[p] # tail
      BY <2>2, ReadInWindow, ReadNotOwned, OwnerInWindow
    <3> QED
      BY <3>1, WindowDistinct DEF IInv, TypeOK
  <2> QED
    BY <2>1, <2>2 DEF NoSlotRace
<1> QED
  BY <1>1, Invariance, PTL

\* No interleaving of arriveChan with signalArrived loses a wake-up.
THEOREM WakeupSafety == Spec => []NoLostWakeup
<1>1. IInv => NoLostWakeup
  BY DEF IInv
<1> QED
  BY <1>1, Invariance, PTL

-----------------------------------------------------------------------------
(* The ring implements the bounded FIFO *)

\* The outstanding events form a sequence of events, one per sequence number
\* from tail to head.
LEMMA OutstandingType ==
  ASSUME IInv
  PROVE  /\ Outstanding \in Seq(Event)
         /\ Len(Outstanding) = head - tail
         /\ \A i \in 1 .. (head - tail) : Outstanding[i] = claims[tail + i]
<1>1. head - tail \in Nat /\ tail \in Nat /\ Len(claims) = head
  BY DEF IInv, TypeOK, Window
<1>2. \A i \in 1 .. (head - tail) : claims[tail + i] \in Event
  BY <1>1 DEF IInv, TypeOK
<1> QED
  BY <1>1, <1>2 DEF Outstanding

\* A claim appends to the outstanding events.
LEMMA ClaimEnqueues ==
  ASSUME IInv, NEW p \in Producers, SubmitClaim(p)
  PROVE  Fifo!Enqueue(<<p, n[p]>>)
<1>1. head \in Nat /\ tail \in Nat /\ tailShared \in Nat /\ tailShared <= tail /\ tail <= head
      /\ Len(claims) = head /\ claims \in Seq(Event) /\ head < tailShared + Cap
  BY DEF IInv, TypeOK, Window, ProducerInv, SubmitClaim
<1>2. head - tail < Cap
  BY <1>1, CapAssumption
<1>3. /\ head' = head + 1 /\ tail' = tail
      /\ claims'[head + 1] = <<p, n[p]>>
      /\ \A i \in 1 .. head : claims'[i] = claims[i]
  <2>1. <<p, n[p]>> \in Event
    BY CurrentEvent DEF SubmitClaim
  <2> QED
    BY <1>1, <2>1, AppendProperties, SMTT(30) DEF SubmitClaim
<1>4. Outstanding' = [i \in 1 .. ((head + 1) - tail) |-> claims'[tail + i]]
  BY <1>3 DEF Outstanding
<1>5. Outstanding' = Append(Outstanding, <<p, n[p]>>)
  <2> DEFINE e == <<p, n[p]>>
             k == head - tail
  <2>1. k \in Nat /\ Outstanding \in Seq(Event) /\ Len(Outstanding) = k
        /\ \A i \in 1 .. k : Outstanding[i] = claims[tail + i]
    BY <1>1, OutstandingType
  <2>2. e \in Event
    BY CurrentEvent DEF SubmitClaim
  <2> HIDE DEF e
  <2>3. /\ Append(Outstanding, e) \in Seq(Event) /\ Len(Append(Outstanding, e)) = k + 1
        /\ Append(Outstanding, e)[k + 1] = e
        /\ \A i \in 1 .. k : Append(Outstanding, e)[i] = claims[tail + i]
    <3> HIDE DEF k
    <3> QED
      BY <2>1, <2>2
  <2>4. claims'[tail + (k + 1)] = e /\ \A i \in 1 .. k : claims'[tail + i] = claims[tail + i]
    BY <1>1, <1>3 DEF e
  <2>5. Outstanding' = [i \in 1 .. (k + 1) |-> claims'[tail + i]]
    BY <1>1, <1>4
  <2>6. \A i \in 1 .. (k + 1) : claims'[tail + i] = Append(Outstanding, e)[i]
    <3> HIDE DEF k
    <3> QED
      BY <2>1, <2>3, <2>4
  <2>7. Outstanding' = Append(Outstanding, e)
    <3> HIDE DEF k
    <3>1. \A i \in 1 .. (k + 1) : claims'[tail + i] \in Event
      BY <2>1, <2>3, <2>6
    <3>2. Outstanding' \in Seq(Event) /\ Len(Outstanding') = k + 1
      BY <2>1, <2>5, <3>1
    <3>3. \A i \in 1 .. (k + 1) : Outstanding'[i] = Append(Outstanding, e)[i]
      BY <2>5, <2>6
    <3> QED
      BY <2>3, <3>2, <3>3, SeqEqual
  <2> QED
    BY <2>7 DEF e
<1> QED
  BY <1>2, <1>5, OutstandingType DEF Fifo!Enqueue, SubmitClaim

\* Reading a published slot takes the oldest outstanding event.
LEMMA ReadTakes ==
  ASSUME IInv, DrainRead
  PROVE  Fifo!Take
<1>1. head \in Nat /\ tail \in Nat /\ tail < head
  BY Counters, ReadInWindow DEF DrainRead, Consumer
<1>2. buf[Slot(tail)] = claims[tail + 1]
  BY <1>1 DEF IInv, Published, ConsumerInv, DrainRead, Consumer
<1>3. Outstanding # <<>> /\ Head(Outstanding) = claims[tail + 1]
  BY <1>1, OutstandingType
<1>4. Outstanding' = [i \in 1 .. (head - (tail + 1)) |-> claims[(tail + 1) + i]]
  BY DEF Outstanding, DrainRead
<1>5. Outstanding' = Tail(Outstanding)
  <2>1. /\ Tail(Outstanding) \in Seq(Event)
        /\ Len(Tail(Outstanding)) = head - (tail + 1)
        /\ \A i \in 1 .. (head - (tail + 1)) : Tail(Outstanding)[i] = claims[(tail + 1) + i]
    BY <1>1, <1>3, OutstandingType, HeadTailProperties
  <2>2. /\ Outstanding' \in Seq(Event)
        /\ Len(Outstanding') = head - (tail + 1)
        /\ \A i \in 1 .. (head - (tail + 1)) : Outstanding'[i] = claims[(tail + 1) + i]
    <3>1. head - (tail + 1) \in Nat /\ Len(claims) = head /\ claims \in Seq(Event)
      BY <1>1 DEF IInv, TypeOK, Window
    <3>2. \A i \in 1 .. (head - (tail + 1)) : claims[(tail + 1) + i] \in Event
      BY <1>1, <3>1
    <3> QED
      BY <1>4, <3>1, <3>2
  <2> QED
    BY <2>1, <2>2, SeqEqual
<1> QED
  BY <1>2, <1>3, <1>5 DEF Fifo!Take, DrainRead

\* The ring buffer implements a FIFO of capacity Cap: every event that claimed
\* a slot is handed to the loop at most once, in claim order, none is invented,
\* and at most Cap are outstanding.
THEOREM Refinement == Spec => ImplementsFifo
<1>1. Init => Fifo!Init
  BY DEF Init, Fifo!Init, Outstanding
<1>2. IInv /\ [Next]_vars => [Fifo!Next]_(Fifo!vars)
  <2> SUFFICES ASSUME IInv, [Next]_vars PROVE [Fifo!Next]_(Fifo!vars)
    OBVIOUS
  <2>1. CASE DrainRead
    BY <2>1, ReadTakes DEF Fifo!Next
  <2>2. ASSUME NEW p \in Producers, SubmitClaim(p) PROVE Fifo!Next
    <3>1. <<p, n[p]>> \in Event
      BY <2>2, CurrentEvent DEF SubmitClaim
    <3> QED
      BY <2>2, <3>1, ClaimEnqueues DEF Fifo!Next
  <2>3. CASE UNCHANGED <<head, tail, claims, consumed>>
    BY <2>3 DEF Fifo!vars, Outstanding
  <2>4. ASSUME NEW p \in Producers, Producer(p)
        PROVE  SubmitClaim(p) \/ UNCHANGED <<head, tail, claims, consumed>>
    BY <2>4 DEF Producer, SubmitLoadHead, SubmitReject, SubmitLoadTail, SubmitRetry,
       SubmitWrite, SubmitPublish, signalArrived
  <2>5. ASSUME EventLoop \/ WakeControl
        PROVE  DrainRead \/ UNCHANGED <<head, tail, claims, consumed>>
    BY <2>5 DEF EventLoop, RunCheck, ArmClosed, ArmOpen, Wake, WakeControl, RunRecheck,
       FillPoll, FillDone, DrainBatch, DrainReady, DrainStop, DrainStore
  <2>6. UNCHANGED vars => UNCHANGED <<head, tail, claims, consumed>>
    BY DEF vars
  <2> QED
    BY <2>1, <2>2, <2>3, <2>4, <2>5, <2>6 DEF Next
<1> QED
  BY <1>1, <1>2, Invariance, PTL DEF Spec, ImplementsFifo, Fifo!Spec

=============================================================================
