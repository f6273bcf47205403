-------------------------- MODULE SubmissionQueue --------------------------
(***************************************************************************)
(* What the engine's submission path promises: a bounded FIFO.  Submitters *)
(* append events, the event loop takes events from the front, a few at a   *)
(* time.  Nothing is lost, duplicated or reordered, and at most Cap events *)
(* are outstanding.  RingBuffer implements this specification.             *)
(***************************************************************************)
EXTENDS Naturals, Sequences

CONSTANTS
  Event,     \* the events submitters hand over
  Cap        \* the largest number of outstanding events

VARIABLES
  queue,     \* accepted events the loop has not taken yet
  delivered  \* events the loop has taken, in order

vars == <<queue, delivered>>

Init ==
  /\ queue = <<>>
  /\ delivered = <<>>

Enqueue(e) ==
  /\ Len(queue) < Cap
  /\ queue' = Append(queue, e)
  /\ UNCHANGED delivered

Take ==
  /\ queue # <<>>
  /\ delivered' = Append(delivered, Head(queue))
  /\ queue' = Tail(queue)

Next == Take \/ \E e \in Event : Enqueue(e)

Spec == Init /\ [][Next]_vars

=============================================================================
