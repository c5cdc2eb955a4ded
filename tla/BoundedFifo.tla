----------------------------- MODULE BoundedFifo -----------------------------
(***************************************************************************)
(* What a FixedCapacitySpscRing promises its two threads: a first-in       *)
(* first-out queue of at most Capacity values, into which one call of the  *)
(* producer puts all of its values at once or none of them, and from which *)
(* the consumer looks at, takes or discards values that are in the queue.  *)
(* SpscRing.tla implements it with two counters and a shared array.        *)
(***************************************************************************)
EXTENDS Integers, Sequences

CONSTANTS
  Value,      (* what a slot may hold                              *)
  NoValue,    (* "nothing handed out yet"                          *)
  Capacity    (* how many values fit                               *)

VARIABLES
  queue,      (* the published values, oldest first                *)
  offered,    (* the values of the producer's call, <<>> between calls *)
  out         (* the last value handed to the consumer             *)

fifoVars == <<queue, offered, out>>

FifoInit ==
  /\ queue = <<>>
  /\ offered = <<>>
  /\ out = NoValue

(* A call is accepted only when every one of its values fits. *)
Offer ==
  /\ offered = <<>>
  /\ offered' \in Seq(Value) \ {<<>>}
  /\ Len(queue) + Len(offered') <= Capacity
  /\ UNCHANGED <<queue, out>>

(* All the values of the call become visible in one step. *)
Publish ==
  /\ offered # <<>>
  /\ queue' = queue \o offered
  /\ offered' = <<>>
  /\ UNCHANGED out

Look ==
  /\ \E i \in 1 .. Len(queue) : out' = queue[i]
  /\ UNCHANGED <<queue, offered>>

Take ==
  /\ queue # <<>>
  /\ out' = Head(queue)
  /\ queue' = Tail(queue)
  /\ UNCHANGED offered

(* Discarding removes the oldest values: what is published while the       *)
(* discard runs may stay.                                                  *)
Drop ==
  /\ \E n \in 1 .. Len(queue) : queue' = SubSeq(queue, n + 1, Len(queue))
  /\ UNCHANGED <<offered, out>>

FifoNext == Offer \/ Publish \/ Look \/ Take \/ Drop

FifoSpec == FifoInit /\ [][FifoNext]_fifoVars

=============================================================================
