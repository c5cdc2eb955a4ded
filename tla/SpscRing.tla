------------------------------ MODULE SpscRing ------------------------------
(***************************************************************************)
(* FixedCapacitySpscRing of MotionCommandRing.h: the lock-free ring under  *)
(* every channel between the NC task and the 250 us motion thread (motion  *)
(* commands, feedback, producer notices, axis commands and their results). *)
(*                                                                         *)
(* One producer, one consumer and any number of observers run              *)
(* concurrently.  Every load or store of a sequence counter and every copy *)
(* of a slot is a step of its own.  The counters are 64 bits wide in the   *)
(* code and count one per command, so they are naturals here, bounded by   *)
(* MaxSequence, which is also the limit at which a batch is refused.       *)
(***************************************************************************)
EXTENDS Integers, Sequences

CONSTANTS
  Value,        (* the commands a slot may hold                            *)
  NoValue,      (* a slot never written, an outValue never assigned        *)
  Capacity,     (* number of slots                                         *)
  BatchLimit,   (* longest batch of one publication (128 in the code)      *)
  MaxSequence   (* largest value of the sequence counters                  *)

ASSUME CapacityAssumption == Capacity \in Nat \ {0}
ASSUME BatchLimitAssumption == BatchLimit \in Nat \ {0}
ASSUME MaxSequenceAssumption == MaxSequence \in Nat
ASSUME NoValueAssumption == NoValue \notin Value

VARIABLES
  storage,        (* m_storage                                             *)
  writeSequence,  (* m_writeSequence: only the producer stores it          *)
  readSequence,   (* m_readSequence: only the consumer stores it           *)
  pushing,        (* the values of the push in progress, <<>> between calls *)
  copied,         (* how many of them are in their slots                   *)
  proven,         (* the room ProducerHasCapacity last answered true for,  *)
                  (* void once the producer publishes                      *)
  reading,        (* the consumer's call in progress                       *)
  target,         (* the sequence that call copies or moves to             *)
  copy,           (* the value a pop has copied and not yet returned       *)
  out,            (* the last outValue returned to the consumer            *)
  sampling,       (* readSequence loaded by a size() in progress, or -1    *)
  size,           (* the last answer of size()                             *)
  published       (* history: every value ever published, in order         *)

producerVars == <<pushing, copied, proven>>
consumerVars == <<reading, target, copy, out>>
observerVars == <<sampling, size>>
vars == <<storage, writeSequence, readSequence, producerVars, consumerVars,
          observerVars, published>>

SlotOf(sequence) == sequence % Capacity

Occupied == writeSequence - readSequence

Init ==
  /\ storage = [slot \in 0 .. Capacity - 1 |-> NoValue]
  /\ writeSequence = 0 /\ readSequence = 0
  /\ pushing = <<>> /\ copied = 0 /\ proven = 0
  /\ reading = "idle" /\ target = 0 /\ copy = NoValue /\ out = NoValue
  /\ sampling = -1 /\ size = 0
  /\ published = <<>>

-----------------------------------------------------------------------------
(* Producer thread.                                                        *)

(* ProducerHasCapacity(count) answering true. *)
ProducerHasCapacity(count) ==
  /\ pushing = <<>>
  /\ count <= Capacity - Occupied
  /\ proven' = count
  /\ UNCHANGED <<storage, writeSequence, readSequence, pushing, copied,
                 consumerVars, observerVars, published>>

(* A push that passed its capacity check has its values in hand. *)
BeginPush(values) ==
  /\ pushing = <<>>
  /\ pushing' = values /\ copied' = 0
  /\ UNCHANGED <<storage, writeSequence, readSequence, proven, consumerVars,
                 observerVars, published>>

(* Mutant: a full ring takes one more. *)
ProducerTryPushFull(value) ==
  /\ Occupied <= Capacity
  /\ writeSequence < MaxSequence
  /\ BeginPush(<<value>>)

ProducerTryPush(value) ==
  /\ Occupied < Capacity
  /\ writeSequence < MaxSequence
  /\ BeginPush(<<value>>)

ProducerTryPushPair(first, second) ==
  /\ Capacity >= 2
  /\ Occupied <= Capacity
  /\ Capacity - Occupied >= 2
  /\ writeSequence <= MaxSequence - 2
  /\ BeginPush(<<first, second>>)

ProducerTryPushBatch(values) ==
  /\ Len(values) \in 1 .. BatchLimit
  /\ Len(values) <= Capacity
  /\ Occupied <= Capacity
  /\ Len(values) <= Capacity - Occupied
  /\ writeSequence <= MaxSequence - Len(values)
  /\ BeginPush(values)

(* m_storage[(writeSequence + index) % Capacity] = values[index] *)
CopyIn ==
  /\ copied < Len(pushing)
  /\ storage' = [storage EXCEPT ![SlotOf(writeSequence + copied)] =
                                  pushing[copied + 1]]
  /\ copied' = copied + 1
  /\ UNCHANGED <<writeSequence, readSequence, pushing, proven, consumerVars,
                 observerVars, published>>

(* The release store of m_writeSequence, after every copy. *)
PublishWrite ==
  /\ pushing # <<>>
  /\ copied = Len(pushing)
  /\ writeSequence' = writeSequence + Len(pushing)
  /\ published' = published \o pushing
  /\ pushing' = <<>> /\ copied' = 0 /\ proven' = 0
  /\ UNCHANGED <<storage, readSequence, consumerVars, observerVars>>

-----------------------------------------------------------------------------
(* Consumer thread.  A call loads m_writeSequence, copies, then stores     *)
(* m_readSequence; a call that finds the ring empty changes nothing.       *)

BeginRead(call, sequence) ==
  /\ reading = "idle"
  /\ reading' = call
  /\ target' = sequence
  /\ UNCHANGED <<storage, writeSequence, readSequence, producerVars, copy, out,
                 observerVars, published>>

ConsumerTryPeekAt(offset) ==
  /\ offset < Occupied
  /\ BeginRead("peek", readSequence + offset)

(* Mutant: an empty ring is popped. *)
ConsumerTryPopEmpty == BeginRead("pop", readSequence)

ConsumerTryPop ==
  /\ readSequence # writeSequence
  /\ BeginRead("pop", readSequence)

ConsumerDiscardAll == BeginRead("discard", writeSequence)

PeekCopy ==
  /\ reading = "peek"
  /\ out' = storage[SlotOf(target)]
  /\ reading' = "idle"
  /\ UNCHANGED <<storage, writeSequence, readSequence, producerVars, target,
                 copy, observerVars, published>>

PopCopy ==
  /\ reading = "pop"
  /\ copy' = storage[SlotOf(target)]
  /\ reading' = "popped"
  /\ UNCHANGED <<storage, writeSequence, readSequence, producerVars, target,
                 out, observerVars, published>>

PopRelease ==
  /\ reading = "popped"
  /\ readSequence' = target + 1
  /\ out' = copy
  /\ reading' = "idle"
  /\ UNCHANGED <<storage, writeSequence, producerVars, target, copy,
                 observerVars, published>>

DiscardRelease ==
  /\ reading = "discard"
  /\ readSequence' = target
  /\ reading' = "idle"
  /\ UNCHANGED <<storage, writeSequence, producerVars, target, copy, out,
                 observerVars, published>>

-----------------------------------------------------------------------------
(* size(), called by any thread: the consumer's counter is loaded first.   *)

SizeLoadRead ==
  /\ sampling = -1
  /\ sampling' = readSequence
  /\ UNCHANGED <<storage, writeSequence, readSequence, producerVars,
                 consumerVars, size, published>>

(* Mutant: a pair of loads that cannot belong together counts as empty. *)
SizeLoadWriteTornIsEmpty ==
  /\ sampling # -1
  /\ size' = IF writeSequence - sampling \notin 0 .. Capacity THEN 0
             ELSE writeSequence - sampling
  /\ sampling' = -1
  /\ UNCHANGED <<storage, writeSequence, readSequence, producerVars,
                 consumerVars, published>>

SizeLoadWrite ==
  /\ sampling # -1
  /\ size' = IF writeSequence <= sampling THEN 0
             ELSE IF writeSequence - sampling > Capacity THEN Capacity
             ELSE writeSequence - sampling
  /\ sampling' = -1
  /\ UNCHANGED <<storage, writeSequence, readSequence, producerVars,
                 consumerVars, published>>

-----------------------------------------------------------------------------
Batches == UNION {[1 .. n -> Value] : n \in 1 .. BatchLimit}

Producer ==
  \/ \E count \in 1 .. Capacity : ProducerHasCapacity(count)
  \/ \E value \in Value : ProducerTryPush(value)
  \/ \E first, second \in Value : ProducerTryPushPair(first, second)
  \/ \E values \in Batches : ProducerTryPushBatch(values)
  \/ CopyIn
  \/ PublishWrite

Consumer ==
  \/ \E offset \in 0 .. Capacity - 1 : ConsumerTryPeekAt(offset)
  \/ ConsumerTryPop
  \/ ConsumerDiscardAll
  \/ PeekCopy
  \/ PopCopy
  \/ PopRelease
  \/ DiscardRelease

Observer == SizeLoadRead \/ SizeLoadWrite

Next == Producer \/ Consumer \/ Observer

Spec == Init /\ [][Next]_vars

-----------------------------------------------------------------------------
(* Type invariant: the counters, the slots and the local state of the      *)
(* three threads keep their ranges.                                        *)
TypeOK ==
  /\ storage \in [0 .. Capacity - 1 -> Value \cup {NoValue}]
  /\ writeSequence \in 0 .. MaxSequence
  /\ readSequence \in Nat
  /\ pushing \in Seq(Value) /\ copied \in 0 .. Len(pushing)
  /\ proven \in 0 .. Capacity
  /\ reading \in {"idle", "peek", "pop", "popped", "discard"}
  /\ target \in Nat
  /\ copy \in Value \cup {NoValue} /\ out \in Value \cup {NoValue}
  /\ sampling \in Nat \cup {-1} /\ size \in 0 .. Capacity
  /\ published \in Seq(Value)

(* The producer never writes a slot the consumer is about to copy: the two *)
(* threads are never on one slot of m_storage, whose accesses are not      *)
(* atomic (MotionCommandRing.h ProducerTryPush*, ConsumerTryPeekAt/Pop).   *)
SlotsDisjoint ==
  reading \in {"peek", "pop"} =>
    \A k \in copied .. Len(pushing) - 1 :
      SlotOf(writeSequence + k) # SlotOf(target)

(* Every published and unread command still sits in its slot, whatever a   *)
(* push in progress has already copied past the published end.             *)
QueuedValuesIntact ==
  \A s \in readSequence .. writeSequence - 1 :
    storage[SlotOf(s)] = published[s + 1]

(* A capacity proof stays good until the next publication: the consumer    *)
(* can only add room, so a push of that many values is not refused         *)
(* (comment of ProducerHasCapacity).                                       *)
CapacityProofHolds == proven <= Capacity - Occupied

(* size() may overestimate while the consumer moves but never reports      *)
(* fewer commands than are queued when it returns (its comment): a full    *)
(* ring is never reported as having room.                                  *)
SizeNeverUnderestimates ==
  [][sampling # -1 /\ sampling' = -1 => size' >= writeSequence - readSequence]_vars

(* The ring is a bounded FIFO whose calls take effect at the two release   *)
(* stores: nothing is lost, duplicated, reordered, torn, or visible in     *)
(* part.                                                                   *)
Fifo == INSTANCE BoundedFifo WITH
  queue <- SubSeq(published, readSequence + 1, writeSequence),
  offered <- pushing

FifoRefined == Fifo!FifoSpec

=============================================================================
