-------------------------- MODULE Transports_proofs --------------------------
(***************************************************************************)
(* The ring of MotionCommandRing.h is correct for every capacity, every    *)
(* set of values and every interleaving of its threads: it implements      *)
(* BoundedFifo and its non-atomic slots are never shared.                  *)
(*                                                                         *)
(* The transmit side of the network driver is correct for every number of  *)
(* frames and of calls, and for every span of the index, whatever NAL and  *)
(* the wire do with frames and answers: no frame is written while NAL owns *)
(* it, and none that may write outputs is overtaken.                       *)
(***************************************************************************)
EXTENDS MCTransports, SequenceTheorems, TLAPS

(* Where the counters, the calls in progress and the slots stand with      *)
(* respect to one another.                                                 *)
Window ==
  /\ writeSequence = Len(published)
  /\ readSequence <= writeSequence
  /\ writeSequence + Len(pushing) - readSequence <= Capacity
  /\ writeSequence + Len(pushing) <= MaxSequence
  /\ sampling <= readSequence

Reading ==
  /\ reading = "peek" => target \in readSequence .. writeSequence - 1
  /\ reading \in {"pop", "popped"} => /\ target = readSequence
                                      /\ readSequence < writeSequence
  /\ reading = "popped" => copy = published[target + 1]
  /\ reading = "discard" => target \in readSequence .. writeSequence

CopiedIntact ==
  \A k \in 0 .. copied - 1 : storage[SlotOf(writeSequence + k)] = pushing[k + 1]

IInv ==
  /\ TypeOK
  /\ Window
  /\ Reading
  /\ QueuedValuesIntact
  /\ CopiedIntact
  /\ CapacityProofHolds

-----------------------------------------------------------------------------
(* Arithmetic of slots.                                                    *)

(* A sequence is a quotient and a remainder of the capacity. *)
LEMMA Division ==
  ASSUME NEW i \in Nat
  PROVE  /\ i = Capacity * (i \div Capacity) + (i % Capacity)
         /\ i \div Capacity \in Nat
  BY CapacityAssumption

(* Every sequence has a slot of m_storage. *)
LEMMA SlotInRange ==
  ASSUME NEW i \in Nat
  PROVE  SlotOf(i) \in 0 .. Capacity - 1
  BY CapacityAssumption DEF SlotOf

(* Sequences less than a capacity apart have different slots. *)
LEMMA SlotsDiffer ==
  ASSUME NEW i \in Nat, NEW j \in Nat, i < j, j - i < Capacity
  PROVE  SlotOf(i) # SlotOf(j)
<1> SUFFICES ASSUME i % Capacity = j % Capacity PROVE FALSE
  BY DEF SlotOf
<1> DEFINE a == i \div Capacity
<1> DEFINE b == j \div Capacity
<1>1. /\ i = Capacity * a + (i % Capacity) /\ a \in Nat
      /\ j = Capacity * b + (j % Capacity) /\ b \in Nat
  BY Division
<1>2. j - i = Capacity * (b - a)
  BY <1>1, CapacityAssumption, SlotInRange DEF SlotOf
<1> HIDE DEF a, b
<1>3. b - a \in Int /\ 0 < Capacity * (b - a) /\ Capacity * (b - a) < Capacity
  BY <1>1, <1>2
<1>4. CASE b - a <= 0
  <2>1. Capacity * (b - a) <= 0
    BY <1>3, <1>4, CapacityAssumption
  <2> QED BY <2>1, <1>3, CapacityAssumption
<1>5. CASE b - a >= 1
  <2>1. Capacity * (b - a) >= Capacity
    BY <1>3, <1>5, CapacityAssumption
  <2> QED BY <2>1, <1>3, CapacityAssumption
<1> QED BY <1>3, <1>4, <1>5

-----------------------------------------------------------------------------
(* Initially the ring is empty and nobody is inside a call. *)
LEMMA InitIInv == Init => IInv
  BY CapacityAssumption, MaxSequenceAssumption
  DEF Init, IInv, TypeOK, Window, Reading, QueuedValuesIntact, CopiedIntact,
      CapacityProofHolds, Occupied

(* Every step of any thread keeps the invariant. *)
LEMMA NextIInv == IInv /\ [Next]_vars => IInv'
<1> SUFFICES ASSUME IInv, [Next]_vars PROVE IInv'
  OBVIOUS
<1> USE CapacityAssumption, BatchLimitAssumption, MaxSequenceAssumption
<1> USE DEF IInv, TypeOK, Window, Reading, CapacityProofHolds, Occupied,
            producerVars, consumerVars, observerVars
<1>1. ASSUME NEW count \in 1 .. Capacity, ProducerHasCapacity(count)
      PROVE  IInv'
  BY <1>1 DEF ProducerHasCapacity, QueuedValuesIntact, CopiedIntact
<1>2. ASSUME NEW values \in Seq(Value), values # <<>>, BeginPush(values),
             Len(values) <= Capacity - Occupied,
             writeSequence + Len(values) <= MaxSequence
      PROVE  IInv'
  BY <1>2 DEF BeginPush, QueuedValuesIntact, CopiedIntact
<1>3. ASSUME NEW value \in Value, ProducerTryPush(value)
      PROVE  IInv'
  <2>1. /\ <<value>> \in Seq(Value) /\ <<value>> # <<>> /\ Len(<<value>>) = 1
        /\ BeginPush(<<value>>)
    BY <1>3 DEF ProducerTryPush
  <2>2. Len(<<value>>) <= Capacity - Occupied
    BY <2>1, <1>3 DEF ProducerTryPush
  <2>3. writeSequence + Len(<<value>>) <= MaxSequence
    BY <2>1, <1>3 DEF ProducerTryPush
  <2> HIDE DEF IInv, Occupied
  <2> QED BY <2>1, <2>2, <2>3, <1>2
<1>4. ASSUME NEW first \in Value, NEW second \in Value,
             ProducerTryPushPair(first, second)
      PROVE  IInv'
  <2> DEFINE pair == <<first, second>>
  <2>1. /\ pair \in Seq(Value) /\ pair # <<>> /\ Len(pair) = 2
        /\ BeginPush(pair)
    BY <1>4 DEF ProducerTryPushPair
  <2> HIDE DEF pair
  <2>2. Len(pair) <= Capacity - Occupied
    BY <2>1, <1>4 DEF ProducerTryPushPair
  <2>3. writeSequence + Len(pair) <= MaxSequence
    BY <2>1, <1>4 DEF ProducerTryPushPair
  <2> HIDE DEF IInv, Occupied
  <2> QED BY <2>1, <2>2, <2>3, <1>2
<1>5. ASSUME NEW values \in Batches, ProducerTryPushBatch(values)
      PROVE  IInv'
  <2>1. values \in Seq(Value) /\ values # <<>>
    <3>1. PICK n \in 1 .. BatchLimit : values \in [1 .. n -> Value]
      BY <1>5 DEF Batches
    <3>2. n \in Nat /\ values \in Seq(Value) /\ Len(values) = n
      BY <3>1
    <3> QED BY <3>2, <3>1
  <2>2. /\ BeginPush(values)
        /\ Len(values) <= Capacity - Occupied
        /\ writeSequence + Len(values) <= MaxSequence
    BY <2>1, <1>5 DEF ProducerTryPushBatch
  <2> HIDE DEF IInv, Occupied
  <2> QED BY <2>1, <2>2, <1>2
<1>6. CASE CopyIn
  <2> DEFINE end == writeSequence + copied
  <2> HIDE DEF IInv, TypeOK, Window, Reading, CapacityProofHolds, Occupied
  <2>1. /\ storage' = [storage EXCEPT ![SlotOf(end)] = pushing[copied + 1]]
        /\ copied' = copied + 1 /\ copied < Len(pushing)
        /\ UNCHANGED <<writeSequence, readSequence, pushing, proven,
                       consumerVars, observerVars, published>>
    BY <1>6 DEF CopyIn
  <2>t. /\ storage \in [0 .. Capacity - 1 -> Value \cup {NoValue}]
        /\ writeSequence \in Nat /\ readSequence \in Nat
        /\ pushing \in Seq(Value) /\ Len(pushing) \in Nat
        /\ copied \in Nat /\ Capacity \in Nat
    BY DEF IInv, TypeOK
  <2>w. /\ writeSequence + Len(pushing) - readSequence <= Capacity
        /\ readSequence <= writeSequence
    BY DEF IInv, Window
  <2>2. end \in Nat /\ end - readSequence < Capacity
    BY <2>1, <2>t, <2>w
  <2>3. SlotOf(end) \in 0 .. Capacity - 1 /\ pushing[copied + 1] \in Value
    <3>1. copied + 1 \in 1 .. Len(pushing)
      BY <2>1, <2>t
    <3> HIDE DEF end
    <3>2. SlotOf(end) \in 0 .. Capacity - 1
      BY <2>2, SlotInRange
    <3>3. pushing[copied + 1] \in Value
      BY <3>1, <2>t
    <3> QED BY <3>2, <3>3
  <2>4. ASSUME NEW s \in readSequence .. end - 1
        PROVE  SlotOf(s) \in 0 .. Capacity - 1 /\ SlotOf(s) # SlotOf(end)
    <3> HIDE DEF end
    <3>1. s \in Nat /\ s < end /\ end - s < Capacity
      BY <2>t, <2>2
    <3> QED BY <3>1, <2>2, SlotsDiffer, SlotInRange
  <2>5. QueuedValuesIntact /\ CopiedIntact
    BY DEF IInv
  <2>6. TypeOK' /\ Window' /\ Reading' /\ CapacityProofHolds'
    <3>1. storage' \in [0 .. Capacity - 1 -> Value \cup {NoValue}]
      BY <2>1, <2>t, <2>3
    <3>2. copied' \in 0 .. Len(pushing)
      BY <2>1, <2>t
    <3>3. TypeOK'
      BY <2>1, <3>1, <3>2 DEF IInv, TypeOK
    <3>4. Window' /\ Reading'
      BY <2>1 DEF IInv, Window, Reading
    <3>5. CapacityProofHolds'
      BY <2>1 DEF IInv, CapacityProofHolds, Occupied
    <3> QED BY <3>3, <3>4, <3>5
  <2>7. QueuedValuesIntact'
    <3> SUFFICES ASSUME NEW s \in readSequence .. writeSequence - 1
                 PROVE  storage'[SlotOf(s)] = published[s + 1]
      BY <2>1 DEF QueuedValuesIntact
    <3>1. s \in readSequence .. end - 1
      BY <2>t
    <3>2. storage[SlotOf(s)] = published[s + 1]
      BY <2>5 DEF QueuedValuesIntact
    <3> HIDE DEF end
    <3> QED BY <3>1, <3>2, <2>1, <2>t, <2>4
  <2>8. CopiedIntact'
    <3> SUFFICES ASSUME NEW k \in 0 .. copied
                 PROVE  storage'[SlotOf(writeSequence + k)] = pushing[k + 1]
      BY <2>1, <2>t DEF CopiedIntact
    <3>1. CASE k = copied
      BY <3>1, <2>1, <2>t, <2>3
    <3>2. CASE k # copied
      <4>1. writeSequence + k \in readSequence .. end - 1 /\ k \in 0 .. copied - 1
        BY <3>2, <2>t, <2>w
      <4>2. storage[SlotOf(writeSequence + k)] = pushing[k + 1]
        BY <4>1, <2>5 DEF CopiedIntact
      <4> HIDE DEF end
      <4> QED BY <4>1, <4>2, <2>1, <2>t, <2>4
    <3> QED BY <3>1, <3>2
  <2> QED BY <2>6, <2>7, <2>8 DEF IInv
<1>7. CASE PublishWrite
  <2> USE <1>7 DEF PublishWrite
  <2>1. Len(published') = Len(published) + Len(pushing)
    OBVIOUS
  <2>2. ASSUME NEW s \in 1 .. Len(published)
        PROVE  published'[s] = published[s]
    OBVIOUS
  <2>3. QueuedValuesIntact'
    <3> SUFFICES ASSUME NEW s \in readSequence .. writeSequence + Len(pushing) - 1
                 PROVE  storage[SlotOf(s)] = published'[s + 1]
      BY DEF QueuedValuesIntact
    <3>1. CASE s < writeSequence
      BY <3>1, <2>2 DEF QueuedValuesIntact
    <3>2. CASE s >= writeSequence
      <4> DEFINE k == s - writeSequence
      <4>1. k \in 0 .. copied - 1 /\ writeSequence + k = s
        BY <3>2
      <4>2. published'[s + 1] = pushing[k + 1]
        BY <3>2, <4>1
      <4> QED BY <4>1, <4>2 DEF CopiedIntact
    <3> QED BY <3>1, <3>2
  <2>4. CopiedIntact'
    BY DEF CopiedIntact
  <2>5. Reading'
    <3>1. readSequence \in Nat /\ writeSequence \in Nat /\ target \in Nat
      OBVIOUS
    <3>2. reading = "popped" => copy' = published'[target + 1]
      BY <2>2, <3>1
    <3> QED BY <2>1, <3>1, <3>2
  <2>6. TypeOK'
    <3>1. published' \in Seq(Value) /\ pushing' \in Seq(Value) /\ Len(pushing') = 0
      OBVIOUS
    <3> QED BY <3>1
  <2>7. Window' /\ CapacityProofHolds'
    <3>1. Len(pushing') = 0
      OBVIOUS
    <3> QED BY <3>1, <2>1
  <2> HIDE DEF TypeOK, Window, Reading, CapacityProofHolds
  <2> QED BY <2>3, <2>4, <2>5, <2>6, <2>7
<1>8. ASSUME NEW offset \in 0 .. Capacity - 1, ConsumerTryPeekAt(offset)
      PROVE  IInv'
  BY <1>8 DEF ConsumerTryPeekAt, BeginRead, QueuedValuesIntact, CopiedIntact
<1>9. CASE ConsumerTryPop
  BY <1>9 DEF ConsumerTryPop, BeginRead, QueuedValuesIntact, CopiedIntact
<1>10. CASE ConsumerDiscardAll
  BY <1>10 DEF ConsumerDiscardAll, BeginRead, QueuedValuesIntact, CopiedIntact
<1>11. CASE PeekCopy
  BY <1>11, SlotInRange DEF PeekCopy, QueuedValuesIntact, CopiedIntact
<1>12. CASE PopCopy
  <2>1. target \in readSequence .. writeSequence - 1
    BY <1>12 DEF PopCopy
  <2>2. storage[SlotOf(target)] = published[target + 1]
    BY <2>1 DEF QueuedValuesIntact
  <2>3. target \in Nat /\ SlotOf(target) \in 0 .. Capacity - 1
    BY <2>1, SlotInRange
  <2>4. storage[SlotOf(target)] \in Value \cup {NoValue}
    BY <2>3
  <2> QED BY <1>12, <2>2, <2>4 DEF PopCopy, QueuedValuesIntact, CopiedIntact
<1>13. CASE PopRelease
  <2>1. /\ readSequence' = readSequence + 1 /\ readSequence < writeSequence
        /\ out' = copy /\ reading' = "idle"
        /\ UNCHANGED <<storage, writeSequence, producerVars, target, copy,
                       observerVars, published>>
    BY <1>13 DEF PopRelease
  <2> QED BY <2>1 DEF QueuedValuesIntact, CopiedIntact
<1>14. CASE DiscardRelease
  BY <1>14 DEF DiscardRelease, QueuedValuesIntact, CopiedIntact
<1>15. CASE SizeLoadRead
  BY <1>15 DEF SizeLoadRead, QueuedValuesIntact, CopiedIntact
<1>16. CASE SizeLoadWrite
  BY <1>16 DEF SizeLoadWrite, QueuedValuesIntact, CopiedIntact
<1>17. CASE UNCHANGED vars
  BY <1>17 DEF vars, QueuedValuesIntact, CopiedIntact
<1> QED
  BY <1>1, <1>3, <1>4, <1>5, <1>6, <1>7, <1>8, <1>9, <1>10, <1>11, <1>12,
     <1>13, <1>14, <1>15, <1>16, <1>17
  DEF Next, Producer, Consumer, Observer

(* The invariant implies the properties the threads rely on. *)
LEMMA IInvImplies == IInv => SlotsDisjoint /\ QueuedValuesIntact /\ CapacityProofHolds
<1> SUFFICES ASSUME IInv, reading \in {"peek", "pop"},
                    NEW k \in copied .. Len(pushing) - 1
             PROVE  SlotOf(writeSequence + k) # SlotOf(target)
  BY DEF IInv, SlotsDisjoint
<1> DEFINE written == writeSequence + k
<1>1. /\ target \in Nat /\ written \in Nat
      /\ target < written /\ written - target < Capacity
  <2>1. target >= readSequence /\ target < writeSequence
    BY DEF IInv, TypeOK, Window, Reading
  <2>2. k >= 0 /\ k < Len(pushing) /\ k \in Int
    BY DEF IInv, TypeOK
  <2>3. /\ target \in Nat /\ writeSequence \in Nat /\ readSequence \in Nat
        /\ Len(pushing) \in Nat
        /\ writeSequence + Len(pushing) - readSequence <= Capacity
    BY MaxSequenceAssumption DEF IInv, TypeOK, Window
  <2> QED BY <2>1, <2>2, <2>3, CapacityAssumption
<1> HIDE DEF written
<1>2. SlotOf(target) # SlotOf(written)
  BY <1>1, SlotsDiffer
<1> QED BY <1>2 DEF written

(* The ring keeps its type, for every capacity. *)
THEOREM TypeCorrect == Spec => []TypeOK
<1>1. IInv => TypeOK
  BY DEF IInv
<1> QED BY <1>1, InitIInv, NextIInv, PTL DEF Spec

(* The two threads are never on one slot: the non-atomic accesses to       *)
(* m_storage do not race.                                                  *)
THEOREM SlotsNeverShared == Spec => []SlotsDisjoint
  BY InitIInv, NextIInv, IInvImplies, PTL DEF Spec

(* No unread command is ever overwritten. *)
THEOREM QueuedValuesSurvive == Spec => []QueuedValuesIntact
  BY InitIInv, NextIInv, IInvImplies, PTL DEF Spec

(* A positive ProducerHasCapacity stays true until the next publication. *)
THEOREM CapacityProofSound == Spec => []CapacityProofHolds
  BY InitIInv, NextIInv, IInvImplies, PTL DEF Spec

(* size() answers for all that is queued when it returns: the consumer's   *)
(* counter can only have grown since it was loaded, and never more than a  *)
(* capacity is queued.                                                     *)
THEOREM SizeSufficient == Spec => SizeNeverUnderestimates
<1>1. ASSUME IInv, Next, sampling # -1, sampling' = -1
      PROVE  size' >= writeSequence - readSequence
  <2>1. /\ writeSequence \in Nat /\ readSequence \in Nat /\ sampling \in Nat
        /\ sampling <= readSequence
        /\ writeSequence - readSequence <= Capacity
    <3>1. Len(pushing) \in Nat
      BY <1>1 DEF IInv, TypeOK
    <3> QED BY <1>1, <3>1, MaxSequenceAssumption, CapacityAssumption DEF IInv, TypeOK, Window
  <2>2. CASE SizeLoadWrite
    BY <2>1, <2>2, CapacityAssumption DEF SizeLoadWrite
  <2>3. CASE ~SizeLoadWrite
    <3>1. UNCHANGED sampling
      BY <1>1, <2>1, <2>3 DEF Next, Producer, Consumer, Observer, SizeLoadRead,
         ProducerHasCapacity, ProducerTryPush, ProducerTryPushPair,
         ProducerTryPushBatch, BeginPush, CopyIn, PublishWrite, BeginRead,
         ConsumerTryPeekAt, ConsumerTryPop, ConsumerDiscardAll, PeekCopy,
         PopCopy, PopRelease, DiscardRelease, observerVars
    <3> QED BY <1>1, <3>1
  <2> QED BY <2>2, <2>3
<1>2. IInv /\ [Next]_vars =>
        [sampling # -1 /\ sampling' = -1 => size' >= writeSequence - readSequence]_vars
  BY <1>1
<1> QED BY <1>2, InitIInv, NextIInv, PTL DEF Spec, SizeNeverUnderestimates

-----------------------------------------------------------------------------
(* The queue of BoundedFifo: what is published and not yet released.       *)
Queue == SubSeq(published, readSequence + 1, writeSequence)

(* What lies between two counters of a sequence. *)
LEMMA Between ==
  ASSUME NEW s \in Seq(Value), NEW r \in Nat, NEW w \in Nat, r <= w, w <= Len(s)
  PROVE  /\ SubSeq(s, r + 1, w) \in Seq(Value)
         /\ Len(SubSeq(s, r + 1, w)) = w - r
         /\ \A i \in 1 .. w - r : SubSeq(s, r + 1, w)[i] = s[r + i]
<1> DEFINE q == SubSeq(s, r + 1, w)
<1>1. ASSUME NEW i \in r + 1 .. w PROVE s[i] \in Value
  <2>1. i \in 1 .. Len(s)
    OBVIOUS
  <2> QED BY <2>1, ElementOfSeq
<1>2. r + 1 \in Int /\ w \in Int
  OBVIOUS
<1>3. /\ q \in Seq(Value)
      /\ Len(q) = IF r + 1 <= w THEN w - (r + 1) + 1 ELSE 0
      /\ \A i \in 1 .. w - (r + 1) + 1 : q[i] = s[r + 1 + i - 1]
  BY <1>1, <1>2, SubSeqProperties
<1> HIDE DEF q
<1>4. Len(q) = w - r
  <2>1. CASE r + 1 <= w
    BY <1>3, <2>1
  <2>2. CASE ~(r + 1 <= w)
    BY <1>3, <2>2
  <2> QED BY <2>1, <2>2
<1>5. ASSUME NEW i \in 1 .. w - r PROVE q[i] = s[r + i]
  <2>1. i \in 1 .. w - (r + 1) + 1 /\ r + 1 + i - 1 = r + i
    OBVIOUS
  <2> QED BY <1>3, <2>1
<1> QED BY <1>3, <1>4, <1>5 DEF q

(* Without its first d values it lies between the counters that follow. *)
LEMMA Dropped ==
  ASSUME NEW s \in Seq(Value), NEW r \in Nat, NEW w \in Nat, NEW d \in Nat,
         r + d <= w, w <= Len(s)
  PROVE  SubSeq(SubSeq(s, r + 1, w), d + 1, w - r) = SubSeq(s, r + d + 1, w)
<1> DEFINE q == SubSeq(s, r + 1, w)
<1> DEFINE last == w - r
<1> DEFINE start == r + d
<1> DEFINE left == SubSeq(q, d + 1, last)
<1> DEFINE right == SubSeq(s, start + 1, w)
<1>1. /\ r <= w /\ last \in Nat /\ start \in Nat /\ start <= w /\ d <= last
  OBVIOUS
<1>2. q \in Seq(Value) /\ Len(q) = last /\ \A i \in 1 .. last : q[i] = s[r + i]
  BY <1>1, Between
<1>3. right \in Seq(Value) /\ Len(right) = w - start
      /\ \A i \in 1 .. w - start : right[i] = s[start + i]
  <2> HIDE DEF start
  <2> QED BY <1>1, Between
<1> HIDE DEF q
<1>4. left \in Seq(Value) /\ Len(left) = last - d
      /\ \A i \in 1 .. last - d : left[i] = q[d + i]
  <2> HIDE DEF last
  <2> QED BY <1>1, <1>2, Between
<1> HIDE DEF left, right
<1>5. ASSUME NEW i \in 1 .. Len(left) PROVE left[i] = right[i]
  <2>1. /\ i \in 1 .. last - d /\ d + i \in 1 .. last /\ i \in 1 .. w - start
        /\ r + (d + i) = start + i
    BY <1>4
  <2>2. left[i] = q[d + i]
    BY <1>4, <2>1
  <2>3. q[d + i] = s[r + (d + i)]
    BY <1>2, <2>1
  <2>4. right[i] = s[start + i]
    BY <1>3, <2>1
  <2> QED BY <2>1, <2>2, <2>3, <2>4
<1>6. Len(left) = Len(right)
  BY <1>3, <1>4
<1>7. left = right
  BY <1>3, <1>4, <1>5, <1>6, SeqEqual
<1> QED BY <1>7 DEF left, right, q

(* Where the counters stand, as numbers. *)
LEMMA Numbers ==
  ASSUME IInv
  PROVE  /\ writeSequence \in Nat /\ readSequence \in Nat /\ Capacity \in Nat
         /\ readSequence <= writeSequence
         /\ published \in Seq(Value) /\ writeSequence = Len(published)
         /\ pushing \in Seq(Value) /\ Len(pushing) \in Nat
  BY MaxSequenceAssumption, CapacityAssumption DEF IInv, TypeOK, Window

(* The queue, value by value. *)
LEMMA QueueFacts ==
  ASSUME IInv
  PROVE  /\ Queue \in Seq(Value)
         /\ Len(Queue) = writeSequence - readSequence
         /\ \A i \in 1 .. writeSequence - readSequence :
              Queue[i] = published[readSequence + i]
<1>1. writeSequence <= Len(published)
  BY Numbers
<1> QED BY <1>1, Numbers, Between DEF Queue

(* A push that passed its check is an offer of the FIFO. *)
LEMMA PushIsOffer ==
  ASSUME IInv, NEW values \in Seq(Value), values # <<>>, BeginPush(values),
         Len(values) <= Capacity - Occupied
  PROVE  Fifo!Offer
<1>1. /\ pushing = <<>> /\ pushing' = values /\ UNCHANGED out /\ Queue' = Queue
  BY DEF BeginPush, Queue, consumerVars
<1>2. Len(Queue) + Len(values) <= Capacity
  <2>1. Len(values) \in Nat
    OBVIOUS
  <2> QED BY <2>1, QueueFacts, Numbers DEF Occupied
<1> QED BY <1>1, <1>2 DEF Fifo!Offer, Queue

(* The store of the write counter publishes what was pushed. *)
LEMMA PublishIsPublish ==
  ASSUME IInv, PublishWrite
  PROVE  Fifo!Publish
<1> DEFINE s == published \o pushing
<1> DEFINE w == writeSequence + Len(pushing)
<1> DEFINE q == SubSeq(s, readSequence + 1, w)
<1>1. /\ pushing # <<>> /\ pushing' = <<>> /\ out' = out /\ readSequence' = readSequence
      /\ published' = s /\ writeSequence' = w
  BY DEF PublishWrite, consumerVars
<1>2. /\ s \in Seq(Value) /\ Len(s) = w
      /\ \A i \in 1 .. w : s[i] = IF i <= writeSequence THEN published[i]
                                  ELSE pushing[i - writeSequence]
  BY Numbers, ConcatProperties
<1>3. w \in Nat /\ readSequence <= w /\ w <= Len(s)
  BY <1>2, Numbers
<1> HIDE DEF s
<1>4. /\ q \in Seq(Value) /\ Len(q) = w - readSequence
      /\ \A i \in 1 .. w - readSequence : q[i] = s[readSequence + i]
  BY <1>2, <1>3, Numbers, Between
<1>5. /\ Queue \o pushing \in Seq(Value)
      /\ Len(Queue \o pushing) = Len(Queue) + Len(pushing)
      /\ \A i \in 1 .. Len(Queue) + Len(pushing) : (Queue \o pushing)[i] =
           IF i <= Len(Queue) THEN Queue[i] ELSE pushing[i - Len(Queue)]
  BY QueueFacts, Numbers, ConcatProperties
<1> HIDE DEF q
<1>n. /\ Len(Queue) = writeSequence - readSequence /\ Len(q) = w - readSequence
      /\ writeSequence \in Nat /\ readSequence \in Nat /\ readSequence <= writeSequence
      /\ Len(pushing) \in Nat
  BY <1>4, QueueFacts, Numbers
<1>6. Len(q) = Len(Queue) + Len(pushing)
  BY <1>n
<1>7. ASSUME NEW i \in 1 .. Len(q) PROVE q[i] = (Queue \o pushing)[i]
  <2>1. /\ i \in 1 .. w - readSequence /\ readSequence + i \in 1 .. w
        /\ i \in 1 .. Len(Queue) + Len(pushing)
    BY <1>6, <1>n
  <2>2. q[i] = s[readSequence + i]
    BY <1>4, <2>1
  <2>3. CASE i <= Len(Queue)
    <3>1. readSequence + i <= writeSequence /\ i \in 1 .. writeSequence - readSequence
      BY <2>1, <2>3, QueueFacts, Numbers
    <3>2. s[readSequence + i] = published[readSequence + i]
      BY <1>2, <2>1, <3>1
    <3>3. (Queue \o pushing)[i] = Queue[i]
      BY <1>5, <2>1, <2>3
    <3> QED BY <2>2, <3>1, <3>2, <3>3, QueueFacts
  <2>4. CASE ~(i <= Len(Queue))
    <3>1. /\ ~(readSequence + i <= writeSequence)
          /\ readSequence + i - writeSequence = i - Len(Queue)
      BY <2>1, <2>4, <1>n
    <3>2. ASSUME NEW j \in 1 .. w, ~(j <= writeSequence)
          PROVE  s[j] = pushing[j - writeSequence]
      <4> HIDE DEF w
      <4> QED BY <1>2, <3>2
    <3>3. (Queue \o pushing)[i] = pushing[i - Len(Queue)]
      BY <1>5, <2>1, <2>4
    <3>4. s[readSequence + i] = pushing[i - Len(Queue)]
      <4> DEFINE j == readSequence + i
      <4>1. /\ j \in 1 .. w /\ ~(j <= writeSequence)
            /\ j - writeSequence = i - Len(Queue)
        BY <2>1, <3>1, <1>n
      <4> HIDE DEF j, w
      <4>2. s[j] = pushing[i - Len(Queue)]
        BY <3>2, <4>1
      <4> QED BY <4>2, <1>n DEF j
    <3> QED BY <2>2, <3>3, <3>4
  <2> QED BY <2>3, <2>4
<1>8. q = Queue \o pushing
  <2>1. Len(q) = Len(Queue \o pushing)
    BY <1>5, <1>6
  <2> QED BY <1>4, <1>5, <1>7, <2>1, SeqEqual
<1>9. SubSeq(published', readSequence' + 1, writeSequence') = q
  BY <1>1 DEF q
<1> HIDE DEF w
<1> QED BY <1>1, <1>8, <1>9 DEF Fifo!Publish, Queue

(* A peek hands out a value of the queue. *)
LEMMA PeekIsLook ==
  ASSUME IInv, PeekCopy
  PROVE  Fifo!Look
<1>1. /\ target \in readSequence .. writeSequence - 1 /\ out' = storage[SlotOf(target)]
      /\ pushing' = pushing /\ Queue' = Queue
  BY DEF PeekCopy, IInv, Reading, Queue, producerVars
<1>2. out' = published[target + 1]
  BY <1>1 DEF IInv, QueuedValuesIntact
<1>3. /\ target + 1 - readSequence \in 1 .. writeSequence - readSequence
      /\ readSequence + (target + 1 - readSequence) = target + 1
  BY <1>1, Numbers
<1>4. out' = Queue[target + 1 - readSequence]
  BY <1>2, <1>3, QueueFacts
<1>5. target + 1 - readSequence \in 1 .. Len(Queue)
  BY <1>3, QueueFacts
<1> QED BY <1>1, <1>4, <1>5 DEF Fifo!Look, Queue

(* The store of the read counter takes the oldest value. *)
LEMMA PopIsTake ==
  ASSUME IInv, PopRelease
  PROVE  Fifo!Take
<1> DEFINE first == readSequence + 1
<1>1. /\ target = readSequence /\ readSequence < writeSequence
      /\ copy = published[target + 1]
      /\ readSequence' = target + 1 /\ out' = copy /\ pushing' = pushing
      /\ published' = published /\ writeSequence' = writeSequence
  BY DEF PopRelease, IInv, Reading, producerVars
<1>2. /\ first \in 1 .. Len(published) /\ writeSequence \in first .. Len(published)
      /\ published \in Seq(Value)
  BY <1>1, Numbers
<1>3. /\ Head(SubSeq(published, first, writeSequence)) = published[first]
      /\ Tail(SubSeq(published, first, writeSequence)) =
           SubSeq(published, first + 1, writeSequence)
  BY <1>2, HeadTailOfSubSeq
<1>4. Queue # <<>>
  <2>1. Len(Queue) > 0
    BY <1>1, QueueFacts, Numbers
  <2> QED BY <2>1
<1> QED BY <1>1, <1>3, <1>4 DEF Fifo!Take, Queue

(* The store of the read counter that ends a discard drops what was in the *)
(* queue when it began and has not been taken since: nothing, perhaps.     *)
LEMMA DiscardIsDrop ==
  ASSUME IInv, DiscardRelease
  PROVE  Fifo!Drop \/ UNCHANGED Fifo!fifoVars
<1> DEFINE n == target - readSequence
<1>1. /\ target \in readSequence .. writeSequence
      /\ readSequence' = target /\ out' = out /\ pushing' = pushing
      /\ published' = published /\ writeSequence' = writeSequence
  BY DEF DiscardRelease, IInv, Reading, producerVars
<1>2. CASE target = readSequence
  BY <1>1, <1>2 DEF Fifo!fifoVars
<1>3. CASE target # readSequence
  <2>n. /\ Len(Queue) = writeSequence - readSequence /\ Len(published) = writeSequence
        /\ writeSequence \in Nat /\ readSequence \in Nat /\ readSequence <= writeSequence
    BY QueueFacts, Numbers
  <2>1. /\ n \in 1 .. Len(Queue)
        /\ readSequence + 1 \in 1 .. Len(published) /\ writeSequence \in 1 .. Len(published)
    BY <1>1, <1>3, <2>n
  <2>2. SubSeq(Queue, n + 1, Len(Queue)) = SubSeq(published, target + 1, writeSequence)
    <3>1. n \in Nat /\ readSequence + n <= writeSequence
      BY <2>1, <2>n
    <3>2. published \in Seq(Value) /\ writeSequence <= Len(published)
      BY Numbers
    <3> HIDE DEF n
    <3>3. SubSeq(Queue, n + 1, writeSequence - readSequence) =
            SubSeq(published, readSequence + n + 1, writeSequence)
      BY <2>n, <3>1, <3>2, Dropped DEF Queue
    <3>4. readSequence + n + 1 = target + 1
      BY <1>1, <2>n DEF n
    <3> QED BY <2>n, <3>3, <3>4
  <2> HIDE DEF n
  <2>3. Queue' = SubSeq(Queue, n + 1, Len(Queue))
    BY <1>1, <2>2 DEF Queue
  <2> QED BY <1>1, <2>1, <2>3 DEF Fifo!Drop, Queue
<1> QED BY <1>2, <1>3

(* Every step of a thread is a step of the FIFO or is not seen.            *)
LEMMA ProducerImplements ==
  ASSUME IInv, Producer
  PROVE  Fifo!FifoNext \/ UNCHANGED Fifo!fifoVars
<1>1. ASSUME NEW count \in 1 .. Capacity, ProducerHasCapacity(count)
      PROVE  UNCHANGED Fifo!fifoVars
  BY <1>1 DEF ProducerHasCapacity, consumerVars, Fifo!fifoVars
<1>2. ASSUME NEW value \in Value, ProducerTryPush(value) PROVE Fifo!Offer
  <2>1. /\ <<value>> \in Seq(Value) /\ <<value>> # <<>> /\ Len(<<value>>) = 1
        /\ BeginPush(<<value>>) /\ Occupied < Capacity
    BY <1>2 DEF ProducerTryPush
  <2>2. Len(<<value>>) <= Capacity - Occupied
    BY <2>1, Numbers DEF Occupied
  <2> QED BY <2>1, <2>2, PushIsOffer
<1>3. ASSUME NEW first \in Value, NEW second \in Value, ProducerTryPushPair(first, second)
      PROVE  Fifo!Offer
  <2> DEFINE pair == <<first, second>>
  <2>1. /\ pair \in Seq(Value) /\ pair # <<>> /\ Len(pair) = 2
        /\ BeginPush(pair) /\ Capacity - Occupied >= 2
    BY <1>3 DEF ProducerTryPushPair
  <2> HIDE DEF pair
  <2>2. Len(pair) <= Capacity - Occupied
    BY <2>1, Numbers DEF Occupied
  <2> QED BY <2>1, <2>2, PushIsOffer
<1>4. ASSUME NEW values \in Batches, ProducerTryPushBatch(values)
      PROVE  Fifo!Offer
  <2>1. PICK n \in 1 .. BatchLimit : values \in [1 .. n -> Value]
    BY DEF Batches
  <2>2. n \in Nat /\ values \in Seq(Value) /\ Len(values) = n /\ n >= 1
    BY <2>1, BatchLimitAssumption
  <2>3. values # <<>>
    BY <2>2
  <2> QED BY <1>4, <2>2, <2>3, PushIsOffer DEF ProducerTryPushBatch
<1>5. CASE CopyIn
  BY <1>5 DEF CopyIn, consumerVars, Fifo!fifoVars
<1>6. CASE PublishWrite
  BY <1>6, PublishIsPublish DEF Fifo!FifoNext
<1> QED BY <1>1, <1>2, <1>3, <1>4, <1>5, <1>6 DEF Producer, Fifo!FifoNext

LEMMA ConsumerImplements ==
  ASSUME IInv, Consumer
  PROVE  Fifo!FifoNext \/ UNCHANGED Fifo!fifoVars
<1>1. CASE \/ \E offset \in 0 .. Capacity - 1 : ConsumerTryPeekAt(offset)
           \/ ConsumerTryPop \/ ConsumerDiscardAll
  BY <1>1 DEF ConsumerTryPeekAt, ConsumerTryPop, ConsumerDiscardAll, BeginRead,
     producerVars, Fifo!fifoVars
<1>2. CASE PopCopy
  BY <1>2 DEF PopCopy, producerVars, Fifo!fifoVars
<1> QED BY <1>1, <1>2, PeekIsLook, PopIsTake, DiscardIsDrop DEF Consumer, Fifo!FifoNext

(* The ring implements the FIFO: a call takes effect at its release store, *)
(* for every capacity, batch limit and set of values.                      *)
THEOREM RingIsFifo == Spec => FifoRefined
<1>1. Init => Fifo!FifoInit
  BY SubSeqEmpty DEF Init, Fifo!FifoInit
<1>2. IInv /\ [Next]_vars => [Fifo!FifoNext]_Fifo!fifoVars
  <2>1. SUFFICES ASSUME IInv, [Next]_vars
        PROVE  Fifo!FifoNext \/ UNCHANGED Fifo!fifoVars
    OBVIOUS
  <2>2. CASE UNCHANGED vars
    BY <2>2 DEF vars, producerVars, consumerVars, Fifo!fifoVars
  <2>3. CASE Observer
    BY <2>3 DEF Observer, SizeLoadRead, SizeLoadWrite, producerVars, consumerVars,
       Fifo!fifoVars
  <2> QED BY <2>1, <2>2, <2>3, ProducerImplements, ConsumerImplements DEF Next
<1> QED BY <1>1, <1>2, InitIInv, NextIInv, PTL DEF Spec, FifoRefined, Fifo!FifoSpec

-----------------------------------------------------------------------------
(* The network driver.                                                     *)

(* Where a call is while it has the producer's scope, from the moment it   *)
(* has a frame, from the moment the frame is filled, after NAL got it, and *)
(* while it waits for its answer.                                          *)
Scope == {"scan", "copy", "transmit", "accepted", "uncertain"}
Holding == {"copy", "transmit", "accepted", "uncertain"}
Filling == {"transmit", "accepted", "uncertain"}
Handed == {"accepted", "uncertain"}
Listening == {"wait", "witness"}

HandedBy(t, i) == thread[t].at \in Handed /\ thread[t].frame = i
Pending(i) == slots[i].state = "AcceptedPendingResponse"
Awaited(i) == Pending(i) \/ \E t \in Nic!Thread : HandedBy(t, i)

(* One call is in the scope; what it holds. *)
ScopeIsActive == \A t \in Nic!Thread : thread[t].at \in Scope => active = 1
ScopeIsAlone ==
  \A t, u \in Nic!Thread : thread[t].at \in Scope /\ thread[u].at \in Scope => t = u
FrameIsOwned ==
  \A t \in Nic!Thread :
    /\ thread[t].at \in {"idle", "built", "scope"} =>
         thread[t].owned = {} /\ thread[t].frame = Nic!NoSlot
    /\ thread[t].frame # Nic!NoSlot => thread[t].frame \in thread[t].owned
    /\ thread[t].at \in Holding => thread[t].frame # Nic!NoSlot
KindOfThread ==
  \A t \in Nic!Thread : thread[t].at # "idle" => thread[t].packet.kind \in Nic!Kinds(t)
ListenerIsOlder ==
  \A t \in Nic!Thread : thread[t].at \in Listening =>
    /\ thread[t].packet.kind = "cyclic"
    /\ thread[t].packet.number \in 1 .. filled
    /\ \A u \in Nic!Thread : thread[u].at \in Filling => thread[t].packet.number < filled

Exclusive ==
  ScopeIsActive /\ ScopeIsAlone /\ FrameIsOwned /\ KindOfThread /\ ListenerIsOlder

(* What the scan found stays so until NAL gets the frame. *)
OwnedIsApplication ==
  \A t \in Nic!Thread : thread[t].at \in {"scan", "copy", "transmit"} =>
    \A i \in thread[t].owned : nal[i] = "application"
PoolIsQuiet ==
  \A t \in Nic!Thread : thread[t].at \in Holding =>
    /\ \A i \in thread[t].owned : slots[i].state = "Available"
    /\ \A i \in Nic!Slot : Pending(i) => slots[i].kind = "probe"
QueueIsHarmless ==
  \A t \in Nic!Thread : thread[t].at \in {"copy", "transmit"} =>
    \A i \in Nic!Slot : nal[i] = "queued" => buffer[i].kind = "probe"
FrameIsNewest ==
  \A t \in Nic!Thread : thread[t].at \in Filling =>
    /\ buffer[thread[t].frame] = thread[t].packet
    /\ thread[t].packet.number = filled
    /\ filled # 0
    /\ thread[t].at = "transmit" => newest < filled

Found == OwnedIsApplication /\ PoolIsQuiet /\ QueueIsHarmless /\ FrameIsNewest

(* What is recorded of a frame is what NAL has. *)
NumbersAreUnique ==
  /\ \A i \in Nic!Slot : buffer[i].number <= filled
  /\ \A i, j \in Nic!Slot :
       buffer[i].number = buffer[j].number /\ buffer[i].number # 0 => i = j
HandedIsRecorded ==
  \A i \in Nic!Slot : nal[i] # "application" =>
    slots[i].state # "Available" \/ \E t \in Nic!Thread : HandedBy(t, i)
RecordIsTrue ==
  \A i \in Nic!Slot :
    /\ slots[i].state # "Available" =>
         /\ slots[i].number = buffer[i].number /\ slots[i].number # 0
         /\ slots[i].kind = buffer[i].kind
    /\ slots[i].state = "Available" => slots[i].number = 0
    /\ slots[i].state = "Uncertain" /\ Nic!Relevant(slots[i].kind) => tainted

Recorded == NumbersAreUnique /\ HandedIsRecorded /\ RecordIsTrue

Ordered ==
  \A j \in Nic!Slot : nal[j] = "queued" /\ buffer[j].kind # "probe" =>
    /\ newest < buffer[j].number
    /\ \A i \in Nic!Slot \ {j} : nal[i] = "queued" => buffer[i].number < buffer[j].number

(* As long as the evidence of responses is trusted, a response under way    *)
(* is the answer to the only image that awaits one.                        *)
ObservedIsSent ==
  \A i \in Nic!Slot : slots[i].state = "AcceptedResponseObserved" => nal[i] # "queued"
ResponseIsAwaited ==
  \A r \in responses : \E i \in Nic!Slot : buffer[i] = r /\ nal[i] # "queued" /\ Awaited(i)
AwaitedIsOne ==
  \A i, j \in Nic!Slot :
    Awaited(i) /\ Nic!Relevant(buffer[i].kind) /\ Awaited(j) /\ Nic!Relevant(buffer[j].kind) => i = j
ListenerIsAwaited ==
  \A t \in Nic!Thread : thread[t].at \in Listening =>
    \E i \in Nic!Slot : /\ Pending(i) /\ slots[i].number = thread[t].packet.number
                        /\ slots[i].kind = "cyclic"
                        /\ thread[t].at = "witness" => nal[i] # "queued"
WitnessIsLast ==
  \A t \in Nic!Thread : thread[t].at = "witness" =>
    \A r \in responses : r.number # thread[t].packet.number

Trusted ==
  /\ \A r \in responses : Nic!Relevant(r.kind)
  /\ ~tainted => /\ ObservedIsSent /\ ResponseIsAwaited /\ AwaitedIsOne
                 /\ ListenerIsAwaited /\ WitnessIsLast

NicIInv == Nic!TypeOK /\ Exclusive /\ Found /\ Recorded /\ Ordered /\ Trusted
(* What the types say of the parts. *)
LEMMA NicTypeFacts ==
  ASSUME Nic!TypeOK
  PROVE  /\ filled \in Nat /\ newest \in Nat /\ newest <= filled /\ tainted \in BOOLEAN
         /\ \A i \in Nic!Slot : i # Nic!NoSlot /\ buffer[i].number \in Nat /\ slots[i].number \in Nat
         /\ \A t \in Nic!Thread : /\ thread[t].packet.number \in Nat /\ thread[t].frame \in Nat
                                  /\ thread[t].owned \subseteq Nic!Slot
<1>1. filled \in Nat /\ newest \in Nat /\ newest <= filled /\ tainted \in BOOLEAN
  BY NicAssumption DEF Nic!TypeOK
<1>2. ASSUME NEW i \in Nic!Slot PROVE i # Nic!NoSlot /\ buffer[i].number \in Nat /\ slots[i].number \in Nat
  <2>1. buffer[i] \in Nic!Packet /\ slots[i] \in Nic!Record /\ i \in 1 .. SlotCount
    BY DEF Nic!TypeOK, Nic!Slot
  <2> QED BY <2>1, NicAssumption DEF Nic!Packet, Nic!Record, Nic!NoSlot
<1>3. ASSUME NEW t \in Nic!Thread
      PROVE  /\ thread[t].packet.number \in Nat /\ thread[t].frame \in Nat
             /\ thread[t].owned \subseteq Nic!Slot
  <2>1. thread[t] \in Nic!Call
    BY DEF Nic!TypeOK
  <2>2. thread[t].packet \in Nic!Packet /\ thread[t].frame \in 0 .. SlotCount
        /\ thread[t].owned \subseteq Nic!Slot
    BY <2>1 DEF Nic!Call
  <2> QED BY <2>2, NicAssumption DEF Nic!Packet
<1> QED BY <1>1, <1>2, <1>3

(* A step of a call changes its place and nothing else of it. *)
LEMMA GotoFacts ==
  ASSUME Nic!TypeOK, NEW t \in Nic!Thread, NEW label, Nic!Goto(t, label)
  PROVE /\ thread'[t].at = label /\ thread'[t].packet = thread[t].packet
        /\ thread'[t].scanned = thread[t].scanned /\ thread'[t].owned = thread[t].owned
        /\ thread'[t].frame = thread[t].frame
        /\ \A u \in Nic!Thread : u # t => thread'[u] = thread[u]
        /\ label \in Nic!Label => thread' \in [Nic!Thread -> Nic!Call]
<1>1. thread \in [Nic!Thread -> Nic!Call] /\ thread[t] \in Nic!Call
  BY DEF Nic!TypeOK
<1>2. thread' = [thread EXCEPT ![t] = [thread[t] EXCEPT !.at = label]]
  BY DEF Nic!Goto
<1>3. label \in Nic!Label => [thread[t] EXCEPT !.at = label] \in Nic!Call
  BY <1>1 DEF Nic!Call
<1>4. thread'[t] = [thread[t] EXCEPT !.at = label]
  BY <1>1, <1>2
<1> QED BY <1>1, <1>2, <1>3, <1>4 DEF Nic!Call

(* The records a call and a frame start from. *)
LEMMA IdleTyped == Nic!Idle \in Nic!Call /\ Nic!Empty \in Nic!Packet /\ Nic!Available \in Nic!Record
  BY NicAssumption DEF Nic!Idle, Nic!Call, Nic!Label, Nic!Packet, Nic!Kind, Nic!Empty,
     Nic!Slot, Nic!NoSlot, Nic!Record, Nic!Available

(* A call that ends is as it began. *)
LEMMA LeaveFacts ==
  ASSUME Nic!TypeOK, NEW t \in Nic!Thread, Nic!Leave(t)
  PROVE /\ thread'[t].at = "idle" /\ thread'[t].packet = Nic!Empty
        /\ thread'[t].scanned = 0 /\ thread'[t].owned = {} /\ thread'[t].frame = Nic!NoSlot
        /\ \A u \in Nic!Thread : u # t => thread'[u] = thread[u]
        /\ thread' \in [Nic!Thread -> Nic!Call]
<1>1. thread \in [Nic!Thread -> Nic!Call] /\ thread' = [thread EXCEPT ![t] = Nic!Idle]
  BY DEF Nic!TypeOK, Nic!Leave
<1>2. thread'[t] = Nic!Idle
  BY <1>1
<1> QED BY <1>1, <1>2, IdleTyped DEF Nic!Idle

(* A call that has a frame is alone in the scope, and its frame is free. *)
LEMMA HolderFacts ==
  ASSUME NicIInv, NEW t \in Nic!Thread, thread[t].at \in Holding
  PROVE /\ thread[t].frame \in Nic!Slot /\ thread[t].frame # Nic!NoSlot
        /\ thread[t].frame \in thread[t].owned
        /\ slots[thread[t].frame].state = "Available"
        /\ thread[t].at \in {"copy", "transmit"} => nal[thread[t].frame] = "application"
        /\ \A u \in Nic!Thread : thread[u].at \in Scope => u = t
<1> Nic!TypeOK BY DEF NicIInv
<1>1. thread[t].frame # Nic!NoSlot /\ thread[t].frame \in thread[t].owned
  BY DEF NicIInv, Exclusive, FrameIsOwned
<1>2. \A u \in Nic!Thread : thread[u].at \in Scope => u = t
  BY DEF NicIInv, Exclusive, ScopeIsAlone, Holding, Scope
<1>3. slots[thread[t].frame].state = "Available"
  BY <1>1 DEF NicIInv, Found, PoolIsQuiet
<1>4. thread[t].at \in {"copy", "transmit"} => nal[thread[t].frame] = "application"
  BY <1>1 DEF NicIInv, Found, OwnedIsApplication
<1> QED BY <1>1, <1>2, <1>3, <1>4, NicTypeFacts

(* Building a packet touches neither the pool nor the wire. *)
LEMMA ReadIndexKeeps ==
  ASSUME NicIInv, NEW t \in Nic!Thread, Nic!ReadIndex(t)
  PROVE  NicIInv'
<1> Nic!TypeOK
  BY DEF NicIInv
<1>1. UNCHANGED <<active, m_idx, slots, tainted, buffer, filled, nal, newest, responses>>
  BY DEF Nic!ReadIndex, Nic!pool, Nic!network
<1>2. /\ thread[t].at = "idle" /\ thread'[t].at = "built"
      /\ thread'[t].packet.kind \in Nic!Kinds(t)
      /\ thread'[t].owned = thread[t].owned /\ thread'[t].frame = thread[t].frame
      /\ \A u \in Nic!Thread : u # t => thread'[u] = thread[u]
      /\ thread' \in [Nic!Thread -> Nic!Call]
  <2> DEFINE packet(kind) == [number |-> 0, kind |-> kind, index |-> m_idx]
  <2>1. PICK kind \in Nic!Kinds(t) :
          thread' = [thread EXCEPT ![t].at = "built", ![t].packet = packet(kind)]
    BY DEF Nic!ReadIndex
  <2>2. thread[t] \in Nic!Call /\ thread \in [Nic!Thread -> Nic!Call]
    BY DEF Nic!TypeOK
  <2>3. packet(kind) \in Nic!Packet /\ packet(kind).kind \in Nic!Kinds(t)
    BY NicAssumption DEF Nic!TypeOK, Nic!Packet, Nic!Kinds, Nic!Kind
  <2> HIDE DEF packet
  <2>4. thread'[t] = [thread[t] EXCEPT !.at = "built", !.packet = packet(kind)]
    BY <2>1, <2>2
  <2>5. /\ thread'[t] \in Nic!Call /\ thread'[t].packet = packet(kind)
        /\ thread'[t].at = "built"
        /\ thread'[t].owned = thread[t].owned /\ thread'[t].frame = thread[t].frame
    BY <2>2, <2>3, <2>4 DEF Nic!Call, Nic!Label
  <2>6. thread' \in [Nic!Thread -> Nic!Call] /\ \A u \in Nic!Thread : u # t => thread'[u] = thread[u]
    BY <2>1, <2>2, <2>5
  <2> QED BY <2>3, <2>5, <2>6 DEF Nic!ReadIndex, Nic!At
<1>3. Nic!TypeOK'
  BY <1>1, <1>2 DEF Nic!TypeOK
<1>4. Exclusive'
  BY <1>1, <1>2 DEF NicIInv, Exclusive, ScopeIsActive, ScopeIsAlone, FrameIsOwned,
     KindOfThread, ListenerIsOlder, Scope, Holding, Filling, Listening
<1>5. Found'
  BY <1>1, <1>2 DEF NicIInv, Found, OwnedIsApplication, PoolIsQuiet, QueueIsHarmless,
     FrameIsNewest, Holding, Filling, Pending
<1>6. Recorded'
  BY <1>1, <1>2 DEF NicIInv, Recorded, NumbersAreUnique, HandedIsRecorded, RecordIsTrue,
     Handed, HandedBy
<1>7. Ordered'
  BY <1>1, <1>2 DEF NicIInv, Ordered
<1>8. Trusted'
  BY <1>1, <1>2 DEF NicIInv, Trusted, ObservedIsSent, ResponseIsAwaited, AwaitedIsOne,
     ListenerIsAwaited, WitnessIsLast, Handed, Listening, HandedBy, Pending, Awaited,
     Nic!Relevant
<1> QED BY <1>3, <1>4, <1>5, <1>6, <1>7, <1>8 DEF NicIInv

(* The index that comes round again is recorded nowhere else. *)
LEMMA StoreIndexKeeps ==
  ASSUME NicIInv, NEW t \in Nic!Thread, Nic!StoreIndex(t)
  PROVE  NicIInv'
<1> Nic!TypeOK
  BY DEF NicIInv
<1>1. UNCHANGED <<active, slots, tainted, buffer, filled, nal, newest, responses>>
  BY DEF Nic!StoreIndex, Nic!pool, Nic!network
<1>2. /\ thread[t].at = "built" /\ thread'[t].at = "scope"
      /\ thread'[t].packet = thread[t].packet
      /\ thread'[t].owned = thread[t].owned /\ thread'[t].frame = thread[t].frame
      /\ \A u \in Nic!Thread : u # t => thread'[u] = thread[u]
      /\ thread' \in [Nic!Thread -> Nic!Call]
  BY GotoFacts DEF Nic!StoreIndex, Nic!At, Nic!Label
<1>3. Nic!TypeOK'
  <2>1. thread[t].packet.index \in 0 .. IndexSpan - 1
    BY DEF Nic!TypeOK, Nic!Call, Nic!Packet
  <2>2. m_idx' \in 0 .. IndexSpan - 1
    BY <2>1, NicAssumption DEF Nic!StoreIndex
  <2> QED BY <1>1, <1>2, <2>2 DEF Nic!TypeOK
<1>4. Exclusive'
  BY <1>1, <1>2 DEF NicIInv, Exclusive, ScopeIsActive, ScopeIsAlone, FrameIsOwned,
     KindOfThread, ListenerIsOlder, Scope, Holding, Filling, Listening
<1>5. Found'
  BY <1>1, <1>2 DEF NicIInv, Found, OwnedIsApplication, PoolIsQuiet, QueueIsHarmless,
     FrameIsNewest, Holding, Filling, Pending
<1>6. Recorded'
  BY <1>1, <1>2 DEF NicIInv, Recorded, NumbersAreUnique, HandedIsRecorded, RecordIsTrue,
     Handed, HandedBy
<1>7. Ordered'
  BY <1>1, <1>2 DEF NicIInv, Ordered
<1>8. Trusted'
  BY <1>1, <1>2 DEF NicIInv, Trusted, ObservedIsSent, ResponseIsAwaited, AwaitedIsOne,
     ListenerIsAwaited, WitnessIsLast, Handed, Listening, HandedBy, Pending, Awaited,
     Nic!Relevant
<1> QED BY <1>3, <1>4, <1>5, <1>6, <1>7, <1>8 DEF NicIInv

(* The winner of the compare-exchange finds no other call in the scope. *)
LEMMA TakeScopeKeeps ==
  ASSUME NicIInv, NEW t \in Nic!Thread, Nic!TakeScope(t)
  PROVE  NicIInv'
<1> Nic!TypeOK
  BY DEF NicIInv
<1>1. UNCHANGED <<m_idx, slots, tainted, buffer, filled, nal, newest, responses>>
  BY DEF Nic!TakeScope, Nic!pool, Nic!network
<1>2. /\ thread[t].at = "scope" /\ active' = 1
      /\ \/ /\ active = 0 /\ thread'[t].at = "scan"
            /\ thread'[t].packet = thread[t].packet
            /\ thread'[t].owned = thread[t].owned /\ thread'[t].frame = thread[t].frame
         \/ /\ active # 0 /\ thread'[t].at = "idle"
            /\ thread'[t].owned = {} /\ thread'[t].frame = Nic!NoSlot
      /\ \A u \in Nic!Thread : u # t => thread'[u] = thread[u]
      /\ thread' \in [Nic!Thread -> Nic!Call]
  BY GotoFacts, LeaveFacts DEF Nic!TakeScope, Nic!At, Nic!Label
<1>3. Nic!TypeOK'
  BY <1>1, <1>2 DEF Nic!TypeOK
<1>4. Exclusive'
  BY <1>1, <1>2 DEF NicIInv, Exclusive, ScopeIsActive, ScopeIsAlone, FrameIsOwned,
     KindOfThread, ListenerIsOlder, Scope, Holding, Filling, Listening
<1>5. Found'
  BY <1>1, <1>2 DEF NicIInv, Exclusive, Found, FrameIsOwned, OwnedIsApplication,
     PoolIsQuiet, QueueIsHarmless, FrameIsNewest, Holding, Filling, Pending
<1>6. Recorded'
  BY <1>1, <1>2 DEF NicIInv, Recorded, NumbersAreUnique, HandedIsRecorded, RecordIsTrue,
     Handed, HandedBy
<1>7. Ordered'
  BY <1>1, <1>2 DEF NicIInv, Ordered
<1>8. Trusted'
  BY <1>1, <1>2 DEF NicIInv, Trusted, ObservedIsSent, ResponseIsAwaited, AwaitedIsOne,
     ListenerIsAwaited, WitnessIsLast, Handed, Listening, HandedBy, Pending, Awaited,
     Nic!Relevant
<1> QED BY <1>3, <1>4, <1>5, <1>6, <1>7, <1>8 DEF NicIInv

(* A frame found to be the application's stays so during the scope. *)
LEMMA ScanFrameKeeps ==
  ASSUME NicIInv, NEW t \in Nic!Thread, Nic!ScanFrame(t)
  PROVE  NicIInv'
<1> Nic!TypeOK
  BY DEF NicIInv
<1>1. UNCHANGED <<active, m_idx, slots, tainted, buffer, filled, nal, newest, responses>>
  BY DEF Nic!ScanFrame, Nic!pool, Nic!network
<1>2. /\ thread[t].at = "scan" /\ thread'[t].at = "scan"
      /\ thread'[t].packet = thread[t].packet
      /\ \A i \in thread'[t].owned : i \in thread[t].owned \/ nal[i] = "application"
      /\ thread'[t].frame # Nic!NoSlot => thread'[t].frame \in thread'[t].owned
      /\ \A u \in Nic!Thread : u # t => thread'[u] = thread[u]
      /\ thread' \in [Nic!Thread -> Nic!Call]
  <2> DEFINE i == thread[t].scanned + 1
  <2>1. thread[t] \in Nic!Call /\ thread \in [Nic!Thread -> Nic!Call] /\ i \in Nic!Slot /\ i \in 0 .. SlotCount
    BY NicAssumption DEF Nic!TypeOK, Nic!ScanFrame, Nic!Call, Nic!Slot
  <2>2. PICK c \in {[thread[t] EXCEPT !.scanned = i],
                    [thread[t] EXCEPT !.scanned = i, !.owned = @ \cup {i},
                                      !.frame = IF @ = Nic!NoSlot THEN i ELSE @]} :
          thread' = [thread EXCEPT ![t] = c] /\ (nal[i] = "application" \/ c.owned = thread[t].owned)
    BY <2>1 DEF Nic!ScanFrame, Nic!Call
  <2>3. c \in Nic!Call
    <3>1. [thread[t] EXCEPT !.scanned = i] \in Nic!Call
      BY <2>1 DEF Nic!Call
    <3>2. ASSUME NEW owned \in SUBSET Nic!Slot, NEW frame \in 0 .. SlotCount
          PROVE  [thread[t] EXCEPT !.scanned = i, !.owned = owned, !.frame = frame] \in Nic!Call
      BY <2>1 DEF Nic!Call
    <3>3. /\ thread[t].owned \cup {i} \in SUBSET Nic!Slot
          /\ (IF thread[t].frame = Nic!NoSlot THEN i ELSE thread[t].frame) \in 0 .. SlotCount
      BY <2>1, NicTypeFacts DEF Nic!Call
    <3> QED BY <2>2, <3>1, <3>2, <3>3
  <2>4. thread'[t] = c /\ thread' \in [Nic!Thread -> Nic!Call] /\ \A u \in Nic!Thread : u # t => thread'[u] = thread[u]
    BY <2>1, <2>2, <2>3
  <2>5. thread[t].at = "scan" /\ (thread[t].frame # Nic!NoSlot => thread[t].frame \in thread[t].owned)
    BY DEF Nic!ScanFrame, Nic!At, NicIInv, Exclusive, FrameIsOwned
  <2>6. /\ c.at = "scan" /\ c.packet = thread[t].packet
        /\ c.owned \in {thread[t].owned, thread[t].owned \cup {i}}
        /\ c.frame # Nic!NoSlot => c.frame \in c.owned
    BY <2>1, <2>2, <2>5 DEF Nic!Call
  <2> QED BY <2>2, <2>4, <2>5, <2>6
<1>3. Nic!TypeOK'
  BY <1>1, <1>2 DEF Nic!TypeOK
<1>4. Exclusive'
  BY <1>1, <1>2 DEF NicIInv, Exclusive, ScopeIsActive, ScopeIsAlone, FrameIsOwned,
     KindOfThread, ListenerIsOlder, Scope, Holding, Filling, Listening
<1>5. Found'
  BY <1>1, <1>2 DEF NicIInv, Found, OwnedIsApplication, PoolIsQuiet, QueueIsHarmless,
     FrameIsNewest, Holding, Filling, Pending
<1>6. Recorded'
  BY <1>1, <1>2 DEF NicIInv, Recorded, NumbersAreUnique, HandedIsRecorded, RecordIsTrue,
     Handed, HandedBy
<1>7. Ordered'
  BY <1>1, <1>2 DEF NicIInv, Ordered
<1>8. Trusted'
  BY <1>1, <1>2 DEF NicIInv, Trusted, ObservedIsSent, ResponseIsAwaited, AwaitedIsOne,
     ListenerIsAwaited, WitnessIsLast, Handed, Listening, HandedBy, Pending, Awaited,
     Nic!Relevant
<1> QED BY <1>3, <1>4, <1>5, <1>6, <1>7, <1>8 DEF NicIInv

(* A call that passes leaves nothing in the pool that may still be sent    *)
(* after it, except probes.                                                *)
LEMMA JudgeKeeps ==
  ASSUME NicIInv, NEW t \in Nic!Thread, Nic!Judge(t)
  PROVE  NicIInv'
<1> Nic!TypeOK
  BY DEF NicIInv
<1>1. UNCHANGED <<m_idx, buffer, filled, nal, newest, responses>>
  BY DEF Nic!Judge, Nic!pool, Nic!network
<1>2. /\ thread[t].at = "scan"
      /\ \A i \in Nic!Slot : i \in thread[t].owned => slots'[i] = Nic!Available
      /\ \A i \in Nic!Slot : i \notin thread[t].owned => slots'[i] = slots[i]
      /\ \A i \in thread[t].owned : Nic!Relevant(slots[i].kind) /\ Pending(i) => tainted'
      /\ tainted => tainted'
      /\ \/ thread'[t].at = "idle" /\ thread'[t].owned = {} /\ thread'[t].frame = Nic!NoSlot
              /\ active' = 0
         \/ /\ thread'[t].at = "copy" /\ active' = active /\ thread[t].frame # Nic!NoSlot
            /\ thread'[t].packet = thread[t].packet
            /\ thread'[t].owned = thread[t].owned /\ thread'[t].frame = thread[t].frame
            /\ \A i \in Nic!Slot : ~Nic!Blocks(slots'[i], tainted', thread[t].packet.kind)
      /\ \A u \in Nic!Thread : u # t => thread'[u] = thread[u]
      /\ thread' \in [Nic!Thread -> Nic!Call]
  BY GotoFacts, LeaveFacts DEF Nic!Judge, Nic!ObserveApplicationOwnership, Nic!At,
     Nic!Label, Pending
<1>3. Nic!TypeOK'
  <2>1. slots' \in [Nic!Slot -> Nic!Record] /\ tainted' \in BOOLEAN
    BY IdleTyped DEF Nic!Judge, Nic!ObserveApplicationOwnership, Nic!TypeOK
  <2>2. active' \in 0 .. 1
    BY <1>2 DEF Nic!TypeOK
  <2> QED BY <1>1, <1>2, <2>1, <2>2 DEF Nic!TypeOK
<1>4. /\ \A u \in Nic!Thread : thread[u].at \in Scope => u = t
      /\ \A i \in thread[t].owned : nal[i] = "application"
      /\ \A i \in Nic!Slot : ~\E u \in Nic!Thread : HandedBy(u, i)
      /\ Nic!Available.state = "Available" /\ Nic!Available.number = 0
  BY <1>2 DEF NicIInv, Exclusive, Found, ScopeIsAlone, OwnedIsApplication, Scope,
     Handed, HandedBy, Nic!Available
<1>5. Exclusive'
  BY <1>1, <1>2, <1>4 DEF NicIInv, Exclusive, ScopeIsActive, ScopeIsAlone, FrameIsOwned,
     KindOfThread, ListenerIsOlder, Scope, Holding, Filling, Listening
<1>6. Found'
  <2>1. OwnedIsApplication'
    BY <1>1, <1>2, <1>4 DEF NicIInv, Found, OwnedIsApplication
  <2>2. PoolIsQuiet'
    BY <1>1, <1>2, <1>4, NicTypeFacts DEF NicIInv, Found, PoolIsQuiet, Holding, Pending,
       Nic!Blocks
  <2>3. QueueIsHarmless'
    <3> SUFFICES ASSUME NEW u \in Nic!Thread, thread'[u].at \in {"copy", "transmit"},
                        NEW i \in Nic!Slot, nal[i] = "queued"
                 PROVE  buffer[i].kind = "probe"
      BY <1>1 DEF QueueIsHarmless
    <3>1. ~Nic!Blocks(slots'[i], tainted', thread[t].packet.kind)
      BY <1>2, <1>4 DEF Scope
    <3>2. i \notin thread[t].owned /\ slots'[i] = slots[i] /\ slots[i].state # "Available"
      BY <1>2, <1>4 DEF NicIInv, Recorded, HandedIsRecorded
    <3>3. slots[i].state \in {"AcceptedPendingResponse", "AcceptedResponseObserved", "Uncertain"}
      BY <3>2 DEF Nic!TypeOK, Nic!Record
    <3>4. slots[i].state = "AcceptedResponseObserved" => tainted'
      BY <1>2 DEF NicIInv, Trusted, ObservedIsSent
    <3>5. slots[i].kind = "probe"
      BY <3>1, <3>2, <3>3, <3>4 DEF Nic!Blocks
    <3> QED BY <3>2, <3>5 DEF NicIInv, Recorded, RecordIsTrue
  <2>4. FrameIsNewest'
    BY <1>1, <1>2, <1>4 DEF NicIInv, Found, FrameIsNewest, Filling
  <2> QED BY <2>1, <2>2, <2>3, <2>4 DEF Found
<1>7. Recorded'
  BY <1>1, <1>2, <1>4 DEF NicIInv, Recorded, NumbersAreUnique, HandedIsRecorded,
     RecordIsTrue, Handed, HandedBy
<1>8. Ordered'
  BY <1>1, <1>2, <1>4 DEF NicIInv, Ordered
<1>9. Trusted'
  <2>1. \A r \in responses' : Nic!Relevant(r.kind)
    BY <1>1, <1>2, <1>4 DEF NicIInv, Trusted, Nic!Relevant
  <2>2. ~tainted' => ObservedIsSent'
    BY <1>1, <1>2, <1>4 DEF NicIInv, Trusted, ObservedIsSent
  <2>3. ~tainted' => ResponseIsAwaited'
    <3> SUFFICES ASSUME ~tainted', NEW r \in responses
                 PROVE  \E i \in Nic!Slot : buffer[i] = r /\ nal[i] # "queued" /\ Pending(i)'
      BY <1>1 DEF ResponseIsAwaited, Awaited
    <3>1. PICK i \in Nic!Slot : buffer[i] = r /\ nal[i] # "queued" /\ Awaited(i)
      BY <1>2 DEF NicIInv, Trusted, ResponseIsAwaited
    <3>2. Pending(i) /\ Nic!Relevant(slots[i].kind)
      BY <1>4, <3>1 DEF NicIInv, Recorded, Trusted, RecordIsTrue, Pending, Awaited
    <3> QED BY <1>2, <3>1, <3>2 DEF Pending
  <2>4. ~tainted' => AwaitedIsOne'
    BY <1>1, <1>2, <1>4 DEF NicIInv, Trusted, AwaitedIsOne, Handed, HandedBy, Pending,
       Awaited
  <2>5. ~tainted' => ListenerIsAwaited'
    <3> SUFFICES ASSUME ~tainted', NEW u \in Nic!Thread, thread'[u].at \in Listening
                 PROVE  \E i \in Nic!Slot : /\ Pending(i)' /\ slots'[i].number = thread'[u].packet.number
                                            /\ slots'[i].kind = "cyclic"
                                            /\ thread'[u].at = "witness" => nal[i] # "queued"
      BY <1>1 DEF ListenerIsAwaited
    <3>1. u # t /\ thread'[u] = thread[u]
      BY <1>2 DEF Listening
    <3>2. PICK i \in Nic!Slot : /\ Pending(i) /\ slots[i].number = thread[u].packet.number
                                /\ slots[i].kind = "cyclic"
                                /\ thread[u].at = "witness" => nal[i] # "queued"
      BY <1>2, <3>1 DEF NicIInv, Trusted, ListenerIsAwaited
    <3>3. Nic!Relevant(slots[i].kind)
      BY <3>2 DEF Nic!Relevant
    <3>4. i \notin thread[t].owned
      BY <1>2, <3>2, <3>3
    <3>5. slots'[i] = slots[i]
      BY <1>2, <3>4
    <3> QED BY <3>1, <3>2, <3>5 DEF Pending
  <2>6. ~tainted' => WitnessIsLast'
    BY <1>1, <1>2, <1>4 DEF NicIInv, Trusted, WitnessIsLast
  <2> QED BY <2>1, <2>2, <2>3, <2>4, <2>5, <2>6 DEF Trusted
<1> QED BY <1>3, <1>5, <1>6, <1>7, <1>8, <1>9 DEF NicIInv

(* The frame to be filled is nobody else's, and its number is new. *)
LEMMA CopyPacketKeeps ==
  ASSUME NicIInv, NEW t \in Nic!Thread, Nic!CopyPacket(t)
  PROVE  NicIInv'
<1> Nic!TypeOK
  BY DEF NicIInv
<1>1. UNCHANGED <<active, m_idx, slots, tainted, nal, newest, responses>>
  BY DEF Nic!CopyPacket, Nic!pool, Nic!network
<1>2. /\ thread[t].at = "copy" /\ thread'[t].at = "transmit" /\ filled' = filled + 1
      /\ thread'[t].packet.number = filled + 1
      /\ thread'[t].packet.kind = thread[t].packet.kind
      /\ buffer'[thread[t].frame] = thread'[t].packet
      /\ \A i \in Nic!Slot : i # thread[t].frame => buffer'[i] = buffer[i]
      /\ buffer' \in [Nic!Slot -> Nic!Packet] /\ filled' \in 0 .. MaxFrames
      /\ thread'[t].owned = thread[t].owned /\ thread'[t].frame = thread[t].frame
      /\ \A u \in Nic!Thread : u # t => thread'[u] = thread[u]
      /\ thread' \in [Nic!Thread -> Nic!Call]
  <2> DEFINE packet == [thread[t].packet EXCEPT !.number = filled + 1]
  <2>1. /\ thread[t] \in Nic!Call /\ thread \in [Nic!Thread -> Nic!Call]
        /\ thread[t].packet \in Nic!Packet
        /\ thread[t].at = "copy" /\ buffer \in [Nic!Slot -> Nic!Packet]
        /\ filled' = filled + 1 /\ filled' \in 0 .. MaxFrames
    BY NicAssumption DEF Nic!TypeOK, Nic!Call, Nic!CopyPacket, Nic!At
  <2>2. thread[t].frame \in Nic!Slot
    BY <2>1, HolderFacts DEF Holding
  <2>3. packet \in Nic!Packet /\ packet.number = filled + 1 /\ packet.kind = thread[t].packet.kind
    BY <2>1 DEF Nic!Packet
  <2>4. /\ buffer' = [buffer EXCEPT ![thread[t].frame] = packet]
        /\ thread' = [thread EXCEPT ![t].at = "transmit", ![t].packet.number = filled + 1]
    BY DEF Nic!CopyPacket
  <2>5. thread'[t] = [thread[t] EXCEPT !.at = "transmit", !.packet = packet]
    BY <2>1, <2>4 DEF Nic!Call, Nic!Packet
  <2> HIDE DEF packet
  <2>6. /\ thread'[t] \in Nic!Call /\ thread'[t].at = "transmit" /\ thread'[t].packet = packet
        /\ thread'[t].owned = thread[t].owned /\ thread'[t].frame = thread[t].frame
    BY <2>1, <2>3, <2>5 DEF Nic!Call, Nic!Label
  <2>7. thread' \in [Nic!Thread -> Nic!Call] /\ \A u \in Nic!Thread : u # t => thread'[u] = thread[u]
    BY <2>1, <2>4, <2>6
  <2> QED BY <2>1, <2>2, <2>3, <2>4, <2>6, <2>7
<1>3. Nic!TypeOK'
  BY <1>1, <1>2, NicTypeFacts DEF Nic!TypeOK
<1>4. /\ thread[t].frame \in Nic!Slot /\ slots[thread[t].frame].state = "Available"
      /\ thread[t].frame \in thread[t].owned /\ thread[t].frame # Nic!NoSlot
      /\ \A u \in Nic!Thread : thread[u].at \in Scope => u = t
      /\ nal[thread[t].frame] = "application"
  BY <1>2, HolderFacts DEF Holding, Handed
<1>5. Exclusive'
  BY <1>1, <1>2, <1>4, NicTypeFacts DEF NicIInv, Exclusive, ScopeIsActive, ScopeIsAlone,
     FrameIsOwned, KindOfThread, ListenerIsOlder, Scope, Holding, Filling, Listening
<1>6. Found'
  <2>1. OwnedIsApplication'
    BY <1>1, <1>2, <1>4 DEF NicIInv, Found, OwnedIsApplication
  <2>2. PoolIsQuiet'
    BY <1>1, <1>2, <1>4 DEF NicIInv, Found, PoolIsQuiet, Holding, Pending
  <2>3. QueueIsHarmless'
    BY <1>1, <1>2, <1>4 DEF NicIInv, Found, QueueIsHarmless
  <2>4. FrameIsNewest'
    BY <1>1, <1>2, <1>4, NicTypeFacts DEF NicIInv, Found, FrameIsNewest, Scope, Holding,
       Filling, Handed, Listening, HandedBy, Pending, Awaited, Nic!NoSlot
  <2> QED BY <2>1, <2>2, <2>3, <2>4 DEF Found
<1>7. Recorded'
  BY <1>1, <1>2, <1>4, NicTypeFacts DEF NicIInv, Recorded, NumbersAreUnique,
     HandedIsRecorded, RecordIsTrue, Handed, HandedBy
<1>8. Ordered'
  BY <1>1, <1>2, <1>4 DEF NicIInv, Ordered
<1>9. Trusted'
  <2>1. \A r \in responses' : Nic!Relevant(r.kind)
    BY <1>1, <1>2, <1>4 DEF NicIInv, Trusted, Nic!Relevant
  <2>2. ~tainted' => ObservedIsSent'
    BY <1>1, <1>2, <1>4 DEF NicIInv, Trusted, ObservedIsSent
  <2>3. ~tainted' => ResponseIsAwaited'
    BY <1>1, <1>2, <1>4, NicTypeFacts DEF NicIInv, Trusted, ResponseIsAwaited, Scope,
       Holding, Filling, Handed, Listening, HandedBy, Pending, Awaited, Nic!NoSlot
  <2>4. ~tainted' => AwaitedIsOne'
    BY <1>1, <1>2, <1>4, NicTypeFacts DEF NicIInv, Recorded, Trusted, RecordIsTrue,
       AwaitedIsOne, Scope, Holding, Filling, Handed, Listening, HandedBy, Pending,
       Awaited, Nic!NoSlot
  <2>5. ~tainted' => ListenerIsAwaited'
    BY <1>1, <1>2, <1>4 DEF NicIInv, Trusted, ListenerIsAwaited, Listening, Pending
  <2>6. ~tainted' => WitnessIsLast'
    BY <1>1, <1>2, <1>4 DEF NicIInv, Trusted, WitnessIsLast
  <2> QED BY <2>1, <2>2, <2>3, <2>4, <2>5, <2>6 DEF Trusted
<1> QED BY <1>3, <1>5, <1>6, <1>7, <1>8, <1>9 DEF NicIInv

(* The frame handed over is newer than everything queued or sent. *)
LEMMA TransmitKeeps ==
  ASSUME NicIInv, NEW t \in Nic!Thread, Nic!Transmit(t)
  PROVE  NicIInv'
<1> Nic!TypeOK
  BY DEF NicIInv
<1>1. UNCHANGED <<active, m_idx, slots, tainted, buffer, filled, newest, responses>>
  BY DEF Nic!Transmit, Nic!pool, Nic!network
<1>2. /\ thread[t].at = "transmit" /\ thread'[t].at \in Handed
      /\ nal'[thread[t].frame] \in {nal[thread[t].frame], "queued"}
      /\ \A i \in Nic!Slot : i # thread[t].frame => nal'[i] = nal[i]
      /\ nal' \in [Nic!Slot -> {"application", "queued", "sent"}]
      /\ thread'[t].packet = thread[t].packet
      /\ thread'[t].owned = thread[t].owned /\ thread'[t].frame = thread[t].frame
      /\ \A u \in Nic!Thread : u # t => thread'[u] = thread[u]
      /\ thread' \in [Nic!Thread -> Nic!Call]
  <2>1. PICK accepted \in BOOLEAN, taken \in BOOLEAN :
          /\ nal' = [nal EXCEPT ![thread[t].frame] = IF taken THEN "queued" ELSE @]
          /\ Nic!Goto(t, IF accepted THEN "accepted" ELSE "uncertain")
    BY DEF Nic!Transmit
  <2>2. thread[t].at = "transmit" /\ nal \in [Nic!Slot -> {"application", "queued", "sent"}]
    BY DEF Nic!Transmit, Nic!At, Nic!TypeOK
  <2>3. thread[t].frame \in Nic!Slot
    BY <2>2, HolderFacts DEF Holding
  <2>4. PICK label \in Handed : Nic!Goto(t, label)
    BY <2>1 DEF Handed
  <2>5. label \in Nic!Label
    BY DEF Handed, Nic!Label
  <2>6. /\ thread'[t].at \in Handed
        /\ thread'[t].packet = thread[t].packet
        /\ thread'[t].owned = thread[t].owned /\ thread'[t].frame = thread[t].frame
        /\ \A u \in Nic!Thread : u # t => thread'[u] = thread[u]
        /\ thread' \in [Nic!Thread -> Nic!Call]
    BY <2>4, <2>5, GotoFacts
  <2>7. /\ nal'[thread[t].frame] \in {nal[thread[t].frame], "queued"}
        /\ \A i \in Nic!Slot : i # thread[t].frame => nal'[i] = nal[i]
        /\ nal' \in [Nic!Slot -> {"application", "queued", "sent"}]
    BY <2>1, <2>2, <2>3
  <2> QED BY <2>2, <2>6, <2>7
<1>3. Nic!TypeOK'
  BY <1>1, <1>2 DEF Nic!TypeOK
<1>4. /\ thread[t].frame \in Nic!Slot /\ slots[thread[t].frame].state = "Available"
      /\ thread[t].frame \in thread[t].owned /\ thread[t].frame # Nic!NoSlot
      /\ \A u \in Nic!Thread : thread[u].at \in Scope => u = t
      /\ nal[thread[t].frame] = "application"
      /\ thread'[t].at \notin {"copy", "transmit"}
  BY <1>2, HolderFacts DEF Holding, Handed
<1>5. Exclusive'
  <2>1. ScopeIsActive'
    BY <1>1, <1>2, <1>4 DEF NicIInv, Exclusive, ScopeIsActive, Scope
  <2>2. ScopeIsAlone'
    BY <1>1, <1>2, <1>4 DEF NicIInv, Exclusive, ScopeIsAlone, Scope
  <2>3. FrameIsOwned'
    BY <1>1, <1>2, <1>4, NicTypeFacts DEF NicIInv, Exclusive, FrameIsOwned, Holding, Handed
  <2>4. KindOfThread'
    BY <1>1, <1>2, <1>4 DEF NicIInv, Exclusive, KindOfThread
  <2>5. ListenerIsOlder'
    BY <1>1, <1>2, <1>4, NicTypeFacts DEF NicIInv, Exclusive, ListenerIsOlder, Filling,
       Handed, Listening
  <2> QED BY <2>1, <2>2, <2>3, <2>4, <2>5 DEF Exclusive
<1>6. Found'
  <2>1. OwnedIsApplication'
    BY <1>1, <1>2, <1>4, NicTypeFacts DEF NicIInv, Found, OwnedIsApplication, Scope,
       Holding, Filling, Handed, Listening, HandedBy, Pending, Awaited, Nic!NoSlot
  <2>2. PoolIsQuiet'
    BY <1>1, <1>2, <1>4 DEF NicIInv, Found, PoolIsQuiet, Holding, Pending
  <2>3. QueueIsHarmless'
    BY <1>1, <1>2, <1>4, NicTypeFacts DEF NicIInv, Found, QueueIsHarmless, Scope, Holding,
       Filling, Handed, Listening, HandedBy, Pending, Awaited, Nic!NoSlot
  <2>4. FrameIsNewest'
    BY <1>1, <1>2, <1>4 DEF NicIInv, Found, FrameIsNewest, Filling
  <2> QED BY <2>1, <2>2, <2>3, <2>4 DEF Found
<1>7. Recorded'
  BY <1>1, <1>2, <1>4 DEF NicIInv, Recorded, NumbersAreUnique, HandedIsRecorded,
     RecordIsTrue, Handed, HandedBy
<1>8. Ordered'
  <2> SUFFICES ASSUME NEW j \in Nic!Slot, nal'[j] = "queued", buffer[j].kind # "probe"
               PROVE  /\ newest < buffer[j].number
                      /\ \A i \in Nic!Slot \ {j} : nal'[i] = "queued"
                           => buffer[i].number < buffer[j].number
    BY <1>1 DEF Ordered
  <2>1. j = thread[t].frame
    BY <1>2 DEF NicIInv, Found, QueueIsHarmless
  <2>2. buffer[j].number = filled /\ filled # 0 /\ newest < filled
    BY <1>2, <2>1 DEF NicIInv, Found, FrameIsNewest, Filling
  <2>3. ASSUME NEW i \in Nic!Slot \ {j} PROVE buffer[i].number < filled
    <3>1. buffer[i].number <= filled /\ buffer[i].number # filled
      BY <2>2 DEF NicIInv, Recorded, NumbersAreUnique
    <3> QED BY <3>1, NicTypeFacts
  <2> QED BY <2>2, <2>3
<1>9. Trusted'
  <2>1. \A r \in responses' : Nic!Relevant(r.kind)
    BY <1>1, <1>2, <1>4 DEF NicIInv, Trusted, Nic!Relevant
  <2>2. ~tainted' => ObservedIsSent'
    BY <1>1, <1>2, <1>4 DEF NicIInv, Trusted, ObservedIsSent
  <2>3. ~tainted' => ResponseIsAwaited'
    BY <1>1, <1>2, <1>4, NicTypeFacts DEF NicIInv, Trusted, ResponseIsAwaited, Scope,
       Holding, Filling, Handed, Listening, HandedBy, Pending, Awaited, Nic!NoSlot
  <2>4. ~tainted' => AwaitedIsOne'
    BY <1>1, <1>2, <1>4, NicTypeFacts DEF NicIInv, Found, Recorded, Trusted, PoolIsQuiet,
       RecordIsTrue, AwaitedIsOne, Scope, Holding, Filling, Handed, Listening,
       HandedBy, Pending, Awaited, Nic!NoSlot, Nic!Relevant
  <2>5. ~tainted' => ListenerIsAwaited'
    BY <1>1, <1>2, <1>4, NicTypeFacts DEF NicIInv, Found, Trusted, PoolIsQuiet,
       ListenerIsAwaited, Handed, Listening, Pending
  <2>6. ~tainted' => WitnessIsLast'
    BY <1>1, <1>2, <1>4, NicTypeFacts DEF NicIInv, Trusted, WitnessIsLast, Handed
  <2> QED BY <2>1, <2>2, <2>3, <2>4, <2>5, <2>6 DEF Trusted
<1> QED BY <1>3, <1>5, <1>6, <1>7, <1>8, <1>9 DEF NicIInv

(* What is recorded of the frame is what it holds. *)
LEMMA RecordInvocationKeeps ==
  ASSUME NicIInv, NEW t \in Nic!Thread, Nic!RecordInvocation(t)
  PROVE  NicIInv'
<1> Nic!TypeOK
  BY DEF NicIInv
<1>1. UNCHANGED <<m_idx, buffer, filled, nal, newest, responses>>
  BY DEF Nic!RecordInvocation, Nic!pool, Nic!network
<1>2. /\ thread[t].at \in Handed /\ active' = 0
      /\ slots'[thread[t].frame].number = thread[t].packet.number
      /\ slots'[thread[t].frame].kind = thread[t].packet.kind
      /\ \/ /\ thread[t].at = "accepted" /\ tainted' = tainted
            /\ slots'[thread[t].frame].state = "AcceptedPendingResponse"
         \/ /\ thread[t].at = "uncertain"
            /\ tainted' = (tainted \/ Nic!Relevant(thread[t].packet.kind))
            /\ slots'[thread[t].frame].state = "Uncertain"
      /\ \A i \in Nic!Slot : i # thread[t].frame => slots'[i] = slots[i]
      /\ slots' \in [Nic!Slot -> Nic!Record] /\ tainted' \in BOOLEAN
      /\ \/ /\ thread[t].at = "accepted" /\ thread[t].packet.kind = "cyclic"
            /\ thread'[t].at = "wait"
            /\ thread'[t].packet = thread[t].packet
            /\ thread'[t].owned = thread[t].owned /\ thread'[t].frame = thread[t].frame
         \/ /\ thread'[t].at = "idle"
            /\ thread'[t].owned = {} /\ thread'[t].frame = Nic!NoSlot
      /\ \A u \in Nic!Thread : u # t => thread'[u] = thread[u]
      /\ thread' \in [Nic!Thread -> Nic!Call]
  <2> DEFINE record == [state |-> IF Nic!At(t, "accepted") THEN "AcceptedPendingResponse" ELSE "Uncertain",
                        number |-> thread[t].packet.number, kind |-> thread[t].packet.kind]
  <2>1. thread[t].at \in Handed /\ thread[t] \in Nic!Call /\ slots \in [Nic!Slot -> Nic!Record]
    BY DEF Nic!RecordInvocation, Nic!At, Handed, Nic!TypeOK
  <2>2. thread[t].frame \in Nic!Slot
    BY <2>1, HolderFacts DEF Holding, Handed
  <2>3. record \in Nic!Record
    BY <2>1 DEF Nic!Record, Nic!Call, Nic!Packet
  <2>4. slots' = [slots EXCEPT ![thread[t].frame] = record]
    BY DEF Nic!RecordInvocation
  <2>5. /\ slots'[thread[t].frame] = record /\ slots' \in [Nic!Slot -> Nic!Record]
        /\ \A i \in Nic!Slot : i # thread[t].frame => slots'[i] = slots[i]
    BY <2>1, <2>2, <2>3, <2>4
  <2>6. active' = 0 /\ tainted' = (tainted \/ (Nic!Relevant(thread[t].packet.kind) /\ Nic!At(t, "uncertain")))
    BY DEF Nic!RecordInvocation
  <2>7. /\ \/ Nic!At(t, "accepted") /\ thread[t].packet.kind = "cyclic" /\ Nic!Goto(t, "wait")
           \/ Nic!Leave(t)
    BY DEF Nic!RecordInvocation
  <2>8. /\ \/ /\ thread[t].at = "accepted" /\ thread[t].packet.kind = "cyclic"
              /\ thread'[t].at = "wait"
              /\ thread'[t].packet = thread[t].packet
              /\ thread'[t].owned = thread[t].owned /\ thread'[t].frame = thread[t].frame
           \/ /\ thread'[t].at = "idle"
              /\ thread'[t].owned = {} /\ thread'[t].frame = Nic!NoSlot
        /\ \A u \in Nic!Thread : u # t => thread'[u] = thread[u]
        /\ thread' \in [Nic!Thread -> Nic!Call]
    BY <2>7, GotoFacts, LeaveFacts DEF Nic!At, Nic!Label
  <2>9. tainted' \in BOOLEAN
    BY <2>6 DEF Nic!Relevant, Nic!TypeOK
  <2>10. /\ slots'[thread[t].frame].number = thread[t].packet.number
         /\ slots'[thread[t].frame].kind = thread[t].packet.kind
         /\ \/ thread[t].at = "accepted" /\ record.state = "AcceptedPendingResponse"
            \/ thread[t].at = "uncertain" /\ record.state = "Uncertain"
    BY <2>1, <2>5 DEF Nic!At, Handed
  <2>11. \/ /\ thread[t].at = "accepted" /\ tainted' = tainted
            /\ slots'[thread[t].frame].state = "AcceptedPendingResponse"
         \/ /\ thread[t].at = "uncertain"
            /\ tainted' = (tainted \/ Nic!Relevant(thread[t].packet.kind))
            /\ slots'[thread[t].frame].state = "Uncertain"
    BY <2>5, <2>6, <2>10 DEF Nic!At, Nic!Relevant, Nic!TypeOK
  <2> QED BY <2>1, <2>5, <2>6, <2>8, <2>9, <2>10, <2>11
<1>3. Nic!TypeOK'
  BY <1>1, <1>2 DEF Nic!TypeOK
<1>4. /\ thread[t].frame \in Nic!Slot /\ slots[thread[t].frame].state = "Available"
      /\ thread[t].frame \in thread[t].owned /\ thread[t].frame # Nic!NoSlot
      /\ \A u \in Nic!Thread : thread[u].at \in Scope => u = t
      /\ buffer[thread[t].frame] = thread[t].packet
      /\ thread[t].packet.number = filled /\ filled # 0
  BY <1>2, HolderFacts DEF NicIInv, Found, FrameIsNewest, Holding, Filling, Handed
<1>5. Exclusive'
  BY <1>1, <1>2, <1>4, NicTypeFacts DEF NicIInv, Exclusive, ScopeIsActive, ScopeIsAlone,
     FrameIsOwned, KindOfThread, ListenerIsOlder, Scope, Holding, Filling, Listening
<1>6. Found'
  <2>1. OwnedIsApplication'
    BY <1>1, <1>2, <1>4 DEF NicIInv, Found, OwnedIsApplication
  <2>2. PoolIsQuiet'
    BY <1>1, <1>2, <1>4, NicTypeFacts DEF NicIInv, Found, PoolIsQuiet, Scope, Holding,
       Filling, Handed, Listening, HandedBy, Pending, Awaited, Nic!NoSlot
  <2>3. QueueIsHarmless'
    BY <1>1, <1>2, <1>4 DEF NicIInv, Found, QueueIsHarmless
  <2>4. FrameIsNewest'
    BY <1>1, <1>2, <1>4 DEF NicIInv, Found, FrameIsNewest, Filling
  <2> QED BY <2>1, <2>2, <2>3, <2>4 DEF Found
<1>7. Recorded'
  BY <1>1, <1>2, <1>4 DEF NicIInv, Recorded, NumbersAreUnique, HandedIsRecorded,
     RecordIsTrue, Handed, HandedBy
<1>8. Ordered'
  BY <1>1, <1>2, <1>4 DEF NicIInv, Ordered
<1>9. Trusted'
  BY <1>1, <1>2, <1>4 DEF NicIInv, Trusted, ObservedIsSent, ResponseIsAwaited,
     AwaitedIsOne, ListenerIsAwaited, WitnessIsLast, Handed, Listening, HandedBy,
     Pending, Awaited, Nic!Relevant
<1> QED BY <1>3, <1>5, <1>6, <1>7, <1>8, <1>9 DEF NicIInv

(* While responses are trusted, the answer that matches is the call's own. *)
LEMMA ReceiveMatchingKeeps ==
  ASSUME NicIInv, NEW t \in Nic!Thread, Nic!ReceiveMatching(t)
  PROVE  NicIInv'
<1> Nic!TypeOK
  BY DEF NicIInv
<1>1. UNCHANGED <<active, m_idx, slots, tainted, buffer, filled, nal, newest>>
  BY DEF Nic!ReceiveMatching, Nic!pool, Nic!network
<1>2. /\ thread[t].at = "wait" /\ thread'[t].at = "witness"
      /\ thread'[t].packet = thread[t].packet
      /\ thread'[t].owned = thread[t].owned /\ thread'[t].frame = thread[t].frame
      /\ \A u \in Nic!Thread : u # t => thread'[u] = thread[u]
      /\ thread' \in [Nic!Thread -> Nic!Call]
  BY GotoFacts DEF Nic!ReceiveMatching, Nic!At, Nic!Label
<1>3. Nic!TypeOK'
  <2>1. responses' \subseteq Nic!Packet
    BY DEF Nic!ReceiveMatching, Nic!TypeOK
  <2> QED BY <1>1, <1>2, <2>1 DEF Nic!TypeOK
<1>4. PICK answer \in responses : responses' = responses \ {answer}
  BY DEF Nic!ReceiveMatching
<1>5. ~tainted => \E i \in Nic!Slot :
        /\ Pending(i) /\ slots[i].number = thread[t].packet.number /\ slots[i].kind = "cyclic"
        /\ nal[i] # "queued" /\ buffer[i] = answer
  <2> SUFFICES ASSUME ~tainted
               PROVE  \E i \in Nic!Slot :
                        /\ Pending(i) /\ slots[i].number = thread[t].packet.number
                        /\ slots[i].kind = "cyclic" /\ nal[i] # "queued" /\ buffer[i] = answer
    OBVIOUS
  <2>1. PICK i \in Nic!Slot : /\ Pending(i) /\ slots[i].number = thread[t].packet.number
                              /\ slots[i].kind = "cyclic"
    BY <1>2 DEF NicIInv, Trusted, ListenerIsAwaited, Listening
  <2>2. PICK j \in Nic!Slot : buffer[j] = answer /\ nal[j] # "queued" /\ Awaited(j)
    BY DEF NicIInv, Trusted, ResponseIsAwaited
  <2>3. Nic!Relevant(buffer[j].kind)
    BY <2>2 DEF NicIInv, Trusted
  <2>4. Awaited(i) /\ Nic!Relevant(buffer[i].kind)
    BY <2>1 DEF NicIInv, Recorded, RecordIsTrue, Pending, Awaited, Nic!Relevant
  <2>5. i = j
    BY <2>2, <2>3, <2>4 DEF NicIInv, Trusted, AwaitedIsOne
  <2> QED BY <2>1, <2>2, <2>5
<1>6. Exclusive'
  BY <1>1, <1>2, <1>4 DEF NicIInv, Exclusive, ScopeIsActive, ScopeIsAlone, FrameIsOwned,
     KindOfThread, ListenerIsOlder, Scope, Holding, Filling, Listening
<1>7. Found'
  BY <1>1, <1>2, <1>4 DEF NicIInv, Found, OwnedIsApplication, PoolIsQuiet,
     QueueIsHarmless, FrameIsNewest, Holding, Filling, Pending
<1>8. Recorded'
  BY <1>1, <1>2, <1>4 DEF NicIInv, Recorded, NumbersAreUnique, HandedIsRecorded,
     RecordIsTrue, Handed, HandedBy
<1>9. Ordered'
  BY <1>1, <1>2, <1>4 DEF NicIInv, Ordered
<1>10. Trusted'
  <2>1. \A r \in responses' : Nic!Relevant(r.kind)
    BY <1>1, <1>2, <1>4 DEF NicIInv, Trusted, Nic!Relevant
  <2>2. ~tainted' => ObservedIsSent'
    BY <1>1, <1>2, <1>4 DEF NicIInv, Trusted, ObservedIsSent
  <2>3. ~tainted' => ResponseIsAwaited'
    BY <1>1, <1>2, <1>4 DEF NicIInv, Trusted, ResponseIsAwaited, Handed, HandedBy,
       Pending, Awaited
  <2>4. ~tainted' => AwaitedIsOne'
    BY <1>1, <1>2, <1>4 DEF NicIInv, Trusted, AwaitedIsOne, Handed, HandedBy, Pending,
       Awaited
  <2>5. ~tainted' => ListenerIsAwaited'
    <3> SUFFICES ASSUME ~tainted', NEW u \in Nic!Thread, thread'[u].at \in Listening
                 PROVE  \E i \in Nic!Slot : /\ Pending(i) /\ slots[i].number = thread'[u].packet.number
                                            /\ slots[i].kind = "cyclic"
                                            /\ thread'[u].at = "witness" => nal[i] # "queued"
      BY <1>1 DEF ListenerIsAwaited, Pending
    <3>1. CASE u # t
      BY <1>1, <1>2, <3>1 DEF NicIInv, Trusted, ListenerIsAwaited
    <3>2. CASE u = t
      <4>1. PICK i \in Nic!Slot : /\ Pending(i) /\ slots[i].number = thread[t].packet.number
                                  /\ slots[i].kind = "cyclic" /\ nal[i] # "queued"
        BY <1>1, <1>5, NicTypeFacts
      <4> QED BY <1>2, <3>2, <4>1
    <3> QED BY <3>1, <3>2
  <2>6. ~tainted' => WitnessIsLast'
    <3> SUFFICES ASSUME ~tainted', NEW u \in Nic!Thread, thread'[u].at = "witness", NEW r \in responses'
                 PROVE  r.number # thread'[u].packet.number
      BY <1>1 DEF WitnessIsLast
    <3>1. r \in responses /\ r # answer
      BY <1>4
    <3>2. CASE u # t
      BY <1>1, <1>2, <3>1, <3>2 DEF NicIInv, Trusted, WitnessIsLast
    <3>3. CASE u = t
      <4>1. PICK i \in Nic!Slot : /\ slots[i].number = thread[t].packet.number /\ Pending(i)
                                  /\ buffer[i] = answer
        BY <1>1, <1>5, NicTypeFacts
      <4>2. buffer[i].number = thread[t].packet.number /\ buffer[i].number # 0
        BY <4>1 DEF NicIInv, Recorded, RecordIsTrue, Pending
      <4>3. PICK j \in Nic!Slot : buffer[j] = r
        BY <1>1, <3>1 DEF NicIInv, Trusted, ResponseIsAwaited
      <4>4. buffer[j].number # buffer[i].number
        BY <3>1, <4>1, <4>2, <4>3 DEF NicIInv, Recorded, NumbersAreUnique
      <4> QED BY <1>2, <3>3, <4>2, <4>3, <4>4
    <3> QED BY <3>2, <3>3
  <2> QED BY <2>1, <2>2, <2>3, <2>4, <2>5, <2>6 DEF Trusted
<1> QED BY <1>3, <1>6, <1>7, <1>8, <1>9, <1>10 DEF NicIInv

(* A call that gives up leaves its record behind. *)
LEMMA GiveUpKeeps ==
  ASSUME NicIInv, NEW t \in Nic!Thread, Nic!GiveUp(t)
  PROVE  NicIInv'
<1> Nic!TypeOK
  BY DEF NicIInv
<1>1. UNCHANGED <<active, m_idx, slots, tainted, buffer, filled, nal, newest, responses>>
  BY DEF Nic!GiveUp, Nic!pool, Nic!network
<1>2. /\ thread[t].at = "wait"
      /\ thread'[t].at = "idle" /\ thread'[t].owned = {} /\ thread'[t].frame = Nic!NoSlot
      /\ \A u \in Nic!Thread : u # t => thread'[u] = thread[u]
      /\ thread' \in [Nic!Thread -> Nic!Call]
  BY LeaveFacts DEF Nic!GiveUp, Nic!At
<1>3. Nic!TypeOK'
  BY <1>1, <1>2 DEF Nic!TypeOK
<1>4. Exclusive'
  BY <1>1, <1>2 DEF NicIInv, Exclusive, ScopeIsActive, ScopeIsAlone, FrameIsOwned,
     KindOfThread, ListenerIsOlder, Scope, Holding, Filling, Listening
<1>5. Found'
  BY <1>1, <1>2 DEF NicIInv, Found, OwnedIsApplication, PoolIsQuiet, QueueIsHarmless,
     FrameIsNewest, Holding, Filling, Pending
<1>6. Recorded'
  BY <1>1, <1>2 DEF NicIInv, Recorded, NumbersAreUnique, HandedIsRecorded, RecordIsTrue,
     Handed, HandedBy
<1>7. Ordered'
  BY <1>1, <1>2 DEF NicIInv, Ordered
<1>8. Trusted'
  BY <1>1, <1>2 DEF NicIInv, Trusted, ObservedIsSent, ResponseIsAwaited, AwaitedIsOne,
     ListenerIsAwaited, WitnessIsLast, Handed, Listening, HandedBy, Pending, Awaited,
     Nic!Relevant
<1> QED BY <1>3, <1>4, <1>5, <1>6, <1>7, <1>8 DEF NicIInv

(* Only the image that was answered is taken for sent. *)
LEMMA ObserveValidatedResponseKeeps ==
  ASSUME NicIInv, NEW t \in Nic!Thread, Nic!ObserveValidatedResponse(t)
  PROVE  NicIInv'
<1> Nic!TypeOK
  BY DEF NicIInv
<1>1. UNCHANGED <<active, m_idx, tainted, buffer, filled, nal, newest, responses>>
  BY DEF Nic!ObserveValidatedResponse, Nic!pool, Nic!network
<1>2. /\ thread[t].at = "witness"
      /\ \A i \in Nic!Slot : slots'[i].number = slots[i].number /\ slots'[i].kind = slots[i].kind
      /\ \A i \in Nic!Slot : \/ slots'[i].state = slots[i].state
                              \/ /\ active = 0 /\ slots[i].number = thread[t].packet.number
                                 /\ Pending(i) /\ slots'[i].state = "AcceptedResponseObserved"
      /\ slots' \in [Nic!Slot -> Nic!Record]
      /\ thread'[t].at = "idle" /\ thread'[t].owned = {} /\ thread'[t].frame = Nic!NoSlot
      /\ \A u \in Nic!Thread : u # t => thread'[u] = thread[u]
      /\ thread' \in [Nic!Thread -> Nic!Call]
  <2>1. ASSUME NEW i \in Nic!Slot
        PROVE  /\ slots'[i] \in Nic!Record
               /\ slots'[i].number = slots[i].number /\ slots'[i].kind = slots[i].kind
               /\ \/ slots'[i].state = slots[i].state
                  \/ /\ active = 0 /\ slots[i].number = thread[t].packet.number
                     /\ Pending(i) /\ slots'[i].state = "AcceptedResponseObserved"
    <3>1. slots[i] \in Nic!Record
      BY DEF Nic!TypeOK
    <3>2. \/ slots'[i] = slots[i]
          \/ /\ active = 0 /\ slots[i].number = thread[t].packet.number /\ Pending(i)
             /\ slots'[i] = [slots[i] EXCEPT !.state = "AcceptedResponseObserved"]
      BY DEF Nic!ObserveValidatedResponse, Pending
    <3> QED BY <3>1, <3>2 DEF Nic!Record
  <2>2. slots' \in [Nic!Slot -> Nic!Record]
    BY <2>1 DEF Nic!ObserveValidatedResponse
  <2> QED BY <2>1, <2>2, LeaveFacts DEF Nic!ObserveValidatedResponse, Nic!At
<1>3. Nic!TypeOK'
  BY <1>1, <1>2 DEF Nic!TypeOK
<1>4. Exclusive'
  BY <1>1, <1>2 DEF NicIInv, Exclusive, ScopeIsActive, ScopeIsAlone, FrameIsOwned,
     KindOfThread, ListenerIsOlder, Scope, Holding, Filling, Listening
<1>5. Found'
  BY <1>1, <1>2, NicTypeFacts DEF NicIInv, Found, OwnedIsApplication, PoolIsQuiet,
     QueueIsHarmless, FrameIsNewest, Holding, Filling, Pending
<1>6. Recorded'
  <2>1. NumbersAreUnique'
    BY <1>1, <1>2 DEF NicIInv, Recorded, NumbersAreUnique
  <2>2. HandedIsRecorded'
    BY <1>1, <1>2 DEF NicIInv, Recorded, HandedIsRecorded, Handed, HandedBy
  <2>3. RecordIsTrue'
    BY <1>1, <1>2, NicTypeFacts DEF NicIInv, Recorded, RecordIsTrue, Scope, Holding,
       Filling, Handed, Listening, HandedBy, Pending, Awaited, Nic!NoSlot
  <2> QED BY <2>1, <2>2, <2>3 DEF Recorded
<1>7. Ordered'
  BY <1>1, <1>2 DEF NicIInv, Ordered
<1>8. Trusted'
  <2>1. \A r \in responses' : Nic!Relevant(r.kind)
    BY <1>1, <1>2 DEF NicIInv, Trusted, Nic!Relevant
  <2>2. ~tainted' => ObservedIsSent'
    <3> SUFFICES ASSUME ~tainted', NEW i \in Nic!Slot, slots'[i].state = "AcceptedResponseObserved"
                 PROVE  nal[i] # "queued"
      BY <1>1 DEF ObservedIsSent
    <3>1. CASE slots[i].state = "AcceptedResponseObserved"
      BY <1>1, <3>1 DEF NicIInv, Trusted, ObservedIsSent
    <3>2. CASE slots[i].number = thread[t].packet.number /\ Pending(i)
      <4>1. PICK j \in Nic!Slot : Pending(j) /\ slots[j].number = thread[t].packet.number /\ nal[j] # "queued"
        BY <1>1, <1>2 DEF NicIInv, Trusted, ListenerIsAwaited, Listening
      <4>2. buffer[i].number = buffer[j].number /\ buffer[i].number # 0
        BY <3>2, <4>1 DEF NicIInv, Recorded, RecordIsTrue, Pending
      <4> QED BY <4>1, <4>2 DEF NicIInv, Recorded, NumbersAreUnique
    <3> QED BY <1>2, <3>1, <3>2
  <2>3. ~tainted' => ResponseIsAwaited'
    <3> SUFFICES ASSUME ~tainted', NEW r \in responses
                 PROVE  \E i \in Nic!Slot : buffer[i] = r /\ nal[i] # "queued" /\ Awaited(i)'
      BY <1>1 DEF ResponseIsAwaited
    <3>1. PICK i \in Nic!Slot : buffer[i] = r /\ nal[i] # "queued" /\ Awaited(i)
      BY <1>1 DEF NicIInv, Trusted, ResponseIsAwaited
    <3>2. CASE Pending(i)
      <4>1. slots[i].number # thread[t].packet.number
        BY <1>1, <1>2, <3>1, <3>2 DEF NicIInv, Recorded, Trusted, RecordIsTrue,
           WitnessIsLast, Pending
      <4> QED BY <1>2, <3>1, <3>2, <4>1 DEF Awaited, Pending
    <3>3. CASE \E u \in Nic!Thread : HandedBy(u, i)
      <4>1. PICK u \in Nic!Thread : HandedBy(u, i)
        BY <3>3
      <4>2. u # t /\ thread'[u] = thread[u]
        BY <1>2, <4>1 DEF HandedBy, Handed
      <4> QED BY <3>1, <4>1, <4>2 DEF Awaited, HandedBy
    <3> QED BY <3>1, <3>2, <3>3 DEF Awaited
  <2>4. ~tainted' => AwaitedIsOne'
    BY <1>1, <1>2 DEF NicIInv, Trusted, AwaitedIsOne, Handed, HandedBy, Pending, Awaited
  <2>5. ~tainted' => ListenerIsAwaited'
    <3>1. \A u \in Nic!Thread : thread[u].at \in Listening => "cyclic" \in Nic!Kinds(u)
      BY DEF NicIInv, Exclusive, KindOfThread, ListenerIsOlder, Listening
    <3>2. \A u \in Nic!Thread : thread[u].at \in Listening => u = t
      BY <1>2, <3>1, NicAssumption DEF Nic!Kinds, Nic!Thread, Listening
    <3> QED BY <1>1, <1>2, <3>2 DEF ListenerIsAwaited, Listening
  <2>6. ~tainted' => WitnessIsLast'
    BY <1>1, <1>2 DEF NicIInv, Trusted, WitnessIsLast
  <2> QED BY <2>1, <2>2, <2>3, <2>4, <2>5, <2>6 DEF Trusted
<1> QED BY <1>3, <1>4, <1>5, <1>6, <1>7, <1>8 DEF NicIInv

(* An LRW frame that is sent awaits an answer, or the answers are          *)
(* distrusted.                                                             *)
LEMMA NalSendsKeeps ==
  ASSUME NicIInv, NEW i \in Nic!Slot, Nic!NalSends(i)
  PROVE  NicIInv'
<1> Nic!TypeOK
  BY DEF NicIInv
<1>1. UNCHANGED <<active, m_idx, slots, tainted, buffer, filled, thread>>
  BY DEF Nic!NalSends, Nic!pool, Nic!network
<1>2. /\ nal[i] = "queued" /\ nal'[i] = "sent"
      /\ \A j \in Nic!Slot : j # i => nal'[j] = nal[j]
      /\ nal' \in [Nic!Slot -> {"application", "queued", "sent"}]
      /\ newest' \in {newest, buffer[i].number}
      /\ responses' \in {responses, responses \cup {buffer[i]}}
      /\ \A r \in responses' : r \in responses \/ (r = buffer[i] /\ Nic!Relevant(r.kind))
  BY DEF Nic!NalSends, Nic!TypeOK
<1>3. Nic!TypeOK'
  <2>1. newest' \in 0 .. filled
    BY <1>2, NicTypeFacts DEF NicIInv, Recorded, NumbersAreUnique
  <2> QED BY <1>1, <1>2, <2>1 DEF Nic!TypeOK
<1>4. Exclusive'
  BY <1>1, <1>2 DEF NicIInv, Exclusive, ScopeIsActive, ScopeIsAlone, FrameIsOwned,
     KindOfThread, ListenerIsOlder, Scope, Holding, Filling, Listening
<1>5. Found'
  <2>1. OwnedIsApplication'
    BY <1>1, <1>2, NicTypeFacts DEF NicIInv, Found, OwnedIsApplication
  <2>2. PoolIsQuiet'
    BY <1>1, <1>2 DEF NicIInv, Found, PoolIsQuiet, Holding, Pending
  <2>3. QueueIsHarmless'
    BY <1>1, <1>2 DEF NicIInv, Found, QueueIsHarmless
  <2>4. FrameIsNewest'
    <3> SUFFICES ASSUME NEW t \in Nic!Thread, thread[t].at \in Filling
                 PROVE  /\ buffer[thread[t].frame] = thread[t].packet
                        /\ thread[t].packet.number = filled /\ filled # 0
                        /\ thread[t].at = "transmit" => newest' < filled
      BY <1>1 DEF FrameIsNewest
    <3>1. /\ buffer[thread[t].frame] = thread[t].packet /\ thread[t].packet.number = filled
          /\ filled # 0
          /\ thread[t].at = "transmit" => newest < filled
      BY DEF NicIInv, Found, FrameIsNewest
    <3>2. ASSUME thread[t].at = "transmit" PROVE newest' < filled
      <4>1. thread[t].frame \in Nic!Slot /\ i # thread[t].frame
        BY <1>2, <3>2, HolderFacts DEF Holding
      <4>2. buffer[i].number <= filled /\ buffer[i].number # filled
        BY <3>1, <4>1 DEF NicIInv, Recorded, NumbersAreUnique
      <4> QED BY <1>2, <3>1, <3>2, <4>2, NicTypeFacts
    <3> QED BY <3>1, <3>2
  <2> QED BY <2>1, <2>2, <2>3, <2>4 DEF Found
<1>6. Recorded'
  BY <1>1, <1>2 DEF NicIInv, Recorded, NumbersAreUnique, HandedIsRecorded, RecordIsTrue,
     Handed, HandedBy
<1>7. Ordered'
  BY <1>1, <1>2 DEF NicIInv, Ordered
<1>8. Trusted'
  <2>1. \A r \in responses' : Nic!Relevant(r.kind)
    BY <1>1, <1>2 DEF NicIInv, Trusted, Nic!Relevant
  <2>2. ~tainted' => ObservedIsSent'
    BY <1>1, <1>2 DEF NicIInv, Trusted, ObservedIsSent
  <2>3. ~tainted' => ResponseIsAwaited'
    <3> SUFFICES ASSUME ~tainted', NEW r \in responses'
                 PROVE  \E j \in Nic!Slot : buffer[j] = r /\ nal'[j] # "queued" /\ Awaited(j)
      BY <1>1 DEF ResponseIsAwaited, Awaited, HandedBy, Pending
    <3>1. CASE r \in responses
      <4>1. PICK j \in Nic!Slot : buffer[j] = r /\ nal[j] # "queued" /\ Awaited(j)
        BY <1>1, <3>1 DEF NicIInv, Trusted, ResponseIsAwaited
      <4> QED BY <1>2, <4>1
    <3>2. CASE r = buffer[i] /\ Nic!Relevant(r.kind)
      <4>1. slots[i].state # "Available" \/ \E t \in Nic!Thread : HandedBy(t, i)
        BY <1>2 DEF NicIInv, Recorded, HandedIsRecorded
      <4>2. slots[i].state # "AcceptedResponseObserved"
        BY <1>1, <1>2 DEF NicIInv, Trusted, ObservedIsSent
      <4>3. slots[i].state = "Uncertain" => FALSE
        BY <1>1, <3>2 DEF NicIInv, Recorded, RecordIsTrue
      <4>4. slots[i].state \in {"Available", "AcceptedPendingResponse", "AcceptedResponseObserved",
                                "Uncertain"}
        BY DEF Nic!TypeOK, Nic!Record
      <4>5. Awaited(i)
        BY <4>1, <4>2, <4>3, <4>4 DEF Awaited, Pending
      <4> QED BY <1>2, <3>2, <4>5
    <3> QED BY <1>2, <3>1, <3>2
  <2>4. ~tainted' => AwaitedIsOne'
    BY <1>1, <1>2 DEF NicIInv, Trusted, AwaitedIsOne, Handed, HandedBy, Pending, Awaited
  <2>5. ~tainted' => ListenerIsAwaited'
    BY <1>1, <1>2 DEF NicIInv, Trusted, ListenerIsAwaited, Listening, Pending
  <2>6. ~tainted' => WitnessIsLast'
    <3> SUFFICES ASSUME ~tainted', NEW t \in Nic!Thread, thread[t].at = "witness", NEW r \in responses',
                        r.number = thread[t].packet.number
                 PROVE  FALSE
      BY <1>1 DEF WitnessIsLast
    <3>1. r = buffer[i]
      BY <1>1, <1>2 DEF NicIInv, Trusted, WitnessIsLast
    <3>2. PICK j \in Nic!Slot : Pending(j) /\ slots[j].number = thread[t].packet.number /\ nal[j] # "queued"
      BY <1>1 DEF NicIInv, Trusted, ListenerIsAwaited, Listening
    <3>3. buffer[j].number = buffer[i].number /\ buffer[j].number # 0
      BY <3>1, <3>2 DEF NicIInv, Recorded, RecordIsTrue, Pending
    <3>4. i = j
      BY <3>3 DEF NicIInv, Recorded, NumbersAreUnique
    <3> QED BY <1>2, <3>2, <3>4
  <2> QED BY <2>1, <2>2, <2>3, <2>4, <2>5, <2>6 DEF Trusted
<1> QED BY <1>3, <1>4, <1>5, <1>6, <1>7, <1>8 DEF NicIInv

(* Nothing that is queued becomes newer when a frame comes back. *)
LEMMA NalReturnsKeeps ==
  ASSUME NicIInv, NEW i \in Nic!Slot, Nic!NalReturns(i)
  PROVE  NicIInv'
<1> Nic!TypeOK
  BY DEF NicIInv
<1>1. UNCHANGED <<active, m_idx, slots, tainted, buffer, filled, newest, responses, thread>>
  BY DEF Nic!NalReturns, Nic!pool, Nic!network
<1>2. /\ nal[i] # "application" /\ nal'[i] = "application"
      /\ \A j \in Nic!Slot : j # i => nal'[j] = nal[j]
      /\ nal' \in [Nic!Slot -> {"application", "queued", "sent"}]
  BY DEF Nic!NalReturns, Nic!TypeOK
<1>3. Nic!TypeOK'
  BY <1>1, <1>2 DEF Nic!TypeOK
<1>4. Exclusive'
  BY <1>1, <1>2 DEF NicIInv, Exclusive, ScopeIsActive, ScopeIsAlone, FrameIsOwned,
     KindOfThread, ListenerIsOlder, Scope, Holding, Filling, Listening
<1>5. Found'
  BY <1>1, <1>2, NicTypeFacts DEF NicIInv, Found, OwnedIsApplication, PoolIsQuiet,
     QueueIsHarmless, FrameIsNewest, Holding, Filling, Pending
<1>6. Recorded'
  BY <1>1, <1>2 DEF NicIInv, Recorded, NumbersAreUnique, HandedIsRecorded, RecordIsTrue,
     Handed, HandedBy
<1>7. Ordered'
  BY <1>1, <1>2 DEF NicIInv, Ordered
<1>8. Trusted'
  BY <1>1, <1>2 DEF NicIInv, Trusted, ObservedIsSent, ResponseIsAwaited, AwaitedIsOne,
     ListenerIsAwaited, WitnessIsLast, Handed, Listening, HandedBy, Pending, Awaited,
     Nic!Relevant
<1> QED BY <1>3, <1>4, <1>5, <1>6, <1>7, <1>8 DEF NicIInv

(* Fewer responses are under way. *)
LEMMA LoseResponseKeeps ==
  ASSUME NicIInv, Nic!LoseResponse
  PROVE  NicIInv'
<1> Nic!TypeOK
  BY DEF NicIInv
<1>1. UNCHANGED <<active, m_idx, slots, tainted, buffer, filled, nal, newest, thread>>
  BY DEF Nic!LoseResponse, Nic!pool, Nic!network
<1>2. \A r \in responses' : r \in responses
  BY DEF Nic!LoseResponse
<1>3. Nic!TypeOK'
  BY <1>1, <1>2 DEF Nic!TypeOK
<1>4. Exclusive'
  BY <1>1, <1>2 DEF NicIInv, Exclusive, ScopeIsActive, ScopeIsAlone, FrameIsOwned,
     KindOfThread, ListenerIsOlder, Scope, Holding, Filling, Listening
<1>5. Found'
  BY <1>1, <1>2 DEF NicIInv, Found, OwnedIsApplication, PoolIsQuiet, QueueIsHarmless,
     FrameIsNewest, Holding, Filling, Pending
<1>6. Recorded'
  BY <1>1, <1>2 DEF NicIInv, Recorded, NumbersAreUnique, HandedIsRecorded, RecordIsTrue,
     Handed, HandedBy
<1>7. Ordered'
  BY <1>1, <1>2 DEF NicIInv, Ordered
<1>8. Trusted'
  BY <1>1, <1>2 DEF NicIInv, Trusted, ObservedIsSent, ResponseIsAwaited, AwaitedIsOne,
     ListenerIsAwaited, WitnessIsLast, Handed, Listening, HandedBy, Pending, Awaited,
     Nic!Relevant
<1> QED BY <1>3, <1>4, <1>5, <1>6, <1>7, <1>8 DEF NicIInv

(* It holds when no call was made yet. *)
LEMMA NicInitIInv == Nic!Init => NicIInv
<1> SUFFICES ASSUME Nic!Init PROVE NicIInv
  OBVIOUS
<1>1. /\ active = 0 /\ tainted = FALSE /\ filled = 0 /\ newest = 0 /\ responses = {}
      /\ m_idx = 0
  BY DEF Nic!Init
<1>2. /\ slots = [i \in Nic!Slot |-> Nic!Available] /\ buffer = [i \in Nic!Slot |-> Nic!Empty]
      /\ nal = [i \in Nic!Slot |-> "application"] /\ thread = [t \in Nic!Thread |-> Nic!Idle]
  BY DEF Nic!Init
<1>3. Nic!TypeOK
  <2>1. /\ slots \in [Nic!Slot -> Nic!Record] /\ buffer \in [Nic!Slot -> Nic!Packet]
        /\ nal \in [Nic!Slot -> {"application", "queued", "sent"}]
        /\ thread \in [Nic!Thread -> Nic!Call]
    BY <1>2, IdleTyped
  <2>2. /\ active \in 0 .. 1 /\ m_idx \in 0 .. IndexSpan - 1
        /\ filled \in 0 .. MaxFrames /\ newest \in 0 .. filled
    <3>1. IndexSpan >= 1 /\ IndexSpan \in Nat /\ MaxFrames \in Nat
      BY NicAssumption
    <3> QED BY <1>1, <3>1
  <2>3. tainted \in BOOLEAN /\ responses \subseteq Nic!Packet
    BY <1>1
  <2> QED BY <2>1, <2>2, <2>3 DEF Nic!TypeOK
<1>4. /\ Nic!Idle.at = "idle" /\ Nic!Idle.owned = {} /\ Nic!Idle.frame = Nic!NoSlot
      /\ Nic!Empty.number = 0 /\ Nic!Available.state = "Available" /\ Nic!Available.number = 0
  BY DEF Nic!Idle, Nic!Empty, Nic!Available
<1>5. /\ \A i \in Nic!Slot : slots[i] = Nic!Available /\ buffer[i] = Nic!Empty /\ nal[i] = "application"
      /\ \A t \in Nic!Thread : thread[t] = Nic!Idle
  BY <1>2
<1>6. Exclusive
  BY <1>4, <1>5 DEF Exclusive, ScopeIsActive, ScopeIsAlone, FrameIsOwned, KindOfThread,
     ListenerIsOlder, Scope, Holding, Filling, Listening
<1>7. Found
  BY <1>4, <1>5 DEF Found, OwnedIsApplication, PoolIsQuiet, QueueIsHarmless, FrameIsNewest,
     Holding, Filling, Pending
<1>8. Recorded /\ Ordered
  BY <1>1, <1>4, <1>5 DEF Recorded, NumbersAreUnique, HandedIsRecorded, RecordIsTrue,
     Ordered
<1>9. Trusted
  BY <1>1, <1>4, <1>5 DEF Trusted, ObservedIsSent, ResponseIsAwaited, AwaitedIsOne,
     ListenerIsAwaited, WitnessIsLast, Awaited, Pending, HandedBy, Handed, Listening
<1> QED BY <1>3, <1>6, <1>7, <1>8, <1>9 DEF NicIInv

(* Nothing of it depends on anything but the state of the driver. *)
LEMMA NicStutterIInv ==
  ASSUME NicIInv, UNCHANGED Nic!vars
  PROVE  NicIInv'
<1>1. UNCHANGED <<active, m_idx, slots, tainted, buffer, filled, nal, newest, responses, thread>>
  BY DEF Nic!vars, Nic!pool, Nic!network
<1>2. Nic!TypeOK'
  BY <1>1 DEF NicIInv, Nic!TypeOK
<1>3. Exclusive'
  BY <1>1 DEF NicIInv, Exclusive, ScopeIsActive, ScopeIsAlone, FrameIsOwned, KindOfThread,
     ListenerIsOlder
<1>4. Found'
  BY <1>1 DEF NicIInv, Found, OwnedIsApplication, PoolIsQuiet, QueueIsHarmless,
     FrameIsNewest,
     Pending
<1>5. Recorded' /\ Ordered'
  BY <1>1 DEF NicIInv, Recorded, NumbersAreUnique, HandedIsRecorded, RecordIsTrue,
     Ordered, HandedBy
<1>6. Trusted'
  BY <1>1 DEF NicIInv, Trusted, ObservedIsSent, ResponseIsAwaited, AwaitedIsOne,
     ListenerIsAwaited, WitnessIsLast, Awaited, Pending, HandedBy
<1> QED BY <1>2, <1>3, <1>4, <1>5, <1>6 DEF NicIInv

(* Every step of a thread, of NAL and of the wire keeps it. *)
LEMMA NicNextIInv == NicIInv /\ [Nic!Next]_Nic!vars => NicIInv'
<1> SUFFICES ASSUME NicIInv, [Nic!Next]_Nic!vars PROVE NicIInv'
  OBVIOUS
<1>1. CASE UNCHANGED Nic!vars
  BY <1>1, NicStutterIInv
<1>2. ASSUME NEW t \in Nic!Thread, Nic!ReadIndex(t) \/ Nic!StoreIndex(t) \/ Nic!SendPacket(t)
      PROVE  NicIInv'
  BY <1>2, ReadIndexKeeps, StoreIndexKeeps, TakeScopeKeeps, ScanFrameKeeps, JudgeKeeps,
     CopyPacketKeeps, TransmitKeeps, RecordInvocationKeeps DEF Nic!SendPacket
<1>3. ASSUME NEW t \in Nic!Thread,
             Nic!ReceiveMatching(t) \/ Nic!GiveUp(t) \/ Nic!ObserveValidatedResponse(t)
      PROVE  NicIInv'
  BY <1>3, ReceiveMatchingKeeps, GiveUpKeeps, ObserveValidatedResponseKeeps
<1>4. ASSUME NEW i \in Nic!Slot, Nic!NalSends(i) \/ Nic!NalReturns(i)
      PROVE  NicIInv'
  BY <1>4, NalSendsKeeps, NalReturnsKeeps
<1> QED BY <1>1, <1>2, <1>3, <1>4, LoseResponseKeeps DEF Nic!Next

(* The records, the buffers and the calls keep their ranges, and what is   *)
(* recorded of the frames is true of them, for every number of frames, of  *)
(* indices and of calls.                                                   *)
THEOREM NicTypesHold == Nic!Spec => []Nic!TypeOK
<1>1. NicIInv => Nic!TypeOK
  BY DEF NicIInv
<1> QED BY <1>1, NicInitIInv, NicNextIInv, PTL DEF Nic!Spec

(* Only a call that holds a frame the application owns writes it.          *)
THEOREM BuffersUntouched == Nic!Spec => BufferUntouched
<1>1. ASSUME NicIInv, Nic!Next, NEW i \in Nic!Slot, nal[i] # "application"
      PROVE  buffer'[i] = buffer[i]
  <2>1. ASSUME NEW t \in Nic!Thread, Nic!CopyPacket(t) PROVE buffer'[i] = buffer[i]
    <3>1. Nic!At(t, "copy") /\ buffer' = [buffer EXCEPT ![thread[t].frame] =
                                             [thread[t].packet EXCEPT !.number = filled + 1]]
      BY <2>1 DEF Nic!CopyPacket
    <3>2. i # thread[t].frame
      BY <1>1, <3>1, HolderFacts DEF Nic!At, Holding
    <3>3. buffer \in [Nic!Slot -> Nic!Packet]
      BY <1>1 DEF NicIInv, Nic!TypeOK
    <3> QED BY <1>1, <3>1, <3>2, <3>3
  <2>2. ASSUME ~\E t \in Nic!Thread : Nic!CopyPacket(t) PROVE buffer' = buffer
    BY <1>1, <2>2 DEF Nic!Next, Nic!SendPacket, Nic!ReadIndex, Nic!StoreIndex,
       Nic!TakeScope, Nic!ScanFrame, Nic!Judge,
       Nic!Transmit, Nic!RecordInvocation, Nic!ReceiveMatching, Nic!GiveUp,
       Nic!ObserveValidatedResponse, Nic!NalSends,
       Nic!NalReturns, Nic!LoseResponse
  <2> QED BY <2>1, <2>2
<1>2. NicIInv /\ [Nic!Next]_Nic!vars =>
        [\A i \in Nic!Slot : nal[i] # "application" => buffer'[i] = buffer[i]]_Nic!vars
  BY <1>1
<1> QED BY <1>2, NicInitIInv, NicNextIInv, PTL DEF Nic!Spec, BufferUntouched,
   Nic!BufferUntouched

(* A frame that may write outputs is never overtaken on the wire.  While   *)
(* the evidence of responses is trusted a response under way belongs to    *)
(* the only image that awaits one, however often the index came round; and *)
(* once it is not, an observed response settles nothing any more.          *)
THEOREM FramesSentInOrder == Nic!Spec => SentInOrder
<1>1. ASSUME NicIInv, Nic!Next, NEW i \in Nic!Slot, nal[i] = "queued", nal'[i] = "sent"
      PROVE  buffer[i].kind = "probe" \/ newest < buffer[i].number
  <2>1. CASE buffer[i].kind = "probe"
    BY <2>1
  <2>2. CASE buffer[i].kind # "probe"
    BY <1>1, <2>2 DEF NicIInv, Ordered
  <2> QED BY <2>1, <2>2
<1>2. NicIInv /\ [Nic!Next]_Nic!vars =>
        [\A i \in Nic!Slot : nal[i] = "queued" /\ nal'[i] = "sent"
           => buffer[i].kind = "probe" \/ newest < buffer[i].number]_Nic!vars
  BY <1>1
<1> QED BY <1>2, NicInitIInv, NicNextIInv, PTL DEF Nic!Spec, SentInOrder, Nic!SentInOrder

-----------------------------------------------------------------------------
(* What holds of each of the two holds of both, moved by turns or at once. *)
THEOREM TransportsKeepTheirSpecs == TransportsSpec => Spec /\ Nic!Spec
<1>1. TransportsInit => Init /\ Nic!Init
  BY DEF TransportsInit
<1>2. [RingMoves \/ NicMoves]_<<moving, vars, nicVariables>> =>
        [Next]_vars /\ [Nic!Next]_Nic!vars
  BY DEF RingMoves, NicMoves, nicVariables, Nic!vars, Nic!pool, Nic!network
<1> QED BY <1>1, <1>2, PTL DEF TransportsSpec, Spec, Nic!Spec

=============================================================================
