---------------------------- MODULE NicTransmit ----------------------------
(***************************************************************************)
(* The transmit side of CNicDriver (NicDriver.cpp, NicTxFrameLifecycle.h): *)
(* a pool of preallocated frames that are handed to the network layer NAL, *)
(* which puts them on the wire when it likes, in no promised order, and    *)
(* gives them back later still.  SendPacket must not touch a frame that    *)
(* NAL owns, and must not submit a frame while an older one may still be   *)
(* sent after it: the outputs of the older one would overwrite its own.    *)
(*                                                                         *)
(* A frame is known to be sent when NAL has given it back or when its      *)
(* response was received.  A response carries only an eight bit index that *)
(* comes round again, so the evidence of responses is given up for good    *)
(* (responseTrustTainted) once a process image came back unanswered: its   *)
(* answer may still be under way.                                          *)
(*                                                                         *)
(* Calls are named by the frames they fill, in that order; a rejected call  *)
(* fills none.  NAL, the wire and the slaves are modelled from how the     *)
(* driver uses them.  Open runs once, before any call, so one generation   *)
(* of frames is modelled.                                                  *)
(***************************************************************************)
EXTENDS NicTransmitParameters

VARIABLES
  active,     (* m_TxProducerActive                                        *)
  m_idx,      (* m_idx: the next datagram index                            *)
  slots,      (* m_TxLifecycle: what is recorded of each frame of the pool *)
  tainted,    (* responseTrustTainted_                                     *)
  buffer,     (* the packet each frame holds                               *)
  filled,     (* how many frames were filled so far                        *)
  nal,        (* who has each frame: "application", "queued" in NAL or     *)
              (* "sent" by NAL and not yet given back                      *)
  newest,     (* history: the latest frame the wire has carried            *)
  responses,  (* LRW frames whose answers are under way                    *)
  caller      (* each thread in SendPacket and the loop after it: where it *)
              (* is, the packet it sends, how many frames its ownership    *)
              (* scan has passed, those it found to be the application's,  *)
              (* and availableSlot, the first of them                      *)

pool == <<slots, tainted>>
network == <<nal, newest, responses>>
vars == <<active, m_idx, pool, buffer, filled, network, caller>>

Thread == {Cyclic, Startup}
Slot == 1 .. SlotCount
NoSlot == 0

(* What a thread may send.  "cyclic" is the process image of a runtime     *)
(* cycle, "image" an LRW frame of the startup, "probe" the read of a slave *)
(* register and "control" every other datagram.                            *)
Kinds(t) == IF t = Cyclic THEN {"cyclic", "probe", "control"} ELSE {"image", "control"}

(* LRW frames, which share the command and the index with each other. *)
Relevant(kind) == kind \in {"cyclic", "image"}

Available == [state |-> "Available", number |-> 0, kind |-> "control"]
Empty == [number |-> 0, kind |-> "control", index |-> 0]
Idle == [at |-> "idle", packet |-> Empty, scanned |-> 0, owned |-> {}, frame |-> NoSlot]

At(t, label) == caller[t].at = label
Goto(t, label) == caller' = [caller EXCEPT ![t].at = label]
Leave(t) == caller' = [caller EXCEPT ![t] = Idle]

Init ==
  /\ active = 0 /\ m_idx = 0
  /\ slots = [i \in Slot |-> Available] /\ tainted = FALSE
  /\ buffer = [i \in Slot |-> Empty] /\ filled = 0
  /\ nal = [i \in Slot |-> "application"] /\ newest = 0 /\ responses = {}
  /\ caller = [t \in Thread |-> Idle]

-----------------------------------------------------------------------------
(* The caller builds a packet.  m_idx++ is not atomic: two threads that do *)
(* it at once may take the same index.                                     *)

ReadIndex(t) ==
  /\ At(t, "idle") /\ filled < MaxFrames
  /\ \E kind \in Kinds(t) :
       caller' = [caller EXCEPT ![t].at = "built",
                                ![t].packet = [number |-> 0, kind |-> kind, index |-> m_idx]]
  /\ UNCHANGED <<active, m_idx, pool, buffer, filled, network>>

StoreIndex(t) ==
  /\ At(t, "built")
  /\ m_idx' = (caller[t].packet.index + 1) % IndexSpan
  /\ Goto(t, "scope")
  /\ UNCHANGED <<active, pool, buffer, filled, network>>

(* Mutant: the loser of the compare-exchange goes on as well. *)
TakeScopeAnyway(t) ==
  /\ At(t, "scope")
  /\ active' = 1
  /\ Goto(t, "scan")
  /\ UNCHANGED <<m_idx, pool, buffer, filled, network>>

(* NicTxProducerScope: a producer that finds another one active is         *)
(* rejected without a look at the pool.                                    *)
TakeScope(t) ==
  /\ At(t, "scope")
  /\ active' = 1
  /\ IF active = 0 THEN Goto(t, "scan") ELSE Leave(t)
  /\ UNCHANGED <<m_idx, pool, buffer, filled, network>>

(* RtNalIsApplicationFrame of the next frame, while NAL goes on working. *)
ScanFrame(t) ==
  /\ At(t, "scan") /\ caller[t].scanned < SlotCount
  /\ LET i == caller[t].scanned + 1 IN
     \/ /\ nal[i] = "application"
        /\ caller' = [caller EXCEPT ![t].scanned = i, ![t].owned = @ \cup {i},
                                    ![t].frame = IF @ = NoSlot THEN i ELSE @]
     \/ /\ nal[i] # "application"
        /\ caller' = [caller EXCEPT ![t].scanned = i]
  /\ UNCHANGED <<active, m_idx, pool, buffer, filled, network>>

(* Mutant: an LRW frame that came back unanswered leaves no mark. *)
ObserveApplicationOwnershipTrusting(found) ==
  /\ slots' = [i \in Slot |-> IF i \in found THEN Available ELSE slots[i]]
  /\ UNCHANGED tainted

(* ObserveApplicationOwnership of the frames found: whatever was recorded  *)
(* for them is settled, but an LRW frame whose answer did not come may be  *)
(* answered yet.                                                           *)
ObserveApplicationOwnership(found) ==
  /\ slots' = [i \in Slot |-> IF i \in found THEN Available ELSE slots[i]]
  /\ tainted' = (tainted \/ \E i \in found : /\ Relevant(slots[i].kind)
                                             /\ slots[i].state = "AcceptedPendingResponse")

(* BlockingSlot: a frame of the pool that may still be sent.  An accepted  *)
(* probe writes nothing, so a process image of the runtime may pass it.    *)
Blocks(slot, distrust, kind) ==
  /\ ~(kind = "cyclic" /\ slot.kind = "probe" /\ slot.state = "AcceptedPendingResponse")
  /\ \/ slot.state \in {"AcceptedPendingResponse", "Uncertain"}
     \/ distrust /\ slot.state = "AcceptedResponseObserved"

(* The verdict on the scan: an older frame that may still be sent, an      *)
(* exhausted pool, or a frame that was not the application's for another   *)
(* reason than ERROR_NOT_OWNER reject the call and end its scope.          *)
(* Otherwise the first frame of the application is taken.                  *)
Judge(t) ==
  /\ At(t, "scan") /\ caller[t].scanned = SlotCount
  /\ ObserveApplicationOwnership(caller[t].owned)
  /\ \/ /\ \/ caller[t].owned # Slot
           \/ \E i \in Slot : Blocks(slots'[i], tainted', caller[t].packet.kind)
        /\ Leave(t) /\ active' = 0
     \/ /\ caller[t].frame # NoSlot
        /\ ~\E i \in Slot : Blocks(slots'[i], tainted', caller[t].packet.kind)
        /\ Goto(t, "copy") /\ UNCHANGED active
  /\ UNCHANGED <<m_idx, buffer, filled, network>>

CopyPacket(t) ==
  /\ At(t, "copy") /\ filled < MaxFrames
  /\ filled' = filled + 1
  /\ buffer' = [buffer EXCEPT ![caller[t].frame] =
                                [caller[t].packet EXCEPT !.number = filled + 1]]
  /\ caller' = [caller EXCEPT ![t].at = "transmit", ![t].packet.number = filled + 1]
  /\ UNCHANGED <<active, m_idx, pool, network>>

(* RtNalTransmitEx takes the frame when it says so; when it fails or       *)
(* counts wrong it may have taken it as well.                              *)
Transmit(t) ==
  /\ At(t, "transmit")
  /\ \E accepted, taken \in BOOLEAN :
       /\ accepted => taken
       /\ nal' = [nal EXCEPT ![caller[t].frame] = IF taken THEN "queued" ELSE @]
       /\ Goto(t, IF accepted THEN "accepted" ELSE "uncertain")
  /\ UNCHANGED <<active, m_idx, pool, buffer, filled, newest, responses>>

(* RecordInvocation, and the scope of the call ends.  A cyclic call that   *)
(* was accepted waits for its answer.                                      *)
RecordInvocation(t) ==
  /\ At(t, "accepted") \/ At(t, "uncertain")
  /\ LET packet == caller[t].packet IN
     /\ slots' = [slots EXCEPT ![caller[t].frame] =
          [state |-> IF At(t, "accepted") THEN "AcceptedPendingResponse" ELSE "Uncertain",
           number |-> packet.number, kind |-> packet.kind]]
     /\ tainted' = (tainted \/ (Relevant(packet.kind) /\ At(t, "uncertain")))
     /\ IF At(t, "accepted") /\ packet.kind = "cyclic" THEN Goto(t, "wait") ELSE Leave(t)
  /\ active' = 0
  /\ UNCHANGED <<m_idx, buffer, filled, network>>

-----------------------------------------------------------------------------
(* The receive loop of the cyclic call.                                    *)

(* An answer with the index of this call passes every check of the loop,   *)
(* whichever call it belongs to.                                           *)
ReceiveMatching(t) ==
  /\ At(t, "wait")
  /\ \E response \in responses :
       /\ response.index = caller[t].packet.index
       /\ responses' = responses \ {response}
  /\ Goto(t, "witness")
  /\ UNCHANGED <<active, m_idx, pool, buffer, filled, nal, newest>>

(* The deadline passes, or the counter of the answer is wrong. *)
GiveUp(t) ==
  /\ At(t, "wait")
  /\ Leave(t)
  /\ UNCHANGED <<active, m_idx, pool, buffer, filled, network>>

(* ObserveValidatedTxResponse with the receipt of this call, unless the    *)
(* other producer is active.                                               *)
ObserveValidatedResponse(t) ==
  /\ At(t, "witness")
  /\ slots' = [i \in Slot |->
       IF /\ active = 0 /\ slots[i].number = caller[t].packet.number
          /\ slots[i].state = "AcceptedPendingResponse"
       THEN [slots[i] EXCEPT !.state = "AcceptedResponseObserved"] ELSE slots[i]]
  /\ Leave(t)
  /\ UNCHANGED <<active, m_idx, tainted, buffer, filled, network>>

-----------------------------------------------------------------------------
(* NAL, the wire and the slaves.                                           *)

(* NAL sends any frame it has, with what its buffer holds by then. *)
NalSends(i) ==
  /\ nal[i] = "queued"
  /\ nal' = [nal EXCEPT ![i] = "sent"]
  /\ newest' = IF buffer[i].number > newest THEN buffer[i].number ELSE newest
  /\ responses' = IF Relevant(buffer[i].kind) THEN responses \cup {buffer[i]} ELSE responses
  /\ UNCHANGED <<active, m_idx, pool, buffer, filled, caller>>

(* NAL gives a frame back, sent or dropped. *)
NalReturns(i) ==
  /\ nal[i] # "application"
  /\ nal' = [nal EXCEPT ![i] = "application"]
  /\ UNCHANGED <<active, m_idx, pool, buffer, filled, newest, responses, caller>>

(* An answer is lost on the wire, drained, or taken by a loop that has no  *)
(* use for it.                                                             *)
LoseResponse ==
  /\ \E response \in responses : responses' = responses \ {response}
  /\ UNCHANGED <<active, m_idx, pool, buffer, filled, nal, newest, caller>>

SendPacket(t) ==
  \/ TakeScope(t) \/ ScanFrame(t) \/ Judge(t)
  \/ CopyPacket(t) \/ Transmit(t) \/ RecordInvocation(t)

Next ==
  \/ \E t \in Thread :
       \/ ReadIndex(t) \/ StoreIndex(t) \/ SendPacket(t)
       \/ ReceiveMatching(t) \/ GiveUp(t) \/ ObserveValidatedResponse(t)
  \/ \E i \in Slot : NalSends(i) \/ NalReturns(i)
  \/ LoseResponse

Spec == Init /\ [][Next]_vars

-----------------------------------------------------------------------------
Kind == {"cyclic", "image", "probe", "control"}
Packet == [number : 0 .. MaxFrames, kind : Kind, index : 0 .. IndexSpan - 1]

Record == [state : {"Available", "AcceptedPendingResponse", "AcceptedResponseObserved",
                    "Uncertain"},
           number : 0 .. MaxFrames, kind : Kind]
Label == {"idle", "built", "scope", "scan", "copy", "transmit", "accepted", "uncertain",
          "wait", "witness"}
Call == [at : Label, packet : Packet, scanned : 0 .. SlotCount, owned : SUBSET Slot,
         frame : 0 .. SlotCount]

TypeOK ==
  /\ active \in 0 .. 1 /\ m_idx \in 0 .. IndexSpan - 1
  /\ slots \in [Slot -> Record] /\ tainted \in BOOLEAN
  /\ buffer \in [Slot -> Packet] /\ filled \in 0 .. MaxFrames
  /\ nal \in [Slot -> {"application", "queued", "sent"}]
  /\ newest \in 0 .. filled /\ responses \subseteq Packet
  /\ caller \in [Thread -> Call]

(* A frame is never written while NAL owns it: what goes on the wire is    *)
(* what the call submitted, whoever calls SendPacket meanwhile and         *)
(* whenever NAL gives a frame back.                                        *)
BufferUntouched ==
  [][\A i \in Slot : nal[i] # "application" => buffer'[i] = buffer[i]]_vars

(* No frame that may write outputs goes on the wire after a frame that was *)
(* submitted later: not after a submission of unknown outcome, not when    *)
(* NAL keeps frames for long, and not when a late answer of an older call  *)
(* passes for the answer of a newer one.                                   *)
SentInOrder ==
  [][\A i \in Slot : nal[i] = "queued" /\ nal'[i] = "sent"
       => buffer[i].kind = "probe" \/ newest < buffer[i].number]_vars
=============================================================================
