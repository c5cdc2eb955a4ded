------------------------- MODULE SafetyEpochHandshake -------------------------
(***************************************************************************)
(* The epoch handshake of a SAFETY takeover: EnsureSafetyMotionOwnerEpoch, *)
(* run by any number of helpers at once, against the other writers of      *)
(* m_executionEpochPublication: PublishNewExecutionEpoch, called by        *)
(* ordinary owners and by the motion thread Rt for SAFETY,                 *)
(* TryPublishOwnerAuthorizedAbortingExecutionEpoch, the lifecycle commit   *)
(* reservation, and ApplyPendingExecutionEpochChange.                      *)
(*                                                                         *)
(* Owner, generation, ticket and handshake flag change as MotionOwnership  *)
(* lets them, one step per change.  Here every load and compare-exchange   *)
(* of the publication, the claim and the epoch acknowledgement is a step;  *)
(* a load that only feeds the compare-exchange right after it is one step  *)
(* with it.  A helper's attempt budget is unlimited.                       *)
(***************************************************************************)
EXTENDS Integers

CONSTANTS
  Helper,     (* threads inside TryTakeSafetyMotionOwnerForTicket          *)
  Publisher,  (* threads of ordinary owners that publish execution epochs  *)
  Rt,         (* the motion thread, which publishes SAFETY's               *)
  Committer,  (* threads that take the lifecycle commit reservation        *)
  MaxTicket,  (* number of safety requests                                 *)
  MaxGen,     (* generation at which ordinary owners stop acquiring        *)
  MaxEpoch    (* epoch at which publishers stop publishing                 *)

ASSUME ThreadAssumption ==
  /\ Helper \cap Publisher = {}
  /\ (Helper \cup Publisher) \cap Committer = {}
  /\ Rt \notin Helper \cup Publisher \cup Committer
ASSUME BoundAssumption == MaxTicket \in Nat /\ MaxGen \in Nat /\ MaxEpoch \in Nat

VARIABLES
  word,      (* m_motionOwnerState: owner, gen, ticket, handshake,         *)
             (* reserved (EPOCH_COMMIT_RESERVED)                           *)
  acked,     (* m_safetyRequestAcknowledgedTicket                          *)
  pub,       (* m_executionEpochPublication: epoch, source, pending,       *)
             (* reserved                                                   *)
  claim,     (* m_safetyOwnerEpochClaim: gen, epoch                        *)
  epochAck,  (* m_safetyOwnerEpochAcknowledgement: gen, epoch              *)
  pc,        (* where each thread is in its call                           *)
  seenWord,  (* the word, the publication and the claim a thread holds     *)
  seenPub,
  seenClaim,
  fenced     (* history: the publication is younger than the last takeover *)
             (* and SAFETY's                                               *)

globals == <<word, acked, pub, claim, epochAck, fenced>>
locals == <<seenWord, seenPub, seenClaim>>
vars == <<globals, pc, locals>>

Thread == Helper \cup Publisher \cup Committer \cup {Rt}
Word == [owner : {"NONE", "PROGRAM", "SAFETY"}, gen : Nat, ticket : Nat,
         handshake : BOOLEAN, reserved : BOOLEAN]
Publication == [epoch : Nat, source : {"ordinary", "SAFETY"},
                pending : BOOLEAN, reserved : BOOLEAN]
GenEpoch == [gen : Nat, epoch : Nat]

NoMotion == [owner |-> "NONE", gen |-> 1, ticket |-> 0, handshake |-> FALSE,
             reserved |-> FALSE]
FirstEpoch == [epoch |-> 1, source |-> "ordinary", pending |-> FALSE,
               reserved |-> FALSE]
Nothing == [gen |-> 0, epoch |-> 0]

Init ==
  /\ word = NoMotion /\ acked = 0
  /\ pub = FirstEpoch
  /\ claim = Nothing /\ epochAck = Nothing
  /\ pc = [t \in Thread |-> "idle"]
  /\ seenWord = [t \in Thread |-> NoMotion]
  /\ seenPub = [t \in Thread |-> FirstEpoch]
  /\ seenClaim = [t \in Thread |-> Nothing]
  /\ fenced = FALSE

At(t, label) == pc[t] = label
Goto(t, label) == pc' = [pc EXCEPT ![t] = label]
Unacknowledged == word.ticket # acked

(* The thread's call ends and its locals with it. *)
Return(t) ==
  /\ Goto(t, "idle")
  /\ seenWord' = [seenWord EXCEPT ![t] = NoMotion]
  /\ seenPub' = [seenPub EXCEPT ![t] = FirstEpoch]
  /\ seenClaim' = [seenClaim EXCEPT ![t] = Nothing]

Continue(t, label) == Goto(t, label) /\ UNCHANGED locals
LoadWord(t) == seenWord' = [seenWord EXCEPT ![t] = word]
LoadPub(t) == seenPub' = [seenPub EXCEPT ![t] = pub]

-----------------------------------------------------------------------------
(* The word as MotionOwnership moves it.                                   *)

(* Mutant: a ticket is granted under the reservation of an aborting epoch. *)
RequestSafetyDespiteReservation ==
  /\ word.ticket < MaxTicket
  /\ word' = [word EXCEPT !.ticket = @ + 1]
  /\ UNCHANGED <<acked, pub, claim, epochAck, fenced, pc, locals>>

RequestSafety ==
  /\ word.ticket < MaxTicket /\ ~word.reserved
  /\ word' = [word EXCEPT !.ticket = @ + 1]
  /\ UNCHANGED <<acked, pub, claim, epochAck, fenced, pc, locals>>

AcquireOrdinary ==
  /\ word.owner = "NONE" /\ ~Unacknowledged /\ ~word.reserved
  /\ word.gen < MaxGen
  /\ word' = [word EXCEPT !.owner = "PROGRAM", !.gen = @ + 1]
  /\ UNCHANGED <<acked, pub, claim, epochAck, fenced, pc, locals>>

TakeSafety ==
  /\ Unacknowledged /\ word.owner # "SAFETY" /\ ~word.reserved
  /\ word' = [word EXCEPT !.owner = "SAFETY", !.gen = @ + 1, !.handshake = TRUE]
  /\ fenced' = FALSE
  /\ UNCHANGED <<acked, pub, claim, epochAck, pc, locals>>

(* Rt publishes a SAFETY epoch only while it applies a request, which      *)
(* holds off the acknowledgement and the release.                          *)
Acknowledge ==
  /\ Unacknowledged /\ word.owner = "SAFETY" /\ ~word.handshake
  /\ ~pub.pending /\ At(Rt, "idle")
  /\ acked' = word.ticket
  /\ UNCHANGED <<word, pub, claim, epochAck, fenced, pc, locals>>

Release ==
  /\ word.owner # "NONE" /\ ~word.handshake /\ ~Unacknowledged /\ ~word.reserved
  /\ word.owner = "SAFETY" => ~pub.pending /\ At(Rt, "idle")
  /\ word' = [word EXCEPT !.owner = "NONE", !.gen = @ + 1]
  /\ UNCHANGED <<acked, pub, claim, epochAck, fenced, pc, locals>>

Ownership ==
  RequestSafety \/ AcquireOrdinary \/ TakeSafety \/ Acknowledge \/ Release

-----------------------------------------------------------------------------
(* EnsureSafetyMotionOwnerEpoch; the lease is the generation in seenWord.  *)

EnsureCall(h) ==
  /\ At(h, "idle")
  /\ word.owner = "SAFETY" /\ word.handshake
  /\ LoadWord(h)
  /\ Goto(h, "attempt")
  /\ UNCHANGED <<globals, seenPub, seenClaim>>

EnsureLoadWord(h) ==
  /\ At(h, "attempt")
  /\ IF word.owner # "SAFETY" \/ word.gen # seenWord[h].gen \/ ~Unacknowledged
     THEN Return(h)
     ELSE LoadWord(h) /\ Goto(h, "inspect") /\ UNCHANGED <<seenPub, seenClaim>>
  /\ UNCHANGED globals

AcknowledgedFor(g) == epochAck.gen = g /\ epochAck.epoch # 0

(* Mutant: the handshake is closed without having inspected the epoch. *)
EnsureInspectNothing(h) ==
  /\ At(h, "inspect")
  /\ IF pub.source = "SAFETY"
     THEN IF seenWord[h].handshake THEN Continue(h, "close") ELSE Return(h)
     ELSE IF ~seenWord[h].handshake THEN Return(h)
     ELSE LoadPub(h) /\ Goto(h, "claim") /\ UNCHANGED <<seenWord, seenClaim>>
  /\ UNCHANGED globals

(* The acknowledgement is loaded just before the publication; it only ever *)
(* gains this generation, so the pair is read when the publication is.     *)
EnsureInspect(h) ==
  /\ At(h, "inspect")
  /\ IF AcknowledgedFor(seenWord[h].gen) /\ pub.source = "SAFETY"
     THEN IF seenWord[h].handshake THEN Continue(h, "close") ELSE Return(h)
     ELSE IF ~seenWord[h].handshake THEN Return(h)
     ELSE LoadPub(h) /\ Goto(h, "claim") /\ UNCHANGED <<seenWord, seenClaim>>
  /\ UNCHANGED globals

EnsureClose(h) ==
  /\ At(h, "close")
  /\ IF word = seenWord[h]
     THEN word' = [word EXCEPT !.handshake = FALSE] /\ Return(h)
     ELSE UNCHANGED word /\ Continue(h, "attempt")
  /\ UNCHANGED <<acked, pub, claim, epochAck, fenced>>

(* All helpers of one generation work from one claimed predecessor epoch. *)
EnsureClaim(h) ==
  LET mine == [gen |-> seenWord[h].gen, epoch |-> seenPub[h].epoch] IN
  /\ At(h, "claim")
  /\ IF claim.gen = mine.gen
     THEN /\ seenClaim' = [seenClaim EXCEPT ![h] = claim]
          /\ Goto(h, "recheck") /\ UNCHANGED <<claim, seenWord, seenPub>>
     ELSE IF claim.gen > mine.gen THEN UNCHANGED claim /\ Return(h)
     ELSE IF seenPub[h].reserved
     THEN UNCHANGED claim /\ Continue(h, "attempt")
     ELSE /\ claim' = mine
          /\ seenClaim' = [seenClaim EXCEPT ![h] = mine]
          /\ Goto(h, "recheck") /\ UNCHANGED <<seenWord, seenPub>>
  /\ UNCHANGED <<word, acked, pub, epochAck, fenced>>

EnsureRecheckAck(h) ==
  /\ At(h, "recheck")
  /\ Continue(h, IF AcknowledgedFor(seenWord[h].gen) THEN "attempt" ELSE "reread")
  /\ UNCHANGED globals

EnsureRereadPub(h) ==
  /\ At(h, "reread")
  /\ LoadPub(h)
  /\ Goto(h, IF pub.reserved THEN "attempt"
             ELSE IF pub.epoch = seenClaim[h].epoch THEN "publish"
             ELSE IF pub.source # "SAFETY" THEN "advance"
             ELSE "confirm")
  /\ UNCHANGED <<globals, seenWord, seenClaim>>

EnsurePublish(h) ==
  /\ At(h, "publish")
  /\ IF pub = seenPub[h]
     THEN /\ pub' = [epoch |-> pub.epoch + 1, source |-> "SAFETY",
                     pending |-> TRUE, reserved |-> FALSE]
          /\ fenced' = TRUE
          /\ seenPub' = [seenPub EXCEPT ![h] = pub']
          /\ Goto(h, "confirm")
          /\ UNCHANGED <<seenWord, seenClaim>>
     ELSE UNCHANGED <<pub, fenced>> /\ Continue(h, "attempt")
  /\ UNCHANGED <<word, acked, claim, epochAck>>

(* Mutant: the claim stays at the epoch that was overtaken. *)
EnsureAdvanceNever(h) ==
  /\ At(h, "advance")
  /\ Continue(h, "attempt")
  /\ UNCHANGED globals

(* An ordinary publisher that was in flight at the takeover got ahead: the *)
(* claim moves to its epoch.                                               *)
EnsureAdvance(h) ==
  /\ At(h, "advance")
  /\ claim' = IF claim = seenClaim[h]
              THEN [claim EXCEPT !.epoch = seenPub[h].epoch] ELSE claim
  /\ Continue(h, "attempt")
  /\ UNCHANGED <<word, acked, pub, epochAck, fenced>>

EnsureConfirm(h) ==
  /\ At(h, "confirm")
  /\ IF word.owner = "SAFETY" /\ word.gen = seenWord[h].gen /\ word.handshake
     THEN Continue(h, "acknowledge") ELSE Return(h)
  /\ UNCHANGED globals

EnsureAcknowledge(h) ==
  /\ At(h, "acknowledge")
  /\ epochAck' = IF seenWord[h].gen > epochAck.gen
                 THEN [gen |-> seenWord[h].gen, epoch |-> seenPub[h].epoch]
                 ELSE epochAck
  /\ Continue(h, "attempt")
  /\ UNCHANGED <<word, acked, pub, claim, fenced>>

EnsureSafetyMotionOwnerEpoch(h) ==
  \/ EnsureCall(h) \/ EnsureLoadWord(h) \/ EnsureInspect(h) \/ EnsureClose(h)
  \/ EnsureClaim(h) \/ EnsureRecheckAck(h) \/ EnsureRereadPub(h)
  \/ EnsurePublish(h) \/ EnsureAdvance(h) \/ EnsureConfirm(h)
  \/ EnsureAcknowledge(h)

-----------------------------------------------------------------------------
(* PublishNewExecutionEpoch: entry word, publication, word again, and one  *)
(* compare-exchange.                                                       *)

PublishCall(p) ==
  /\ At(p, "idle")
  /\ pub.epoch < MaxEpoch
  /\ ~word.handshake /\ ~word.reserved
  /\ IF p = Rt THEN word.owner = "SAFETY" /\ Unacknowledged
     ELSE word.owner # "SAFETY" /\ ~Unacknowledged
  /\ LoadWord(p)
  /\ Goto(p, "load")
  /\ UNCHANGED <<globals, seenPub, seenClaim>>

(* Mutant: a lifecycle commit's reservation is not looked at. *)
PublishLoadReserved(p) ==
  /\ At(p, "load")
  /\ LoadPub(p) /\ Goto(p, "recheck") /\ UNCHANGED <<seenWord, seenClaim>>
  /\ UNCHANGED globals

PublishLoad(p) ==
  /\ At(p, "load")
  /\ IF pub.reserved THEN Return(p)
     ELSE LoadPub(p) /\ Goto(p, "recheck") /\ UNCHANGED <<seenWord, seenClaim>>
  /\ UNCHANGED globals

PublishRecheck(p) ==
  /\ At(p, "recheck")
  /\ IF word = seenWord[p] THEN Continue(p, "publish") ELSE Return(p)
  /\ UNCHANGED globals

(* Mutant: the publication is stored, not compared and exchanged. *)
SwapPublicationBlindly(p, new) ==
  pub' = new /\ fenced' = (new.source = "SAFETY")

SwapPublication(p, new) ==
  /\ pub' = IF pub = seenPub[p] THEN new ELSE pub
  /\ fenced' = IF pub = seenPub[p] THEN new.source = "SAFETY" ELSE fenced

Successor(p) ==
  [epoch |-> seenPub[p].epoch + 1,
   source |-> IF p = Rt THEN "SAFETY" ELSE "ordinary",
   pending |-> TRUE, reserved |-> FALSE]

PublishSwap(p) ==
  /\ At(p, "publish")
  /\ SwapPublication(p, Successor(p))
  /\ Return(p)
  /\ UNCHANGED <<word, acked, claim, epochAck>>

PublishNewExecutionEpoch(p) ==
  PublishCall(p) \/ PublishLoad(p) \/ PublishRecheck(p) \/ PublishSwap(p)

-----------------------------------------------------------------------------
(* TryPublishOwnerAuthorizedAbortingExecutionEpoch: the owner's word is    *)
(* reserved first, which refuses every safety ticket until the end.        *)

AbortCall(p) ==
  /\ At(p, "idle")
  /\ pub.epoch < MaxEpoch
  /\ word.owner = "PROGRAM" /\ ~word.handshake /\ ~word.reserved /\ ~Unacknowledged
  /\ LoadWord(p)
  /\ Goto(p, "abort")
  /\ UNCHANGED <<globals, seenPub, seenClaim>>

AbortReserve(p) ==
  /\ At(p, "abort")
  /\ IF word = seenWord[p]
     THEN word' = [word EXCEPT !.reserved = TRUE] /\ Continue(p, "abort load")
     ELSE UNCHANGED word /\ Return(p)
  /\ UNCHANGED <<acked, pub, claim, epochAck, fenced>>

AbortLoad(p) ==
  /\ At(p, "abort load")
  /\ LoadPub(p)
  /\ Goto(p, IF pub.reserved THEN "abort end" ELSE "abort swap")
  /\ UNCHANGED <<globals, seenWord, seenClaim>>

AbortSwap(p) ==
  /\ At(p, "abort swap")
  /\ SwapPublication(p, Successor(p))
  /\ Continue(p, "abort end")
  /\ UNCHANGED <<word, acked, claim, epochAck>>

AbortEnd(p) ==
  /\ At(p, "abort end")
  /\ word' = [word EXCEPT !.reserved = FALSE]
  /\ Return(p)
  /\ UNCHANGED <<acked, pub, claim, epochAck, fenced>>

TryPublishOwnerAuthorizedAbortingExecutionEpoch(p) ==
  AbortCall(p) \/ AbortReserve(p) \/ AbortLoad(p) \/ AbortSwap(p) \/ AbortEnd(p)

-----------------------------------------------------------------------------
(* The lifecycle commit reservation of an ordinary owner.                  *)

CommitCall(c) ==
  /\ At(c, "idle")
  /\ word.owner = "PROGRAM" /\ ~word.handshake /\ ~word.reserved /\ ~Unacknowledged
  /\ LoadWord(c)
  /\ Goto(c, "reserve")
  /\ UNCHANGED <<globals, seenPub, seenClaim>>

CommitReserve(c) ==
  /\ At(c, "reserve")
  /\ IF ~pub.pending /\ ~pub.reserved /\ pub.source = "ordinary"
     THEN /\ pub' = [pub EXCEPT !.reserved = TRUE]
          /\ seenPub' = [seenPub EXCEPT ![c] = pub']
          /\ Goto(c, "recheck")
          /\ UNCHANGED <<seenWord, seenClaim>>
     ELSE UNCHANGED pub /\ Return(c)
  /\ UNCHANGED <<word, acked, claim, epochAck, fenced>>

CommitRecheck(c) ==
  /\ At(c, "recheck")
  /\ Continue(c, IF word = seenWord[c] THEN "commit" ELSE "release")
  /\ UNCHANGED globals

(* The commit itself, between the reservation and its release. *)
Commit(c) ==
  /\ At(c, "commit")
  /\ Continue(c, "release")
  /\ UNCHANGED globals

CommitRelease(c) ==
  /\ At(c, "release")
  /\ pub' = [pub EXCEPT !.reserved = FALSE]
  /\ Return(c)
  /\ UNCHANGED <<word, acked, claim, epochAck, fenced>>

LifecycleCommit(c) ==
  \/ CommitCall(c) \/ CommitReserve(c) \/ CommitRecheck(c) \/ Commit(c)
  \/ CommitRelease(c)

(* The motion thread: ApplyPendingExecutionEpochChange. *)
ApplyPendingExecutionEpochChange ==
  /\ pub.pending /\ ~pub.reserved
  /\ pub' = [pub EXCEPT !.pending = FALSE]
  /\ UNCHANGED <<word, acked, claim, epochAck, fenced, pc, locals>>

Next ==
  \/ Ownership
  \/ \E h \in Helper : EnsureSafetyMotionOwnerEpoch(h)
  \/ \E p \in Publisher :
       \/ PublishNewExecutionEpoch(p)
       \/ TryPublishOwnerAuthorizedAbortingExecutionEpoch(p)
  \/ PublishNewExecutionEpoch(Rt)
  \/ \E c \in Committer : LifecycleCommit(c)
  \/ ApplyPendingExecutionEpochChange

Spec == Init /\ [][Next]_vars

(* A helper that was called goes on; the motion thread calls one on every  *)
(* pass; a lifecycle commit ends.                                          *)
Fairness ==
  /\ \A h \in Helper : WF_vars(EnsureSafetyMotionOwnerEpoch(h))
  /\ \A c \in Committer :
       WF_vars(CommitReserve(c) \/ CommitRecheck(c) \/ Commit(c) \/ CommitRelease(c))

FairSpec == Spec /\ Fairness

-----------------------------------------------------------------------------
(* Type invariant of the packed words and the local copies; a claim and an *)
(* acknowledgement name epochs that have been published.                   *)
TypeOK ==
  /\ word \in Word /\ acked \in Nat
  /\ pub \in Publication /\ claim \in GenEpoch /\ epochAck \in GenEpoch
  /\ claim.epoch <= pub.epoch /\ epochAck.epoch <= pub.epoch
  /\ pc \in [Thread -> {"idle", "attempt", "inspect", "close", "claim",
       "recheck", "reread", "publish", "advance", "confirm", "acknowledge",
       "load", "reserve", "commit", "release", "abort", "abort load",
       "abort swap", "abort end"}]
  /\ seenWord \in [Thread -> Word] /\ seenPub \in [Thread -> Publication]
  /\ seenClaim \in [Thread -> GenEpoch]
  /\ fenced \in BOOLEAN

(* Once the handshake is closed the SAFETY owner stands on a SAFETY epoch  *)
(* that was acknowledged for its own generation: nothing of the displaced  *)
(* program can still pass the epoch filter (TryGetSafetyMotionOwnerEpoch). *)
ClosedTakeoverIsFenced ==
  word.owner = "SAFETY" /\ ~word.handshake =>
    /\ pub.source = "SAFETY" /\ fenced
    /\ epochAck.gen = word.gen /\ epochAck.epoch <= pub.epoch

(* Nobody publishes or applies an epoch under a lifecycle commit: its      *)
(* reservation is released exactly as it was taken, the defensive branch   *)
(* of ReleaseLifecycleCommitReservation is never needed.                   *)
CommitReservationExact ==
  \A c \in Committer :
    pc[c] \in {"recheck", "commit", "release"} => pub = seenPub[c]

(* "No ticket can appear between the owner proof and the Epoch CAS" of an   *)
(* aborting publication: what it publishes is older than every request.    *)
AbortingEpochPrecedesSafety ==
  \A p \in Publisher :
    pc[p] \in {"abort load", "abort swap", "abort end"} =>
      word.owner = "PROGRAM" /\ word.gen = seenWord[p].gen /\ ~Unacknowledged

(* The handshake implements the abstract takeover. *)
Abstract == INSTANCE SafetyTakeover WITH
  gen <- word.gen,
  phase <- IF word.owner # "SAFETY" THEN "ordinary"
           ELSE IF ~word.handshake THEN "closed"
           ELSE IF fenced THEN "fenced" ELSE "open",
  epoch <- pub.epoch,
  source <- pub.source

TakeoverRefined == Abstract!TakeoverSpec

(* An open handshake is closed, whoever is preempted. *)
HandshakeCloses == word.handshake ~> ~word.handshake

=============================================================================
