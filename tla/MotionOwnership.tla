--------------------------- MODULE MotionOwnership ---------------------------
(***************************************************************************)
(* The motion ownership word of MotionCore and the safety request protocol *)
(* built on it.  One 64-bit atomic holds the owner of the machine's        *)
(* motion, the owner's generation, the ticket of the newest safety request *)
(* and four flags.  A second atomic holds the newest acknowledged ticket.  *)
(*                                                                         *)
(* Requesters (alarm, PLC, HMI and NC code) ask for an emergency stop or a *)
(* stop; takers call TakeSafetyMotionOwner; clients acquire, transfer and  *)
(* release ordinary ownership; the 250 us motion thread Rt applies the     *)
(* requests, helps takeovers, acknowledges and sends servo frames.         *)
(*                                                                         *)
(* Every load, store and compare-exchange of the word, of the              *)
(* acknowledgement, of the revocation count and of the recovery flag is a  *)
(* step.  Three reads of several atomics are one step each: the mailboxes, *)
(* the gates of the frame proof, and the action ticket joined when the     *)
(* mailbox is posted.  The retry budget of a compare-exchange is unlimited *)
(* and EnsureSafetyMotionOwnerEpoch is a single step; the handshake it     *)
(* runs is the subject of SafetyEpochHandshake.  Tickets and generations   *)
(* do not wrap: every requester and taker calls once, and a client         *)
(* acquires below MaxGeneration only.                                      *)
(***************************************************************************)
EXTENDS Integers, FiniteSets

CONSTANTS
  Requester,      (* threads that request an emergency stop or a stop      *)
  Taker,          (* threads that call TakeSafetyMotionOwner               *)
  Client,         (* threads that own motion in the ordinary way           *)
  Rt,             (* the 250 us motion thread                              *)
  RequestKind,    (* the mailboxes they post: "estop", "stop"              *)
  OrdinaryOwner,  (* MotionOwner without NONE and SAFETY                   *)
  MaxGeneration   (* generation at which clients stop acquiring            *)

Thread == Requester \cup Taker \cup Client \cup {Rt}
Owner == OrdinaryOwner \cup {"NONE", "SAFETY"}

ASSUME ThreadAssumption ==
  /\ Requester \cap Taker = {}
  /\ (Requester \cup Taker) \cap Client = {}
  /\ Rt \notin Requester \cup Taker \cup Client
ASSUME RequestKindAssumption == RequestKind \subseteq {"estop", "stop"}
ASSUME OwnerAssumption == "NONE" \notin OrdinaryOwner /\ "SAFETY" \notin OrdinaryOwner
ASSUME MaxGenerationAssumption == MaxGeneration \in Nat

VARIABLES
  word,            (* m_motionOwnerState                                   *)
  acked,           (* m_safetyRequestAcknowledgedTicket                    *)
  publishers,      (* m_executionDrainRevocationPublishersInProgress       *)
  recovering,      (* m_safetyRecoveryRequestInProgress                    *)
  controlledStop,  (* m_safetyControlledStopInProgress                     *)
  stopAuthority,   (* generation and ticket the controlled stop runs under *)
  posted,          (* the requesters whose mailbox is set and not consumed *)
  consumed,        (* the requesters whose mailbox the pass in progress    *)
                   (* has taken and is applying                            *)
  kind,            (* the mailbox each requester posts                     *)
  granted,         (* history: the ticket a request was granted, 0 if none *)
  pc,              (* where each thread is in its call                     *)
  seen,            (* the word a thread loaded last                        *)
  ticket,          (* the ticket a thread works for                        *)
  lease,           (* the generation of the lease a takeover returned      *)
  expected,        (* the acknowledgement an acknowledger loaded           *)
  gate,            (* which of its three checks an acknowledger is in      *)
  wanted,          (* the owner a client is moving the word to             *)
  helping          (* Rt's pass is past ApplyPendingSafetyAndRecovery...   *)

shared == <<word, acked, publishers, recovering, controlledStop, stopAuthority>>
requests == <<posted, consumed, kind, granted>>
locals == <<seen, ticket, lease, expected, gate, wanted, helping>>
vars == <<shared, requests, pc, locals>>

Word == [owner : Owner, gen : Nat, ticket : Nat, handshake : BOOLEAN,
         action : BOOLEAN, reserved : BOOLEAN]

NoMotion == [owner |-> "NONE", gen |-> 1, ticket |-> 0, handshake |-> FALSE,
             action |-> FALSE, reserved |-> FALSE]

NoAuthority == [gen |-> 0, ticket |-> 0]
WordAuthority == [gen |-> word.gen, ticket |-> word.ticket]

Init ==
  /\ word = NoMotion /\ acked = 0 /\ publishers = 0
  /\ recovering = FALSE
  /\ controlledStop = FALSE /\ stopAuthority = NoAuthority
  /\ posted = {} /\ consumed = {}
  /\ kind \in [Requester -> RequestKind]
  /\ granted = [r \in Requester |-> 0]
  /\ pc = [t \in Thread |-> "idle"]
  /\ seen = [t \in Thread |-> NoMotion]
  /\ ticket = [t \in Thread |-> 0]
  /\ lease = [t \in Thread |-> 0]
  /\ expected = [t \in Thread |-> 0]
  /\ gate = [t \in Thread |-> "entry"]
  /\ wanted = [t \in Thread |-> "NONE"]
  /\ helping = FALSE

Goto(t, label) == pc' = [pc EXCEPT ![t] = label]
At(t, label) == pc[t] = label

(* The word is free for an ordinary compare-exchange. *)
Unfenced(w) == ~w.handshake /\ ~w.action /\ ~w.reserved

Unacknowledged == word.ticket # acked \/ word.action

(* How a taker's, a requester's or the motion thread's call goes on after  *)
(* its takeover attempt, and after its acknowledgement attempt.            *)
AfterTake(t) ==
  IF t # Rt THEN "end" ELSE IF helping THEN "ack publishers" ELSE "authorize"
AfterAck(t) == IF t # Rt THEN "done" ELSE IF helping THEN "settle" ELSE "help"

-----------------------------------------------------------------------------
(* Mutant: under SAFETY no new ticket seems to be needed. *)
PublishTicketUnlessSafety(t, requiresRT) ==
  IF word.reserved \/ word.owner = "SAFETY"
  THEN ticket' = [ticket EXCEPT ![t] = word.ticket] /\ UNCHANGED word
  ELSE /\ word' = [word EXCEPT !.ticket = @ + 1, !.action = @ \/ requiresRT]
       /\ ticket' = [ticket EXCEPT ![t] = word.ticket + 1]

(* PublishSafetyMotionRequestTicket(requiresRTApplication): one            *)
(* compare-exchange advances the ticket and keeps owner, generation and    *)
(* handshake.  It is refused while a frame or a release has reserved the   *)
(* word.                                                                   *)
PublishTicket(t, requiresRT) ==
  IF word.reserved
  THEN ticket' = [ticket EXCEPT ![t] = 0] /\ UNCHANGED word
  ELSE /\ word' = [word EXCEPT !.ticket = @ + 1, !.action = @ \/ requiresRT]
       /\ ticket' = [ticket EXCEPT ![t] = word.ticket + 1]

(* BeginExecutionDrainAcknowledgementRevocation *)
Begin(t) ==
  /\ t \in Requester \cup Taker
  /\ At(t, "idle")
  /\ publishers' = publishers + 1
  /\ Goto(t, "ticket")
  /\ UNCHANGED <<word, acked, recovering, controlledStop, stopAuthority,
                 requests, locals>>

RequestTicket(r) ==
  /\ r \in Requester
  /\ At(r, "ticket")
  /\ PublishTicket(r, TRUE)
  /\ granted' = [granted EXCEPT ![r] = ticket'[r]]
  /\ Goto(r, "post")
  /\ UNCHANGED <<acked, publishers, recovering, controlledStop, stopAuthority,
                 posted, consumed, kind, seen, lease, expected, gate, wanted, helping>>

TakeoverTicket(t) ==
  /\ t \in Taker
  /\ At(t, "ticket")
  /\ PublishTicket(t, FALSE)
  /\ Goto(t, "take")
  /\ UNCHANGED <<acked, publishers, recovering, controlledStop, stopAuthority,
                 requests, seen,
                 lease, expected, gate, wanted, helping>>

(* EnsureSafetyMotionActionTicket joins the current unacknowledged action  *)
(* ticket if there is one, then the mailbox is set.                        *)
PostMailbox(r) ==
  /\ r \in Requester
  /\ At(r, "post")
  /\ ticket' = [ticket EXCEPT ![r] =
       IF word.ticket \notin {0, acked} /\ word.action THEN word.ticket ELSE 0]
  /\ posted' = posted \cup {r}
  /\ Goto(r, "take")
  /\ UNCHANGED <<shared, consumed, kind, granted, seen, lease, expected, gate,
                 wanted, helping>>

(* EndExecutionDrainAcknowledgementRevocation.  TakeSafetyMotionOwner then *)
(* tries to acknowledge; a request returns.                                *)
End(t) ==
  /\ t \in Requester \cup Taker
  /\ At(t, "end")
  /\ publishers' = publishers - 1
  /\ seen' = [seen EXCEPT ![t] = NoMotion]
  /\ ticket' = [ticket EXCEPT ![t] = 0]
  /\ lease' = [lease EXCEPT ![t] = 0]
  /\ Goto(t, IF t \in Taker THEN "ack publishers" ELSE "done")
  /\ UNCHANGED <<word, acked, recovering, controlledStop, stopAuthority,
                 requests, expected, gate, wanted, helping>>

-----------------------------------------------------------------------------
(* TryTakeSafetyMotionOwnerForTicket.                                      *)

TakeLoad(t) ==
  /\ At(t, "take")
  /\ seen' = [seen EXCEPT ![t] = word]
  /\ lease' = [lease EXCEPT ![t] = 0]
  /\ Goto(t, IF ticket[t] = 0 THEN AfterTake(t) ELSE "judge")
  /\ UNCHANGED <<shared, requests, ticket, expected, gate, wanted, helping>>

TakeJudge(t) ==
  /\ At(t, "judge")
  /\ LET w == seen[t] IN
     IF w.reserved \/ w.ticket \in {0, acked}
     THEN Goto(t, AfterTake(t)) /\ UNCHANGED lease
     ELSE IF w.owner # "SAFETY"
     THEN Goto(t, "seize") /\ UNCHANGED lease
     ELSE /\ lease' = [lease EXCEPT ![t] = w.gen]
          /\ Goto(t, IF w.handshake THEN "ensure" ELSE AfterTake(t))
  /\ UNCHANGED <<shared, requests, seen, ticket, expected, gate, wanted, helping>>

(* The takeover itself; a failed compare-exchange reloads the word. *)
TakeSeize(t) ==
  /\ At(t, "seize")
  /\ IF word = seen[t]
     THEN /\ word' = [word EXCEPT !.owner = "SAFETY", !.gen = @ + 1,
                                  !.handshake = TRUE]
          /\ lease' = [lease EXCEPT ![t] = word.gen + 1]
          /\ Goto(t, "ensure")
          /\ UNCHANGED seen
     ELSE /\ seen' = [seen EXCEPT ![t] = word]
          /\ Goto(t, "judge")
          /\ UNCHANGED <<word, lease>>
  /\ UNCHANGED <<acked, publishers, recovering, controlledStop, stopAuthority,
                 requests,
                 ticket, expected, gate, wanted, helping>>

(* EnsureSafetyMotionOwnerEpoch: the helper that finds the handshake open  *)
(* publishes the successor epoch and closes it; a lost lease is invalid.   *)
TakeEnsure(t) ==
  /\ At(t, "ensure")
  /\ IF word.owner = "SAFETY" /\ word.gen = lease[t]
     THEN word' = [word EXCEPT !.handshake = FALSE] /\ UNCHANGED lease
     ELSE lease' = [lease EXCEPT ![t] = 0] /\ UNCHANGED word
  /\ Goto(t, AfterTake(t))
  /\ UNCHANGED <<acked, publishers, recovering, controlledStop, stopAuthority,
                 requests, seen,
                 ticket, expected, gate, wanted, helping>>

Take(t) == TakeLoad(t) \/ TakeJudge(t) \/ TakeSeize(t) \/ TakeEnsure(t)

-----------------------------------------------------------------------------
(* CompleteSafetyMotionActionTicket: clears the action flag of exactly     *)
(* that ticket.                                                            *)
CompleteAction(forTicket) ==
  word' = IF word.ticket = forTicket THEN [word EXCEPT !.action = FALSE] ELSE word

(* TryAcknowledgeAppliedSafetyMotionRequests.  The gates (no publisher, no *)
(* recovery or controlled stop in progress, no mailbox) are read in this   *)
(* order at entry, before an orphaned action flag is cleared, and before   *)
(* the acknowledgement is committed.                                       *)
LeaveAck(t) ==
  /\ Goto(t, AfterAck(t))
  /\ gate' = [gate EXCEPT ![t] = "entry"]
  /\ seen' = [seen EXCEPT ![t] = NoMotion]
  /\ expected' = [expected EXCEPT ![t] = 0]
  /\ ticket' = [ticket EXCEPT ![t] = 0]
  /\ lease' = [lease EXCEPT ![t] = 0]
  /\ UNCHANGED <<wanted, helping>>

Continue(t, label) == Goto(t, label) /\ UNCHANGED locals

(* Mutant: a producer between its ticket and its mailbox is overlooked. *)
AckPublishersUnchecked(t) ==
  /\ At(t, "ack publishers")
  /\ Continue(t, "ack recovery")
  /\ UNCHANGED <<shared, requests>>

AckPublishers(t) ==
  /\ At(t, "ack publishers")
  /\ IF publishers # 0 THEN LeaveAck(t) ELSE Continue(t, "ack recovery")
  /\ UNCHANGED <<shared, requests>>

AckRecovery(t) ==
  /\ At(t, "ack recovery")
  /\ IF recovering \/ controlledStop
     THEN LeaveAck(t) ELSE Continue(t, "ack mailboxes")
  /\ UNCHANGED <<shared, requests>>

AckMailboxes(t) ==
  /\ At(t, "ack mailboxes")
  /\ IF posted # {} THEN LeaveAck(t)
     ELSE Continue(t, CASE gate[t] = "entry" -> "ack load"
                        [] gate[t] = "action" -> "ack complete"
                        [] gate[t] = "commit" -> "ack commit")
  /\ UNCHANGED <<shared, requests>>

(* An acknowledger goes on only under SAFETY with the handshake closed and *)
(* no frame on its way.                                                    *)
Acknowledgeable(w) ==
  w.owner = "SAFETY" /\ ~w.handshake /\ ~w.reserved /\ w.ticket # 0

AckLoad(t) ==
  /\ At(t, "ack load")
  /\ IF ~Acknowledgeable(word) THEN LeaveAck(t)
     ELSE /\ seen' = [seen EXCEPT ![t] = word]
          /\ gate' = [gate EXCEPT ![t] = IF word.action THEN "action" ELSE @]
          /\ Goto(t, IF word.action THEN "ack publishers" ELSE "ack read")
          /\ UNCHANGED <<ticket, lease, expected, wanted, helping>>
  /\ UNCHANGED <<shared, requests>>

AckComplete(t) ==
  /\ At(t, "ack complete")
  /\ CompleteAction(seen[t].ticket)
  /\ IF word.ticket # seen[t].ticket
     THEN LeaveAck(t) ELSE Continue(t, "ack reload")
  /\ UNCHANGED <<acked, publishers, recovering, controlledStop, stopAuthority,
                 requests>>

AckReload(t) ==
  /\ At(t, "ack reload")
  /\ IF ~Acknowledgeable(word) \/ word.action \/ word.ticket # seen[t].ticket
     THEN LeaveAck(t)
     ELSE /\ seen' = [seen EXCEPT ![t] = word]
          /\ Goto(t, "ack read")
          /\ UNCHANGED <<ticket, lease, expected, gate, wanted, helping>>
  /\ UNCHANGED <<shared, requests>>

AckRead(t) ==
  /\ At(t, "ack read")
  /\ IF acked = seen[t].ticket THEN LeaveAck(t)
     ELSE /\ expected' = [expected EXCEPT ![t] = acked]
          /\ Goto(t, "ack word")
          /\ UNCHANGED <<seen, ticket, lease, gate, wanted, helping>>
  /\ UNCHANGED <<shared, requests>>

AckWord(t) ==
  /\ At(t, "ack word")
  /\ IF word # seen[t] THEN LeaveAck(t)
     ELSE /\ gate' = [gate EXCEPT ![t] = "commit"]
          /\ Goto(t, "ack publishers")
          /\ UNCHANGED <<seen, ticket, lease, expected, wanted, helping>>
  /\ UNCHANGED <<shared, requests>>

AckCommit(t) ==
  /\ At(t, "ack commit")
  /\ acked' = IF acked = expected[t] THEN seen[t].ticket ELSE acked
  /\ LeaveAck(t)
  /\ UNCHANGED <<word, publishers, recovering, controlledStop, stopAuthority,
                 requests>>

Acknowledge(t) ==
  \/ AckPublishers(t) \/ AckRecovery(t) \/ AckMailboxes(t) \/ AckLoad(t)
  \/ AckComplete(t) \/ AckReload(t) \/ AckRead(t) \/ AckWord(t) \/ AckCommit(t)

-----------------------------------------------------------------------------
(* The motion thread: one pass of UpdateInterpolation and one frame.       *)

(* ApplyPendingSafetyAndRecoveryRequests: the mailbox, the recovery flag,  *)
(* the ticket, the takeover, the publishers, the action flag, the claims,  *)
(* the stop itself, and the flag again.                                    *)
RtPoll ==
  /\ At(Rt, "idle")
  /\ recovering' = (posted # {})
  /\ Goto(Rt, IF posted # {} THEN "load" ELSE "help")
  /\ UNCHANGED <<word, acked, publishers, controlledStop, stopAuthority, requests, locals>>

RtLoad ==
  /\ At(Rt, "load")
  /\ seen' = [seen EXCEPT ![Rt] = word]
  /\ Goto(Rt, "ticket")
  /\ UNCHANGED <<shared, requests, ticket, lease, expected, gate, wanted, helping>>

(* Mutant: the motion thread relies on the requester's own ticket. *)
RtTicketOfRequesterOnly ==
  /\ At(Rt, "ticket")
  /\ ticket' = [ticket EXCEPT ![Rt] = seen[Rt].ticket]
  /\ Goto(Rt, "take")
  /\ UNCHANGED <<shared, requests, seen, lease, expected, gate, wanted, helping>>

RtTicket ==
  /\ At(Rt, "ticket")
  /\ IF seen[Rt].ticket \in {0, acked}
     THEN PublishTicket(Rt, FALSE)
     ELSE ticket' = [ticket EXCEPT ![Rt] = seen[Rt].ticket] /\ UNCHANGED word
  /\ Goto(Rt, "take")
  /\ UNCHANGED <<acked, publishers, recovering, controlledStop, stopAuthority,
                 requests, seen,
                 lease, expected, gate, wanted, helping>>

(* Every mailbox is kept for the next pass. *)
RtKeepForNextPass ==
  /\ recovering' = FALSE
  /\ Goto(Rt, "help")
  /\ UNCHANGED <<word, acked, publishers, controlledStop, stopAuthority, requests, locals>>

RtAuthorize ==
  /\ At(Rt, "authorize")
  /\ IF /\ lease[Rt] # 0
        /\ word.owner = "SAFETY" /\ word.gen = lease[Rt] /\ ~word.handshake
     THEN Continue(Rt, "publishers") /\ UNCHANGED <<shared, requests>>
     ELSE RtKeepForNextPass

RtPublishers ==
  /\ At(Rt, "publishers")
  /\ IF publishers = 0
     THEN Continue(Rt, "complete") /\ UNCHANGED <<shared, requests>>
     ELSE RtKeepForNextPass

RtComplete ==
  /\ At(Rt, "complete")
  /\ IF word.action /\ word.ticket # ticket[Rt]
     THEN RtKeepForNextPass
     ELSE /\ word' = [word EXCEPT !.action = FALSE]
          /\ Continue(Rt, "claim estop")
          /\ UNCHANGED <<acked, publishers, recovering, controlledStop, stopAuthority,
                 requests>>

PostedOf(which) == {r \in posted : kind[r] = which}

Claim(which) ==
  /\ posted' = posted \ PostedOf(which)
  /\ consumed' = consumed \cup PostedOf(which)
  /\ UNCHANGED <<kind, granted, shared>>

(* The emergency stop is claimed first and supersedes the other mailboxes. *)
RtClaimEmergencyStop ==
  /\ At(Rt, "claim estop") /\ Claim("estop") /\ Continue(Rt, "claim stop")

RtClaimStop ==
  /\ At(Rt, "claim stop") /\ Claim("stop") /\ Continue(Rt, "apply")

(* EmergencyStopAllAxesImpl leaves no controlled stop; StopGroupImpl       *)
(* starts one when the group is moving.                                    *)
RtApply ==
  /\ At(Rt, "apply")
  /\ controlledStop' \in IF \E r \in consumed : kind[r] = "estop"
                         THEN {FALSE} ELSE BOOLEAN
  /\ stopAuthority' = IF controlledStop' THEN WordAuthority ELSE NoAuthority
  /\ Continue(Rt, "finish")
  /\ UNCHANGED <<word, acked, publishers, recovering, requests>>

RtFinish ==
  /\ At(Rt, "finish")
  /\ CompleteAction(ticket[Rt])
  /\ Continue(Rt, "applied")
  /\ UNCHANGED <<acked, publishers, recovering, controlledStop, stopAuthority,
                 requests>>

RtApplied ==
  /\ At(Rt, "applied")
  /\ recovering' = FALSE
  /\ consumed' = {}
  /\ Continue(Rt, "ack publishers")
  /\ UNCHANGED <<word, acked, publishers, controlledStop, stopAuthority, posted, kind, granted>>

(* Mutant: no help is given; the acknowledgement is tried by an applying   *)
(* pass only.                                                              *)
RtHelpNobody ==
  /\ At(Rt, "help")
  /\ helping' = TRUE
  /\ Goto(Rt, "settle")
  /\ UNCHANGED <<shared, requests, seen, ticket, lease, expected, gate, wanted>>

(* The help for a takeover whose producer was preempted. *)
RtHelp ==
  /\ At(Rt, "help")
  /\ helping' = TRUE
  /\ ticket' = [ticket EXCEPT ![Rt] = word.ticket]
  /\ Goto(Rt, IF Unacknowledged THEN "take" ELSE "settle")
  /\ UNCHANGED <<shared, requests, seen, lease, expected, gate, wanted>>

(* The end of the pass: the group is still moving, or it has stopped and   *)
(* with it a controlled stop.                                              *)
RtSettle(stopped) ==
  /\ At(Rt, "settle")
  /\ ~controlledStop => stopped
  /\ controlledStop' = (controlledStop /\ ~stopped)
  /\ stopAuthority' = IF stopped THEN NoAuthority ELSE stopAuthority
  /\ Continue(Rt, "frame")
  /\ UNCHANGED <<word, acked, publishers, recovering, requests>>

(* BeginServoOutputFrameAtSendPoint: ordinary motion with nothing pending, *)
(* or an authorized controlled stop; otherwise the frame carries zero.     *)
SendAllowed ==
  /\ Unfenced(word)
  /\ publishers = 0 /\ ~recovering /\ posted = {}
  /\ \/ word.owner \in OrdinaryOwner /\ ~Unacknowledged
     \/ word.owner = "SAFETY" /\ controlledStop /\ stopAuthority = WordAuthority

RtFrame ==
  /\ At(Rt, "frame")
  /\ helping' = FALSE
  /\ seen' = [seen EXCEPT ![Rt] = IF SendAllowed THEN word ELSE NoMotion]
  /\ ticket' = [ticket EXCEPT ![Rt] = 0]
  /\ lease' = [lease EXCEPT ![Rt] = 0]
  /\ Goto(Rt, IF SendAllowed THEN "reserve" ELSE "idle")
  /\ UNCHANGED <<shared, requests, expected, gate, wanted>>

(* Mutant: the reservation is stored without comparing the proof. *)
RtReserveBlindly ==
  /\ At(Rt, "reserve")
  /\ word' = [word EXCEPT !.reserved = TRUE]
  /\ seen' = [seen EXCEPT ![Rt] = NoMotion]
  /\ Goto(Rt, "send")
  /\ UNCHANGED <<acked, publishers, recovering, controlledStop, stopAuthority,
                 requests,
                 ticket, lease, expected, gate, wanted, helping>>

RtReserve ==
  /\ At(Rt, "reserve")
  /\ word' = [word EXCEPT !.reserved = @ \/ word = seen[Rt]]
  /\ seen' = [seen EXCEPT ![Rt] = NoMotion]
  /\ Goto(Rt, IF word = seen[Rt] THEN "send" ELSE "idle")
  /\ UNCHANGED <<acked, publishers, recovering, controlledStop, stopAuthority,
                 requests,
                 ticket, lease, expected, gate, wanted, helping>>

(* EndServoOutputFrameAfterSend *)
RtSend ==
  /\ At(Rt, "send")
  /\ word' = [word EXCEPT !.reserved = FALSE]
  /\ Continue(Rt, "idle")
  /\ UNCHANGED <<acked, publishers, recovering, controlledStop, stopAuthority,
                 requests>>

RtOwnStep ==
  \/ RtPoll \/ RtLoad \/ RtTicket \/ RtAuthorize \/ RtPublishers \/ RtComplete
  \/ RtClaimEmergencyStop \/ RtClaimStop \/ RtApply \/ RtFinish \/ RtApplied
  \/ RtHelp \/ \E stopped \in BOOLEAN : RtSettle(stopped)
  \/ RtFrame \/ RtReserve \/ RtSend

RtStep == RtOwnStep \/ Take(Rt) \/ Acknowledge(Rt)

-----------------------------------------------------------------------------
(* Ordinary ownership: load, compare with the acknowledgement, and one     *)
(* compare-exchange.  A client acts on the lease it has just observed.     *)

ClientLoad(c, owner) ==
  /\ At(c, "idle")
  /\ Unfenced(word)
  /\ wanted' = [wanted EXCEPT ![c] = owner]
  /\ seen' = [seen EXCEPT ![c] = word]
  /\ Goto(c, "compare")
  /\ UNCHANGED <<shared, requests, ticket, lease, expected, gate, helping>>

TryAcquireMotionOwner(c, owner) ==
  /\ word.owner = "NONE" /\ word.gen < MaxGeneration
  /\ ClientLoad(c, owner)

(* HOME alone transfers: from the program or the manual mode that moves,   *)
(* and back.  It never holds a SAFETY lease.                               *)
TryTransferMotionOwner(c, owner) ==
  /\ word.owner \in OrdinaryOwner \ {owner} /\ word.gen < MaxGeneration
  /\ ClientLoad(c, owner)

ReleaseMotionOwner(c) == word.owner # "NONE" /\ ClientLoad(c, "NONE")

(* TryReleaseSafetyMotionOwner, at the end of RESET.  Rt has authorized it *)
(* when nothing was pending, and no call has begun since.                  *)
TryReleaseSafetyMotionOwner(c) ==
  /\ At(c, "idle")
  /\ word.owner = "SAFETY" /\ Unfenced(word) /\ word.ticket = acked
  /\ publishers = 0 /\ ~recovering /\ posted = {} /\ ~controlledStop
  /\ seen' = [seen EXCEPT ![c] = word]
  /\ Goto(c, "hold")
  /\ UNCHANGED <<shared, requests, ticket, lease, expected, gate, wanted, helping>>

ClientReturn(c) ==
  /\ Goto(c, "idle")
  /\ seen' = [seen EXCEPT ![c] = NoMotion]
  /\ wanted' = [wanted EXCEPT ![c] = "NONE"]
  /\ UNCHANGED <<ticket, lease, expected, gate, helping>>

(* The word is reserved, like for a frame: no ticket is published while    *)
(* everything is read again.                                               *)
ReleaseHold(c) ==
  /\ At(c, "hold")
  /\ IF word = seen[c]
     THEN /\ word' = [word EXCEPT !.reserved = TRUE]
          /\ seen' = [seen EXCEPT ![c] = word']
          /\ Goto(c, "publishers")
          /\ UNCHANGED <<ticket, lease, expected, gate, wanted, helping>>
     ELSE ClientReturn(c) /\ UNCHANGED word
  /\ UNCHANGED <<acked, publishers, recovering, controlledStop, stopAuthority,
                 requests>>

ReleaseLetGo(c) ==
  /\ At(c, "let go")
  /\ word' = [word EXCEPT !.reserved = FALSE]
  /\ ClientReturn(c)
  /\ UNCHANGED <<acked, publishers, recovering, controlledStop, stopAuthority,
                 requests>>

(* A release that is refused gives its reservation back. *)
ClientRefused(c) ==
  IF seen[c].reserved THEN Continue(c, "let go") ELSE ClientReturn(c)

(* Mutant: the ticket is not compared with the acknowledgement. *)
ClientCompareNothing(c) ==
  /\ At(c, "compare")
  /\ Continue(c, IF seen[c].owner = "SAFETY" THEN "publishers" ELSE "swap")
  /\ UNCHANGED <<shared, requests>>

ClientCompare(c) ==
  /\ At(c, "compare")
  /\ IF seen[c].ticket # acked THEN ClientReturn(c)
     ELSE Continue(c, IF seen[c].owner = "SAFETY" THEN "publishers" ELSE "swap")
  /\ UNCHANGED <<shared, requests>>

(* SAFETY is released only after HasPendingSafetyOrRecoveryRequests and    *)
(* the controlled stop have been read.  (The code reads the publishers and *)
(* the recovery flag once before as well.)                                 *)
Check(c, label, holds, next) ==
  /\ At(c, label)
  /\ IF holds THEN Continue(c, next) ELSE ClientRefused(c)
  /\ UNCHANGED <<shared, requests>>

ReleaseCheck(c) ==
  \/ Check(c, "publishers", publishers = 0, "unacknowledged")
  \/ Check(c, "unacknowledged", ~Unacknowledged, "recovering")
  \/ Check(c, "recovering", ~recovering, "mailboxes")
  \/ Check(c, "mailboxes", posted = {}, "stopping")
  \/ Check(c, "stopping", ~controlledStop, "swap")

(* Mutant: the word is stored, not compared and exchanged. *)
ClientSwapBlindly(c) ==
  /\ At(c, "swap")
  /\ word' = [seen[c] EXCEPT !.owner = wanted[c], !.gen = @ + 1]
  /\ ClientReturn(c)
  /\ UNCHANGED <<acked, publishers, recovering, controlledStop, stopAuthority,
                 requests>>

ClientSwap(c) ==
  /\ At(c, "swap")
  /\ IF word = seen[c]
     THEN /\ word' = [word EXCEPT !.owner = wanted[c], !.gen = @ + 1, !.reserved = FALSE]
          /\ ClientReturn(c)
     ELSE ClientRefused(c) /\ UNCHANGED word
  /\ UNCHANGED <<acked, publishers, recovering, controlledStop, stopAuthority,
                 requests>>

ClientGoesOn(c) ==
  \/ ClientCompare(c) \/ ReleaseHold(c) \/ ReleaseCheck(c) \/ ReleaseLetGo(c)
  \/ ClientSwap(c)

ClientStep(c) ==
  \/ \E owner \in OrdinaryOwner :
       TryAcquireMotionOwner(c, owner) \/ TryTransferMotionOwner(c, owner)
  \/ ReleaseMotionOwner(c) \/ TryReleaseSafetyMotionOwner(c)
  \/ ClientGoesOn(c)

RequesterStep(t) ==
  Begin(t) \/ RequestTicket(t) \/ PostMailbox(t) \/ Take(t) \/ End(t)

TakerStep(t) ==
  Begin(t) \/ TakeoverTicket(t) \/ Take(t) \/ End(t) \/ Acknowledge(t)

Next ==
  \/ RtStep
  \/ \E r \in Requester : RequesterStep(r)
  \/ \E t \in Taker : TakerStep(t)
  \/ \E c \in Client : ClientStep(c)

Spec == Init /\ [][Next]_vars

(* The motion thread runs every 250 us; a call that was made is finished   *)
(* by its thread; nobody has to acquire or release ordinary ownership; a   *)
(* controlled stop, which only decelerates, reaches standstill.            *)
Fairness ==
  /\ WF_vars(RtStep)
  /\ SF_vars(RtSettle(TRUE))
  /\ \A r \in Requester : WF_vars(RequesterStep(r))
  /\ \A t \in Taker : WF_vars(TakerStep(t))
  /\ \A c \in Client : WF_vars(ClientGoesOn(c))

FairSpec == Spec /\ Fairness

-----------------------------------------------------------------------------
Label == {"idle", "ticket", "post", "take", "judge", "seize", "ensure", "end",
  "done", "ack publishers", "ack recovery", "ack mailboxes", "ack load",
  "ack complete", "ack reload", "ack read", "ack word", "ack commit", "load",
  "authorize", "publishers", "complete", "claim estop", "claim stop", "apply",
  "finish", "applied", "help", "settle", "frame", "reserve", "send",
  "compare", "hold", "unacknowledged", "recovering", "mailboxes", "stopping", "swap",
  "let go"}

(* Type invariant of the two words, the flags and the local state. *)
TypeOK ==
  /\ word \in Word /\ acked \in Nat /\ publishers \in Nat
  /\ recovering \in BOOLEAN /\ controlledStop \in BOOLEAN
  /\ stopAuthority \in [gen : Nat, ticket : Nat]
  /\ posted \subseteq Requester /\ consumed \subseteq Requester
  /\ kind \in [Requester -> RequestKind]
  /\ granted \in [Requester -> Nat]
  /\ pc \in [Thread -> Label]
  /\ seen \in [Thread -> Word]
  /\ ticket \in [Thread -> Nat] /\ lease \in [Thread -> Nat]
  /\ expected \in [Thread -> Nat]
  /\ gate \in [Thread -> {"entry", "action", "commit"}]
  /\ wanted \in [Thread -> OrdinaryOwner \cup {"NONE"}]
  /\ helping \in BOOLEAN

(* A request is owed from the moment it has its ticket until the motion    *)
(* thread has finished the pass that applied it.                           *)
Owed(r) == granted[r] # 0 /\ (pc[r] = "post" \/ r \in posted \cup consumed)

(* While a request is owed, either its ticket is outstanding, which fences *)
(* every ordinary use of the word, or SAFETY owns the motion: the window   *)
(* between ticket, mailbox, takeover and application is never open.        *)
OwedRequestHoldsMotion ==
  \A r \in Requester :
    Owed(r) => word.ticket # acked \/ word.owner = "SAFETY"

(* An acknowledged request has been consumed from its mailbox: no          *)
(* acknowledgement passes a producer that has yet to post.                 *)
AcknowledgedRequestConsumed ==
  \A r \in Requester :
    granted[r] \in 1 .. acked => pc[r] # "post" /\ r \notin posted

(* The motion thread stops the group only under the SAFETY lease that its  *)
(* pass validated, however long ago that was.                              *)
AppliedUnderSafety ==
  pc[Rt] \in {"claim estop", "claim stop", "apply", "finish", "applied"} =>
    word.owner = "SAFETY" /\ word.gen = lease[Rt]

(* An outstanding ticket fences the word: its owner then changes to SAFETY *)
(* only, and never away from it.                                           *)
OutstandingTicketFencesOwner ==
  [][word.ticket # acked /\ word'.owner # word.owner
       => word'.owner = "SAFETY"]_vars

(* No frame of ordinary motion is reserved while a request that has its    *)
(* ticket is owed.                                                         *)
OwedRequestStopsOrdinaryFrames ==
  [][~word.reserved /\ word'.reserved /\ word.owner # "SAFETY"
       => \A r \in Requester : ~Owed(r)]_vars

(* SAFETY is given up only when no request is owed and no controlled stop  *)
(* is running.                                                             *)
SafetyReleasedWhenApplied ==
  [][word.owner = "SAFETY" /\ word'.owner # "SAFETY"
       => ~controlledStop /\ consumed = {} /\ \A r \in Requester : ~Owed(r)]_vars

(* Every posted request is applied, whatever refused its ticket.           *)
EveryRequestApplied ==
  \A r \in Requester : r \in posted ~> r \notin posted \cup consumed

(* Every outstanding ticket is acknowledged in the end: SAFETY can be      *)
(* released again.                                                         *)
EveryTicketAcknowledged == word.ticket # acked ~> word.ticket = acked

=============================================================================
