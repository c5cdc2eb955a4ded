------------------------- MODULE ResetControlledStop -------------------------
(***************************************************************************)
(* The controlled stop of the operator's RESET, and the emergency stop     *)
(* mailbox it races with.  RESET of a running program does not zero the    *)
(* output: the numerical control (NC) leaves a press in the phase word,    *)
(* the 250 us motion thread (RT) turns it into a SAFETY ticket and a       *)
(* deceleration of its own, and the NC consumes the result before it goes  *)
(* on to the ordinary RESET batch.  Any emergency stop or stop request, an *)
(* alarm, and a lost axis mapping detected by RT supersede the press.      *)
(*                                                                         *)
(* The steps are the atomic operations of the code; a bounded              *)
(* compare-exchange loop is one step, and so is its contention fallback.   *)
(* TryAcknowledgeAppliedSafetyMotionRequests is one step too, and output   *)
(* reservations and takeover handshakes are left out: MotionOwnership and  *)
(* SafetyEpochHandshake take them apart.  Here a takeover fails only when  *)
(* the mapping containment chooses so, because its evidence then goes      *)
(* through the mailbox.  Of the requests the emergency stop and the group  *)
(* stop are kept.  The RESET batch, which ends with SAFETY released and    *)
(* the next program started, is one step.                                  *)
(***************************************************************************)
EXTENDS ResetControlledStopParameters

Caller == Stopper \cup {Nc}

VARIABLES
  phase,       (* m_resetControlledStopPhase                               *)
  word,        (* m_motionOwnerState: SAFETY?, ticket, action pending?     *)
  acked,       (* m_safetyRequestAcknowledgedTicket                        *)
  publishers,  (* m_executionDrainRevocationPublishersInProgress           *)
  generation,  (* m_executionDrainRevocationGeneration                     *)
  epoch,       (* the execution epoch                                      *)
  mailbox,     (* m_emergencyStopRequestPublication                        *)
  stop,        (* m_stopGroupPending                                       *)
  recovering,  (* m_safetyRecoveryRequestInProgress                        *)
  alarm,       (* AlarmManager and the mapping alarm on its way to it      *)
  group,       (* m_Group.isActive, and whether it still moves             *)
  token,       (* ticket of the controlled stop in progress, 0 if none     *)
  evidence,    (* the epoch invalidation recorded last                     *)
  pc, causal,  (* per caller: where it is, the epoch it captured           *)
  kind,        (* what each requester asks for                             *)
  nc,          (* where the NC is in its RESET                             *)
  rt, own, own_generation, claimed, authority,
               (* RT: where it is, the ticket it works for, the captured   *)
               (* generation, the mailbox it claimed, whether its mapping  *)
               (* containment has SAFETY                                   *)
  presses, incidents,  (* counted against the bounds                       *)
  interrupted, (* history: a request was ticketed since the last press     *)
  clean,       (* history: it was not, when the NC began its last poll     *)
  owed         (* history: epochs whose evidence entered the mailbox and   *)
               (* was not recorded since                                   *)

authorityVars == <<word, acked, publishers, generation, epoch, recovering>>
mailVars == <<mailbox, stop>>
motionVars == <<group, token, evidence, owed>>
callerVars == <<pc, causal, kind>>
ncVars == <<nc, presses, clean>>
rtVars == <<rt, own, own_generation, claimed, authority>>
alarmVars == <<alarm, incidents>>
vars == <<phase, authorityVars, mailVars, motionVars, callerVars, ncVars, rtVars,
          alarmVars, interrupted>>

Empty == [pending |-> FALSE, evidence |-> FALSE, reserved |-> FALSE, epoch |-> 0]
Request(e, exact) ==
  [pending |-> TRUE, evidence |-> exact, reserved |-> FALSE, epoch |-> e]

Init ==
  /\ phase = "IDLE"
  /\ word = [safety |-> FALSE, ticket |-> 0, action |-> FALSE] /\ acked = 0
  /\ publishers = 0 /\ generation = 0 /\ epoch = 1 /\ recovering = FALSE
  /\ mailbox = Empty /\ stop = FALSE
  /\ alarm = "none" /\ incidents = 0
  /\ group = "moving" /\ token = 0
  /\ evidence = [from |-> 0, to |-> 0] /\ owed = {}
  /\ pc = [t \in Caller |-> "idle"]
  /\ causal = [t \in Caller |-> 0]
  /\ kind \in [Stopper -> {"estop", "stop"}]
  /\ nc = "run" /\ presses = 0 /\ clean = FALSE
  /\ rt = "apply" /\ own = 0 /\ own_generation = 0 /\ claimed = Empty
  /\ authority = FALSE
  /\ interrupted = FALSE

-----------------------------------------------------------------------------
(* What several threads do to the shared words. *)

(* Mutant: a stop that is already complete is left so. *)
SupersedeUnfinished ==
  phase' = IF phase \in {"IDLE", "COMPLETED"} THEN phase ELSE "SUPERSEDED"

(* SupersedeResetControlledStop *)
Supersede == phase' = IF phase = "IDLE" THEN "IDLE" ELSE "SUPERSEDED"

Unacknowledged == word.ticket # acked \/ word.action

MailPending == mailbox.pending \/ stop

(* HasPendingSafetyIntent, and HasResetControlledStopPriorityWinner *)
Intent == publishers # 0 \/ Unacknowledged \/ recovering \/ MailPending \/ alarm = "pending"
Winner == alarm # "none" \/ MailPending

(* PublishSafetyMotionRequestTicket *)
NextTicket(requiresRT) ==
  word' = [word EXCEPT !.ticket = @ + 1, !.action = @ \/ requiresRT]

(* TryTakeSafetyMotionOwnerForTicket: an unacknowledged ticket takes motion *)
(* over and begins the SAFETY epoch.                                        *)
TakeSafety ==
  IF word.ticket # acked /\ ~word.safety
  THEN word' = [word EXCEPT !.safety = TRUE] /\ epoch' = epoch + 1
  ELSE UNCHANGED <<word, epoch>>

(* TryAcknowledgeAppliedSafetyMotionRequests *)
Acknowledge ==
  IF publishers = 0 /\ ~recovering /\ token = 0 /\ ~MailPending /\ word.safety
  THEN word' = [word EXCEPT !.action = FALSE] /\ acked' = word.ticket
  ELSE UNCHANGED <<word, acked>>

(* EmergencyStopAllAxesImpl(force, cause): work of the epoch before is      *)
(* invalidated once, and recorded when SAFETY holds motion.                 *)
Contain(force, cause, takes) ==
  LET before == IF cause # 0 THEN cause ELSE epoch
      safety == word.safety \/ (takes /\ word.ticket # acked)
      taken == IF safety /\ ~word.safety THEN epoch + 1 ELSE epoch
      had == force \/ group # "still"
      after == IF had /\ taken = before THEN taken + 1 ELSE taken
  IN  /\ Supersede
      /\ word' = [word EXCEPT !.safety = safety]
      /\ epoch' = after
      /\ group' = "still" /\ token' = 0
      /\ IF had /\ safety /\ after # before
         THEN evidence' = [from |-> before, to |-> after] /\ owed' = owed \ {before}
         ELSE UNCHANGED <<evidence, owed>>

-----------------------------------------------------------------------------
(* RequestEmergencyStopAllAxes and RequestStopGroup, by a requester or, on  *)
(* an alarm, by the NC.                                                     *)
At(t, label) == pc[t] = label
Goto(t, label) == pc' = [pc EXCEPT ![t] = label]

(* The NC waits for the outcome of a press. *)
Waiting == nc \in {"waiting", "poll publishers", "poll word", "poll mail", "consume"}

Call(r) ==
  /\ r \in Stopper /\ At(r, "idle")
  /\ Supersede
  /\ Goto(r, "begin")
  /\ UNCHANGED <<authorityVars, mailVars, motionVars, causal, kind, ncVars,
                 rtVars, alarmVars, interrupted>>

(* The NC's scan finds an alarm: RESET is blocked and everything stopped.   *)
AlarmScan ==
  /\ alarm = "raised" /\ At(Nc, "idle")
  /\ nc \in {"run", "waiting", "blocked"}
  /\ nc' = "alarm"
  /\ Supersede
  /\ Goto(Nc, "begin")
  /\ interrupted' = FALSE
  /\ UNCHANGED <<authorityVars, mailVars, motionVars, causal, kind, presses,
                 clean, rtVars, alarmVars>>

(* BeginExecutionDrainAcknowledgementRevocation; then the causal epoch is read. *)
CallBegin(t) ==
  /\ At(t, "begin")
  /\ publishers' = publishers + 1 /\ generation' = generation + 1
  /\ causal' = [causal EXCEPT ![t] = epoch]
  /\ Goto(t, "ticket")
  /\ UNCHANGED <<phase, word, acked, epoch, recovering, mailVars, motionVars, kind, ncVars, rtVars, alarmVars, interrupted>>

CallTicket(t) ==
  /\ At(t, "ticket")
  /\ NextTicket(TRUE)
  /\ interrupted' = (interrupted \/ Waiting)
  /\ Goto(t, IF t \in Stopper /\ kind[t] = "stop" THEN "stop" ELSE "post")
  /\ UNCHANGED <<phase, acked, publishers, generation, epoch, recovering, mailVars,
                 motionVars, causal, kind, ncVars, rtVars, alarmVars>>

PostStop(t) ==
  /\ At(t, "stop")
  /\ stop' = TRUE
  /\ Goto(t, "take")
  /\ UNCHANGED <<phase, authorityVars, mailbox, motionVars, causal, kind, ncVars,
                 rtVars, alarmVars, interrupted>>

(* TryPublishEmergencyStopMailbox: a request already pending stands for     *)
(* this one too.                                                            *)
Post(t) ==
  /\ At(t, "post")
  /\ mailbox' = IF mailbox.pending THEN mailbox ELSE Request(causal[t], FALSE)
  /\ Goto(t, "take")
  /\ UNCHANGED <<phase, authorityVars, stop, motionVars, causal, kind, ncVars, rtVars,
                 alarmVars, interrupted>>

(* Mutant: the request replaces what the word holds. *)
Replaced(t) == Request(causal[t], FALSE)

(* After too many failed exchanges, PublishEmergencyStopMailboxContention-  *)
(* Fallback without evidence: the pending bit alone, whatever else the word *)
(* holds.                                                                   *)
Flagged(t) == [mailbox EXCEPT !.pending = TRUE]

PostFallback(t) ==
  /\ At(t, "post")
  /\ mailbox' = Flagged(t)
  /\ Goto(t, "take")
  /\ UNCHANGED <<phase, authorityVars, stop, motionVars, causal, kind, ncVars, rtVars,
                 alarmVars, interrupted>>

CallTake(t) ==
  /\ At(t, "take")
  /\ TakeSafety
  /\ Goto(t, "end")
  /\ UNCHANGED <<phase, acked, publishers, generation, recovering, mailVars, motionVars,
                 causal, kind, ncVars, rtVars, alarmVars, interrupted>>

CallEnd(t) ==
  /\ At(t, "end")
  /\ publishers' = publishers - 1
  /\ causal' = [causal EXCEPT ![t] = 0]
  /\ Goto(t, IF t = Nc THEN "idle" ELSE "done")
  /\ UNCHANGED <<phase, word, acked, generation, epoch, recovering, mailVars, motionVars,
                 kind, ncVars, rtVars, alarmVars, interrupted>>

CallStep(t) ==
  \/ CallBegin(t) \/ CallTicket(t) \/ PostStop(t) \/ Post(t) \/ PostFallback(t)
  \/ CallTake(t) \/ CallEnd(t)

-----------------------------------------------------------------------------
(* The motion thread.  A pass applies the mailboxes, then the press, helps  *)
(* an unacknowledged ticket, and moves the group.                           *)
Branch(from, condition, then, else) == rt = from /\ rt' = IF condition THEN then ELSE else
Step(from, to) == Branch(from, TRUE, to, to)

(* CompleteSafetyMotionActionTicket: the flag of the newest ticket only.    *)
CompleteAction(ticket) ==
  word' = IF word.ticket = ticket THEN [word EXCEPT !.action = FALSE] ELSE word

(* StopGroupImpl(true): a controlled stop under the ticket of the moment; an *)
(* emergency stop in a mode that may not decelerate, or without SAFETY.      *)
StopGroup ==
  \/ /\ word.safety /\ group = "still"
     /\ token' = 0
     /\ UNCHANGED <<phase, word, epoch, group, evidence, owed>>
  \/ /\ word.safety /\ group # "still"
     /\ epoch' = epoch + 1
     /\ group' = "stopping" /\ token' = word.ticket
     /\ UNCHANGED <<phase, word, evidence, owed>>
  \/ /\ word.safety /\ group # "still"
     /\ Supersede
     /\ epoch' = epoch + 2
     /\ group' = "still" /\ token' = 0
     /\ evidence' = [from |-> epoch + 1, to |-> epoch + 2]
     /\ owed' = owed \ {epoch + 1}
     /\ UNCHANGED word
  \/ /\ ~word.safety
     /\ Contain(TRUE, 0, TRUE)

(* IsSafetyControlledStopAuthorized.  The epoch it compares cannot change    *)
(* while SAFETY holds motion under the ticket.                               *)
Authorized ==
  /\ token # 0 /\ word.ticket = token
  /\ word.safety /\ ~word.action
  /\ publishers = 0 /\ ~recovering
  /\ ~MailPending /\ alarm # "pending"

elsewhere == <<callerVars, ncVars, alarmVars, interrupted>>
scratch == <<own_generation, claimed, authority>>

(* ApplyPendingSafetyAndRecoveryRequests: the ticket, the takeover, and the *)
(* reasons to leave every mailbox for the next pass.                        *)
ApplyEnter ==
  /\ Branch("apply", MailPending, "apply ticket", "press")
  /\ recovering' = MailPending
  /\ UNCHANGED <<phase, word, acked, publishers, generation, epoch, mailVars,
                 motionVars, own, scratch, elsewhere>>

(* A pass joins the newest ticket, and publishes one of its own if that is  *)
(* acknowledged already.                                                    *)
ApplyTicket ==
  LET fresh == word.ticket \in {0, acked} IN
  /\ Step("apply ticket", "apply take")
  /\ own' = IF fresh THEN word.ticket + 1 ELSE word.ticket
  /\ IF fresh THEN NextTicket(FALSE) ELSE UNCHANGED word
  /\ UNCHANGED <<phase, acked, publishers, generation, epoch, recovering, mailVars,
                 motionVars, scratch, elsewhere>>

ApplyTake ==
  /\ Step("apply take", "apply guard")
  /\ TakeSafety
  /\ UNCHANGED <<phase, acked, publishers, generation, recovering, mailVars, motionVars,
                 own, scratch, elsewhere>>

ApplyGuard ==
  /\ Branch("apply guard", publishers = 0, "apply action", "press")
  /\ recovering' = (publishers = 0)
  /\ UNCHANGED <<phase, word, acked, publishers, generation, epoch, mailVars,
                 motionVars, own, scratch, elsewhere>>

ApplyAction ==
  LET refused == word.action /\ word.ticket # own IN
  /\ Branch("apply action", refused, "press", "apply claim")
  /\ CompleteAction(own)
  /\ recovering' = ~refused
  /\ UNCHANGED <<phase, acked, publishers, generation, epoch, mailVars, motionVars,
                 own, scratch, elsewhere>>

(* TryClaimEmergencyStopMailbox.  It succeeds: no requester changes a       *)
(* pending mailbox, and what RT itself reserves it gives back before it     *)
(* comes here.  An emergency stop discards the stop.                        *)
ApplyClaim ==
  /\ Branch("apply claim", mailbox.pending, "apply discard", "apply stop")
  /\ claimed' = mailbox /\ mailbox' = Empty
  /\ UNCHANGED <<phase, authorityVars, stop, motionVars, own, own_generation, authority, elsewhere>>

ApplyDiscard ==
  /\ Step("apply discard", "apply contain")
  /\ Supersede
  /\ stop' = FALSE
  /\ UNCHANGED <<authorityVars, mailbox, motionVars, own, scratch, elsewhere>>

ApplyContain ==
  /\ Step("apply contain", "applied")
  /\ Contain(claimed.evidence, claimed.epoch, TRUE)
  /\ claimed' = Empty
  /\ UNCHANGED <<acked, publishers, generation, recovering, mailVars, own,
                 own_generation, authority, elsewhere>>

ApplyStop ==
  /\ Branch("apply stop", stop, "apply group", "applied")
  /\ stop' = FALSE
  /\ IF stop THEN Supersede ELSE UNCHANGED phase
  /\ UNCHANGED <<authorityVars, mailbox, motionVars, own, scratch, elsewhere>>

ApplyGroup ==
  /\ Step("apply group", "applied")
  /\ StopGroup
  /\ UNCHANGED <<acked, publishers, generation, recovering, mailVars, own, scratch,
                 elsewhere>>

Applied ==
  /\ Step("applied", "apply ack")
  /\ CompleteAction(own)
  /\ recovering' = FALSE
  /\ UNCHANGED <<phase, acked, publishers, generation, epoch, mailVars, motionVars,
                 own, scratch, elsewhere>>

(* TryAcknowledgeAppliedSafetyMotionRequests, where RT calls it.            *)
RtAcknowledge ==
  /\ \/ Step("apply ack", "press") \/ Step("own ack", "own complete")
     \/ Step("activate ack", "help") \/ Step("help ack", "motion")
     \/ Step("settled ack", "settled") \/ Step("trigger ack", "apply")
  /\ Acknowledge
  /\ own' = 0
  /\ UNCHANGED <<phase, publishers, generation, epoch, recovering, mailVars, motionVars,
                 scratch, elsewhere>>

ApplyStep ==
  \/ ApplyEnter \/ ApplyTicket \/ ApplyTake \/ ApplyGuard \/ ApplyAction
  \/ ApplyClaim \/ ApplyDiscard \/ ApplyContain \/ ApplyStop \/ ApplyGroup \/ Applied

-----------------------------------------------------------------------------
(* ApplyPendingResetControlledStopRequest.  A loss of the reference axis X   *)
(* keeps for its recovery (RequiresPbcXRetainRecoveryReset) retires a press *)
(* the NC made before it knew.                                              *)
PressRetire ==
  /\ incidents < MaxIncident /\ phase # "IDLE"
  /\ Step("press", "help")
  /\ incidents' = incidents + 1
  /\ Supersede
  /\ UNCHANGED <<authorityVars, mailVars, motionVars, own, scratch, callerVars, ncVars,
                 alarm, interrupted>>

PressClaim ==
  /\ Branch("press", phase = "PENDING", "judge", "help")
  /\ phase' = IF phase = "PENDING" THEN "APPLYING" ELSE phase
  /\ UNCHANGED <<authorityVars, mailVars, motionVars, own, scratch, elsewhere>>

PressJudge ==
  LET refused == phase # "APPLYING" \/ Intent \/ Winner IN
  /\ Branch("judge", refused, "help", "own begin")
  /\ IF refused THEN Supersede ELSE UNCHANGED phase
  /\ UNCHANGED <<authorityVars, mailVars, motionVars, own, scratch, elsewhere>>

PressBegin ==
  /\ Step("own begin", "own capture")
  /\ publishers' = publishers + 1 /\ generation' = generation + 1
  /\ UNCHANGED <<phase, word, acked, epoch, recovering, mailVars, motionVars, own,
                 scratch, elsewhere>>

PressCapture ==
  /\ Step("own capture", "own ticket")
  /\ own_generation' = generation
  /\ UNCHANGED <<phase, authorityVars, mailVars, motionVars, own, claimed, authority, elsewhere>>

PressTicket ==
  /\ Step("own ticket", "own ensure")
  /\ NextTicket(TRUE) /\ own' = word.ticket + 1
  /\ UNCHANGED <<phase, acked, publishers, generation, epoch, recovering, mailVars,
                 motionVars, scratch, elsewhere>>

(* EnsureSafetyMotionActionTicket joins the newest ticket, which must be    *)
(* the one just published.                                                  *)
PressEnsure ==
  /\ Branch("own ensure", word.ticket = own, "own take", "own refuse")
  /\ UNCHANGED <<phase, authorityVars, mailVars, motionVars, own, scratch, elsewhere>>

PressTake ==
  /\ Step("own take", "exact")
  /\ TakeSafety
  /\ UNCHANGED <<phase, acked, publishers, generation, recovering, mailVars, motionVars,
                 own, scratch, elsewhere>>

(* Mutant: other publishers may be between their ticket and their mailbox.  *)
ExactUnlessMailed ==
  /\ phase = "APPLYING" /\ ~Winner
  /\ word.safety /\ word.action /\ word.ticket = own

(* ownsExactResetSafetyAction *)
Exact ==
  /\ phase = "APPLYING" /\ ~Winner
  /\ generation = own_generation /\ publishers = 1
  /\ word.safety /\ word.action /\ word.ticket = own

PressExact ==
  /\ Branch("exact", Exact, "own stop", "own abandon")
  /\ recovering' = Exact
  /\ IF Exact THEN UNCHANGED phase ELSE Supersede
  /\ UNCHANGED <<word, acked, publishers, generation, epoch, mailVars, motionVars, own,
                 scratch, elsewhere>>

PressStop ==
  /\ Step("own stop", "recheck")
  /\ StopGroup
  /\ UNCHANGED <<acked, publishers, generation, recovering, mailVars, own, scratch,
                 elsewhere>>

PressRecheck ==
  /\ Branch("recheck", Exact, "own action", "own abandon")
  /\ UNCHANGED <<phase, authorityVars, mailVars, motionVars, own, scratch, elsewhere>>

PressAction ==
  /\ Branch("own action", word.ticket = own, "own end", "own abandon")
  /\ CompleteAction(own)
  /\ UNCHANGED <<phase, acked, publishers, generation, epoch, recovering, mailVars,
                 motionVars, own, scratch, elsewhere>>

(* EndExecutionDrainAcknowledgementRevocation, after the action or without. *)
PressEnd ==
  /\ \/ Branch("own end", token = 0, "own ack", "authorize")
     \/ Step("own abandon", "own contain")
     \/ Step("refuse end", "help")
  /\ recovering' = FALSE /\ publishers' = publishers - 1
  /\ own_generation' = 0
  /\ UNCHANGED <<phase, word, acked, generation, epoch, mailVars, motionVars, own,
                 claimed, authority, elsewhere>>

(* The press is contained like an emergency stop. *)
PressContain ==
  /\ Step("own contain", "help") \/ Step("own refuse", "refuse end")
  /\ Contain(TRUE, 0, TRUE)
  /\ own' = 0
  /\ UNCHANGED <<acked, publishers, generation, recovering, mailVars, scratch, elsewhere>>

(* Mutant: only a stop that had to decelerate is completed. *)
CompletedActive == phase' = IF phase = "ACTIVE" THEN "COMPLETED" ELSE phase

(* CompleteResetControlledStop *)
Completed == phase' = IF phase \in {"ACTIVE", "APPLYING"} THEN "COMPLETED" ELSE phase

PressComplete ==
  /\ Step("own complete", "help") \/ Step("settled", "apply")
  /\ Completed
  /\ UNCHANGED <<authorityVars, mailVars, motionVars, own, scratch, elsewhere>>

PressAuthorize ==
  /\ Branch("authorize", Authorized, "activate", "help")
  /\ IF Authorized THEN UNCHANGED phase ELSE Supersede
  /\ own' = 0
  /\ UNCHANGED <<authorityVars, mailVars, motionVars, scratch, elsewhere>>

(* A press superseded meanwhile stays so and ends without acknowledgement;   *)
(* the stop in progress keeps back the one that follows ACTIVE.             *)
PressActivate ==
  /\ Branch("activate", phase = "APPLYING", "activate ack", "help")
  /\ phase' = IF phase = "APPLYING" THEN "ACTIVE" ELSE phase
  /\ UNCHANGED <<authorityVars, mailVars, motionVars, own, scratch, elsewhere>>

PressStep ==
  \/ PressRetire \/ PressClaim \/ PressJudge \/ PressBegin \/ PressCapture \/ PressTicket \/ PressEnsure
  \/ PressTake \/ PressExact \/ PressStop \/ PressRecheck \/ PressAction \/ PressEnd
  \/ PressContain \/ PressComplete \/ PressAuthorize \/ PressActivate

-----------------------------------------------------------------------------
(* The rest of the pass: UpdateInterpolation helps a ticket without mailbox, *)
(* then the group moves, brakes, or has come to rest.                        *)
Help ==
  /\ Branch("help", Unacknowledged, "help ack", "motion")
  /\ IF Unacknowledged THEN TakeSafety ELSE UNCHANGED <<word, epoch>>
  /\ UNCHANGED <<phase, acked, publishers, generation, recovering, mailVars, motionVars,
                 own, scratch, elsewhere>>

(* A controlled stop that lost its authority becomes an emergency stop.     *)
LoseStop ==
  /\ Step("motion", "apply")
  /\ token # 0 /\ ~Authorized
  /\ Contain(FALSE, 0, TRUE)
  /\ UNCHANGED <<acked, publishers, generation, recovering, mailVars, own, scratch,
                 elsewhere>>

Brake ==
  /\ Step("motion", "apply")
  /\ Authorized /\ group = "stopping"
  /\ group' = "converging"
  /\ UNCHANGED <<phase, authorityVars, mailVars, token, evidence, owed, own, scratch,
                 elsewhere>>

(* Every physical axis is in position. *)
Settle ==
  /\ Step("motion", "settled ack")
  /\ Authorized /\ group = "converging"
  /\ group' = "still" /\ token' = 0
  /\ UNCHANGED <<phase, authorityVars, mailVars, evidence, owed, own, scratch,
                 elsewhere>>

(* Outside of a stop a pass waits for an acknowledgement, or the group      *)
(* moves on, perhaps to its end.                                            *)
Move ==
  /\ Step("motion", "apply")
  /\ token = 0
  /\ \/ group' = group
     \/ ~Unacknowledged /\ ~word.safety /\ group = "moving" /\ group' = "still"
  /\ UNCHANGED <<phase, authorityVars, mailVars, token, evidence, owed, own, scratch,
                 elsewhere>>

-----------------------------------------------------------------------------
(* TriggerGroupMappingIntegrityEmergencyStop: RT asks for an emergency stop  *)
(* and applies it at once if it gets SAFETY; if not it leaves the evidence   *)
(* in the mailbox.                                                           *)
Trigger ==
  /\ incidents < MaxIncident
  /\ Step("motion", "trigger begin")
  /\ group # "still"
  /\ incidents' = incidents + 1
  /\ Supersede
  /\ UNCHANGED <<authorityVars, mailVars, motionVars, own, scratch, callerVars, ncVars,
                 alarm, interrupted>>

TriggerBegin ==
  /\ Step("trigger begin", "trigger ticket")
  /\ publishers' = publishers + 1 /\ generation' = generation + 1
  /\ UNCHANGED <<phase, word, acked, epoch, recovering, mailVars, motionVars, own,
                 scratch, elsewhere>>

(* The causal epoch is kept where a press keeps its generation. *)
TriggerTicket ==
  /\ Step("trigger ticket", "trigger alarm")
  /\ own_generation' = epoch
  /\ NextTicket(TRUE) /\ own' = word.ticket + 1
  /\ interrupted' = (interrupted \/ Waiting)
  /\ UNCHANGED <<phase, acked, publishers, generation, epoch, recovering, mailVars,
                 motionVars, claimed, authority, callerVars, ncVars, alarmVars>>

(* TryPublishGroupMappingIntegrityAlarmRequest *)
TriggerAlarm ==
  /\ Step("trigger alarm", "trigger take")
  /\ alarm' = IF alarm = "none" THEN "pending" ELSE alarm
  /\ UNCHANGED <<phase, authorityVars, mailVars, motionVars, own, scratch, callerVars,
                 ncVars, incidents, interrupted>>

TriggerTake ==
  /\ \/ /\ Step("trigger take", "trigger claim")
        /\ TakeSafety
        /\ authority' = TRUE
     \/ /\ Step("trigger take", "trigger post")
        /\ authority' = FALSE
        /\ UNCHANGED <<word, epoch>>
  /\ UNCHANGED <<phase, acked, publishers, generation, recovering, mailVars, motionVars,
                 own, own_generation, claimed, elsewhere>>

(* TryClaimEmergencyStopMailboxForDirectContainment: an ordinary request is *)
(* subsumed, one with evidence is reserved where it is.                     *)
ClaimReserved ==
  /\ claimed' = IF mailbox.pending THEN mailbox ELSE Empty
  /\ mailbox' = IF mailbox.evidence THEN [mailbox EXCEPT !.reserved = TRUE]
                ELSE IF mailbox.pending THEN Empty ELSE mailbox

TriggerClaim ==
  /\ Step("trigger claim", "trigger contain")
  /\ ClaimReserved
  /\ UNCHANGED <<phase, authorityVars, stop, motionVars, own, own_generation, authority, elsewhere>>

(* TryPublishEmergencyStopMailbox with evidence: the first incident stays.  *)
TriggerPost ==
  /\ Step("trigger post", "trigger contain")
  /\ IF mailbox.evidence
     THEN UNCHANGED <<mailbox, owed>>
     ELSE /\ mailbox' = Request(own_generation, TRUE)
          /\ owed' = owed \cup {own_generation}
  /\ UNCHANGED <<phase, authorityVars, stop, group, token, evidence, own, scratch,
                 elsewhere>>

(* The same after too many failed exchanges: the word is reserved first.    *)
TriggerReserve ==
  /\ Step("trigger post", "trigger store")
  /\ ~mailbox.evidence
  /\ mailbox' = [mailbox EXCEPT !.pending = TRUE, !.evidence = TRUE, !.reserved = TRUE]
  /\ UNCHANGED <<phase, authorityVars, stop, motionVars, own, scratch, elsewhere>>

TriggerStore ==
  /\ Step("trigger store", "trigger contain")
  /\ mailbox' = Request(own_generation, TRUE)
  /\ owed' = owed \cup {own_generation}
  /\ UNCHANGED <<phase, authorityVars, stop, group, token, evidence, own, scratch,
                 elsewhere>>

TriggerContain ==
  /\ Branch("trigger contain", authority, "trigger finalize", "trigger end")
  /\ Contain(TRUE, own_generation, authority)
  /\ UNCHANGED <<acked, publishers, generation, recovering, mailVars, own, scratch,
                 elsewhere>>

(* FinalizeDirectContainmentEmergencyStopMailbox: the reserved request is   *)
(* done with if its evidence is the one just recorded, restored if not.     *)
TriggerFinalize ==
  LET persistent == evidence = [from |-> claimed.epoch, to |-> epoch] IN
  /\ Branch("trigger finalize", ~claimed.pending /\ mailbox.pending, "trigger end",
            "trigger action")
  /\ mailbox' = IF ~claimed.evidence THEN mailbox ELSE IF persistent THEN Empty ELSE claimed
  /\ claimed' = Empty
  /\ UNCHANGED <<phase, authorityVars, stop, motionVars, own, own_generation, authority, elsewhere>>

(* A newer producer's action is left to the mailbox. *)
TriggerAction ==
  /\ Step("trigger action", "trigger end")
  /\ CompleteAction(own)
  /\ mailbox' = IF word.ticket # own /\ ~mailbox.pending THEN Request(epoch, FALSE)
                ELSE mailbox
  /\ UNCHANGED <<phase, acked, publishers, generation, epoch, recovering, stop,
                 motionVars, own, scratch, elsewhere>>

TriggerEnd ==
  /\ Step("trigger end", "trigger ack")
  /\ publishers' = publishers - 1
  /\ own_generation' = 0 /\ authority' = FALSE
  /\ UNCHANGED <<phase, word, acked, generation, epoch, recovering, mailVars, motionVars,
                 own, claimed, elsewhere>>

TriggerStep ==
  \/ Trigger \/ TriggerBegin \/ TriggerTicket \/ TriggerAlarm \/ TriggerTake
  \/ TriggerClaim \/ TriggerPost \/ TriggerReserve \/ TriggerStore \/ TriggerContain
  \/ TriggerFinalize \/ TriggerAction \/ TriggerEnd

RtStep ==
  \/ ApplyStep \/ PressStep \/ RtAcknowledge \/ TriggerStep
  \/ Help \/ LoseStop \/ Brake \/ Settle \/ Move

-----------------------------------------------------------------------------
(* The NC's RESET and its 10 ms task. *)
aside == <<authorityVars, mailVars, motionVars, callerVars, rtVars>>

RaiseAlarm ==
  /\ alarm = "none" /\ incidents < MaxIncident /\ nc # "batch"
  /\ alarm' = "raised" /\ incidents' = incidents + 1
  /\ UNCHANGED <<phase, aside, ncVars, interrupted>>

(* The NC hands the mapping alarm to AlarmManager. *)
Materialize ==
  /\ alarm = "pending"
  /\ alarm' = "raised"
  /\ UNCHANGED <<phase, incidents, aside, ncVars, interrupted>>

(* RESET of a running program whose group was last seen active:             *)
(* RequestResetControlledStop, whose outcome the NC does not look at.       *)
Press ==
  /\ nc = "run" /\ At(Nc, "idle") /\ alarm = "none" /\ presses < MaxPress
  /\ phase' = IF phase = "IDLE" THEN "PENDING" ELSE phase
  /\ nc' = "waiting" /\ presses' = presses + 1
  /\ interrupted' = FALSE
  /\ UNCHANGED <<aside, clean, alarmVars>>

Poll(from, waits, to) ==
  /\ nc = from
  /\ nc' = IF waits THEN "waiting" ELSE to
  /\ UNCHANGED <<phase, aside, presses, alarmVars, interrupted>>

(* Each tick looks at the alarms, then at the phase, and then, one after    *)
(* the other, at what HasPendingSafetyOrRecoveryRequests reads.             *)
PollPhase ==
  /\ alarm # "raised" /\ phase \notin {"PENDING", "APPLYING", "ACTIVE"}
  /\ Poll("waiting", FALSE, "poll publishers")
  /\ clean' = ~interrupted

PollPublishers ==
  Poll("poll publishers", publishers # 0, "poll word") /\ UNCHANGED clean

PollWord == Poll("poll word", Unacknowledged, "poll mail") /\ UNCHANGED clean

PollMail ==
  /\ Poll("poll mail", recovering \/ MailPending \/ alarm = "pending", "consume")
  /\ UNCHANGED clean

(* ConsumeCompletedResetControlledStop, or the press is blocked. *)
Consume ==
  LET consumed == alarm # "raised" /\ phase = "COMPLETED" IN
  /\ nc = "consume"
  /\ nc' = IF consumed THEN "batch" ELSE "blocked"
  /\ phase' = IF consumed THEN "IDLE" ELSE phase
  /\ clean' = FALSE /\ interrupted' = FALSE
  /\ UNCHANGED <<aside, presses, alarmVars>>

(* A new press after a block: RetireSupersededResetControlledStop.          *)
PressAgain ==
  /\ nc = "blocked" /\ At(Nc, "idle")
  /\ phase' = IF phase = "SUPERSEDED" THEN "IDLE" ELSE phase
  /\ nc' = "batch"
  /\ UNCHANGED <<aside, presses, clean, alarmVars, interrupted>>

(* A press in the alarm goes to the batch.  So does one on a program whose   *)
(* group was last seen at rest, and that may move since, or that is in one  *)
(* of the modes RESET cancels by the batch itself.                          *)
PressDirectly ==
  /\ nc = "alarm" \/ (nc = "run" /\ alarm = "none")
  /\ At(Nc, "idle")
  /\ nc' = "batch"
  /\ UNCHANGED <<phase, aside, presses, clean, alarmVars, interrupted>>

(* RequestResetSafetyBatch until SAFETY is released, then the next program, *)
(* which is of interest only if it may still be pressed.                    *)
Batch ==
  /\ nc = "batch" /\ ~Intent /\ token = 0 /\ presses < MaxPress
  /\ Supersede
  /\ word' = [word EXCEPT !.safety = FALSE]
  /\ alarm' = "none"
  /\ group' = "moving"
  /\ nc' = "run"
  /\ UNCHANGED <<acked, publishers, generation, epoch, recovering, mailVars, token,
                 evidence, owed, callerVars, presses, clean, rtVars, incidents,
                 interrupted>>

NcPoll == PollPhase \/ PollPublishers \/ PollWord \/ PollMail \/ Consume

NcStep == NcPoll \/ AlarmScan \/ Materialize \/ Press \/ PressAgain \/ PressDirectly \/ Batch

-----------------------------------------------------------------------------
Next ==
  \/ RtStep \/ NcStep \/ RaiseAlarm
  \/ \E t \in Caller : Call(t) \/ CallStep(t)

Spec == Init /\ [][Next]_vars

(* RT's cycle and the NC's tick are periodic, a call once made is finished; *)
(* nobody has to raise an alarm, make a request or press.                   *)
FairSpec ==
  /\ Spec /\ WF_vars(RtStep)
  /\ WF_vars(NcPoll) /\ WF_vars(AlarmScan \/ Materialize)
  /\ WF_vars(\E t \in Caller : CallStep(t))

-----------------------------------------------------------------------------
Phases == {"IDLE", "PENDING", "APPLYING", "ACTIVE", "COMPLETED", "SUPERSEDED"}

(* Where RT is while it works off the mailboxes, while its press counts as   *)
(* a publisher, and while a lost mapping does.                              *)
Applying == {"apply ticket", "apply take", "apply guard", "apply action", "apply claim",
             "apply discard", "apply contain", "apply stop", "apply group", "applied"}
Pressing == {"own capture", "own ticket", "own ensure", "own take", "exact", "own stop",
             "recheck", "own action", "own end", "own abandon", "own refuse", "refuse end"}
Triggering == {"trigger ticket", "trigger alarm", "trigger take", "trigger claim",
               "trigger post", "trigger store", "trigger contain", "trigger finalize",
               "trigger action", "trigger end"}
Passing == {"apply", "apply ack", "press", "judge", "own begin", "own contain",
            "own complete", "own ack", "settled", "settled ack", "authorize", "activate",
            "activate ack", "help", "help ack", "motion", "trigger begin", "trigger ack"}
CallLabel == {"idle", "begin", "ticket", "stop", "post", "take", "end", "done"}
Polling == {"poll publishers", "poll word", "poll mail", "consume"}
Mail == [pending : BOOLEAN, evidence : BOOLEAN, reserved : BOOLEAN, epoch : Nat]
OwnerWord == [safety : BOOLEAN, ticket : Nat, action : BOOLEAN]

TypeOK ==
  /\ phase \in Phases
  /\ word \in OwnerWord
  /\ acked \in Nat /\ publishers \in Nat /\ generation \in Nat /\ epoch \in Nat
  /\ recovering \in BOOLEAN /\ stop \in BOOLEAN
  /\ mailbox \in Mail /\ claimed \in Mail
  /\ alarm \in {"none", "pending", "raised"}
  /\ group \in {"moving", "stopping", "converging", "still"} /\ token \in Nat
  /\ evidence \in [from : Nat, to : Nat] /\ owed \subseteq Nat
  /\ pc \in [Caller -> CallLabel]
  /\ causal \in [Caller -> Nat] /\ kind \in [Stopper -> {"estop", "stop"}]
  /\ nc \in Polling \cup {"run", "waiting", "blocked", "alarm", "batch"}
  /\ rt \in Applying \cup Pressing \cup Triggering \cup Passing
  /\ own \in Nat /\ own_generation \in Nat /\ authority \in BOOLEAN
  /\ interrupted \in BOOLEAN /\ clean \in BOOLEAN

(* The NC goes on to its RESET batch on the strength of a controlled stop   *)
(* only if no stop request was made since the press, as far as it could see *)
(* when it began its poll (ConsumeCompletedResetControlledStop): a stop     *)
(* that completed before the request must not count.                        *)
ConsumedUninterrupted ==
  [][phase = "COMPLETED" /\ phase' = "IDLE" => clean]_vars

(* The flag that a request still needs RT is taken down only when every     *)
(* request that has its ticket has left its mailbox: otherwise RT or the NC *)
(* takes SAFETY for settled with an emergency stop still on its way.  The   *)
(* containment of a lost mapping, which has stopped everything itself, is   *)
(* excepted.                                                                *)
ActionClearedWhenPosted ==
  [][word.action /\ ~word'.action /\ rt # "trigger action"
       => \A t \in Caller : pc[t] \notin {"post", "stop"}]_vars

(* The invalidation of a lost mapping that has to go through the mailbox is *)
(* there or in RT's hands until it is recorded: no other claim, fallback or *)
(* containment of the mailbox drops it.                                     *)
EvidenceKept ==
  \A e \in owed :
     \/ mailbox.pending /\ mailbox.evidence /\ mailbox.epoch = e
     \/ claimed.evidence /\ claimed.epoch = e

(* Every RESET of a running program comes to its batch, to a block the      *)
(* operator sees, or to the alarm: the NC never waits for ever on the       *)
(* phase word.                                                              *)
EveryPressAnswered ==
  (nc = "waiting") ~> (nc \in {"batch", "blocked", "alarm"})

(* MotionCore.cpp:15246, "The normal RESET batch is only allowed after the  *)
(* smooth-stop phase has reached COMPLETED and NC has consumed it back to   *)
(* IDLE".                                                                   *)
BatchAfterConsumedStop == [][nc # "batch" /\ nc' = "batch" => phase' = "IDLE"]_vars
===============================================================================
