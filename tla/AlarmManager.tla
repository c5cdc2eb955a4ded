----------------------------- MODULE AlarmManager -----------------------------
(***************************************************************************)
(* AlarmManager: the alarm image shown to the operator, and the admission  *)
(* reservation that lets motion (a servo frame, a resume, a program start, *)
(* a RESET) act on a revision of that image which nobody changes meanwhile.*)
(*                                                                         *)
(* Nobody waits.  Trigger declares its intent in one word, writes the      *)
(* image if the writer flag is free and no admission is held, and leaves a *)
(* deferred publication otherwise, which any later caller promotes.        *)
(*                                                                         *)
(* Every access of the intent word, of the writer flag and of the deferred *)
(* publication and every store into the image is a step.  Reads that the   *)
(* call repeats, or that a compare-exchange of the intent word confirms,   *)
(* are one step.  A compare-exchange of the deferred publication that      *)
(* failed once may already be the last of its attempts.                    *)
(***************************************************************************)
EXTENDS AlarmManagerParameters, Integers, Sequences, Functions

Thread == Producer \cup Clearer \cup Holder

VARIABLES
  intent,           (* m_motionSafetyIntentState: seq, active, reserved    *)
  writer,           (* m_alarmWriterReserved                               *)
  deferred,         (* m_deferredAlarmPublication: code, count, overflow   *)
  overflowPayload,  (* m_deferredAlarmOverflowPayload                      *)
  image,            (* m_alarms, the first m_alarmCount of them            *)
  hasAlarm,         (* m_hasAlarm                                          *)
  updateCount,      (* m_updateCount                                       *)
  pc,               (* where each thread is in its call                    *)
  left,             (* promotion attempts the call still has               *)
  after,            (* where the call goes on after them                   *)
  seen,             (* the deferred publication a thread has loaded        *)
  publishing,       (* what a writer is putting into the image             *)
  admission,        (* each holder's MotionAdmissionReservation            *)
  shown,            (* history: the alarms the image stands for            *)
  waiting,          (* history: the alarms deferred and not yet taken up   *)
  captured          (* history: what each holder knows to be shown, since  *)
                    (* it captured the update count or wrote itself        *)

imageVars == <<image, hasAlarm, updateCount, shown>>
deferredVars == <<deferred, overflowPayload, waiting>>
locals == <<left, after, seen, publishing>>
holderVars == <<admission, captured>>
vars == <<intent, writer, deferredVars, imageVars, pc, locals, holderVars>>

(* A thread raises alarms under its own name. *)
Alarm == Thread
Intent == [seq : Nat, active : Nat, reserved : BOOLEAN]
Publication == [code : Alarm \cup {NoAlarm}, count : 0 .. MaxDeferred, overflow : BOOLEAN]
Nothing == [code |-> NoAlarm, count |-> 0, overflow |-> FALSE]
NoPayload == [code |-> NoAlarm, delta |-> 0, alarms |-> <<>>]
Quiet == [seq |-> 0, active |-> 0, reserved |-> FALSE]
NotAdmitted == [acquired |-> FALSE, base |-> Quiet, expected |-> 0,
                requireNone |-> TRUE, exact |-> FALSE]

Init ==
  /\ intent = Quiet
  /\ writer = FALSE
  /\ deferred = Nothing /\ overflowPayload = NoAlarm
  /\ image = <<>> /\ hasAlarm = FALSE /\ updateCount = 0
  /\ pc = [t \in Thread |-> "idle"]
  /\ left = [t \in Thread |-> 0]
  /\ after = [t \in Thread |-> "idle"]
  /\ seen = [t \in Thread |-> Nothing]
  /\ publishing = [t \in Thread |-> NoPayload]
  /\ admission = [h \in Holder |-> NotAdmitted]
  /\ shown = {} /\ waiting = <<>> /\ captured = [h \in Holder |-> {}]

At(t, label) == pc[t] = label
Goto(t, label) == pc' = [pc EXCEPT ![t] = label]
HasDeferredAlarmPublication == deferred # Nothing
HasAlarm == hasAlarm \/ HasDeferredAlarmPublication

-----------------------------------------------------------------------------
(* The intent word.  One fetch_add declares a call: sequence and active    *)
(* count advance together, and its answer tells whether motion holds the   *)
(* admission.                                                              *)

Declare(t, admitted, free) ==
  /\ intent' = [intent EXCEPT !.seq = @ + 1, !.active = @ + 1]
  /\ Goto(t, IF intent.reserved THEN admitted ELSE free)

(* A call promotes what others deferred in the attempts it has left, and   *)
(* goes on.                                                                *)
AttemptOrGoOn(t, attempts) ==
  IF attempts > 0
  THEN Goto(t, "promote") /\ UNCHANGED after
  ELSE Goto(t, after[t]) /\ after' = [after EXCEPT ![t] = "idle"]

Withdraw(t) ==
  /\ At(t, "withdraw")
  /\ intent' = [intent EXCEPT !.active = @ - 1]
  /\ AttemptOrGoOn(t, left[t])
  /\ UNCHANGED <<writer, deferredVars, imageVars, left, seen, publishing, holderVars>>

TakeWriter(t, label, next, refused) ==
  /\ At(t, label)
  /\ writer' = TRUE
  /\ Goto(t, IF writer THEN refused ELSE next)
  /\ UNCHANGED <<intent, deferredVars, imageVars, locals, holderVars>>

-----------------------------------------------------------------------------
(* PublishAlarmUnderWriter, and the release of the writer flag.  An        *)
(* admission holder that published under its admission goes on under it.   *)

Admitted(t) == t \in Holder /\ admission[t].acquired

PublishImage(t) ==
  /\ At(t, "publish image")
  /\ image' = IF Len(image) < MaxAlarms
              THEN Append(image, publishing[t].code) ELSE image
  /\ shown' = shown \cup Range(publishing[t].alarms)
  /\ captured' = IF Admitted(t)
                 THEN [captured EXCEPT ![t] = shown'] ELSE captured
  /\ Goto(t, "publish flag")
  /\ UNCHANGED <<intent, writer, deferredVars, hasAlarm, updateCount, locals, admission>>

PublishFlag(t) ==
  /\ At(t, "publish flag")
  /\ hasAlarm' = TRUE
  /\ Goto(t, "publish count")
  /\ UNCHANGED <<intent, writer, deferredVars, image, updateCount, shown, locals, holderVars>>

PublishCount(t) ==
  /\ At(t, "publish count")
  /\ updateCount' = updateCount + publishing[t].delta
  /\ admission' = IF Admitted(t)
                  THEN [admission EXCEPT ![t].expected = @ + 1] ELSE admission
  /\ publishing' = [publishing EXCEPT ![t] = NoPayload]
  /\ Goto(t, "release writer")
  /\ UNCHANGED <<intent, writer, deferredVars, image, hasAlarm, shown, left, after, seen,
                 captured>>

ReleaseWriter(t) ==
  /\ At(t, "release writer")
  /\ writer' = FALSE
  /\ Goto(t, IF Admitted(t) THEN "admitted" ELSE "withdraw")
  /\ UNCHANGED <<intent, deferredVars, imageVars, locals, holderVars>>

PublishAlarmUnderWriter(t) ==
  PublishImage(t) \/ PublishFlag(t) \/ PublishCount(t) \/ ReleaseWriter(t)

-----------------------------------------------------------------------------
(* TryPromoteDeferredAlarms: attempts left of TryPromoteDeferredAlarmsOnce *)
(* before the call goes on.                                                *)

Promote(t) ==
  /\ At(t, "promote")
  /\ left' = [left EXCEPT ![t] = @ - 1]
  /\ IF HasDeferredAlarmPublication
     THEN Goto(t, "promote declare") /\ UNCHANGED after
     ELSE AttemptOrGoOn(t, left[t] - 1)
  /\ UNCHANGED <<intent, writer, deferredVars, imageVars, seen, publishing, holderVars>>

PromoteDeclare(t) ==
  /\ At(t, "promote declare")
  /\ Declare(t, "withdraw", "promote writer")
  /\ UNCHANGED <<writer, deferredVars, imageVars, locals, holderVars>>

PromoteWriter(t) == TakeWriter(t, "promote writer", "promote take", "withdraw")

(* Mutant: an overflow without a count is taken for an empty publication. *)
PromoteTakeCountOnly(t) ==
  /\ At(t, "promote take")
  /\ deferred' = Nothing
  /\ waiting' = <<>>
  /\ publishing' = [publishing EXCEPT ![t] =
       [code |-> deferred.code, delta |-> deferred.count, alarms |-> waiting]]
  /\ Goto(t, IF deferred.count = 0 THEN "release writer" ELSE "publish image")
  /\ UNCHANGED <<intent, writer, overflowPayload, imageVars, left, after, seen, holderVars>>

(* The exchange of the whole publication.  An overflow without a count has *)
(* its code in the payload word.                                           *)
PromoteTake(t) ==
  /\ At(t, "promote take")
  /\ deferred' = Nothing
  /\ waiting' = <<>>
  /\ publishing' = [publishing EXCEPT ![t] =
       IF deferred = Nothing THEN NoPayload
       ELSE [code |-> deferred.code,
             delta |-> IF deferred.count > 0 /\ deferred.overflow
                       THEN deferred.count + 1
                       ELSE IF deferred.count = 0 THEN 1 ELSE deferred.count,
             alarms |-> waiting]]
  /\ Goto(t, IF deferred = Nothing THEN "release writer"
             ELSE IF deferred.count = 0 THEN "promote payload"
             ELSE "publish image")
  /\ UNCHANGED <<intent, writer, overflowPayload, imageVars, left, after, seen, holderVars>>

PromotePayload(t) ==
  /\ At(t, "promote payload")
  /\ publishing' = [publishing EXCEPT ![t].code = overflowPayload]
  /\ Goto(t, "publish image")
  /\ UNCHANGED <<intent, writer, deferredVars, imageVars, left, after, seen, holderVars>>

TryPromoteDeferredAlarms(t) ==
  \/ Promote(t) \/ PromoteDeclare(t) \/ PromoteWriter(t) \/ PromoteTake(t)
  \/ PromotePayload(t)

-----------------------------------------------------------------------------
(* DeferAlarm: the first payload is kept, later ones are counted, a full   *)
(* count sets the overflow flag.                                           *)

Coalesced(t, publication) ==
  IF publication.count = 0
  THEN [publication EXCEPT !.code = t, !.count = 1]
  ELSE IF publication.count < MaxDeferred
  THEN [publication EXCEPT !.count = @ + 1]
  ELSE [publication EXCEPT !.overflow = TRUE]

DeferLoad(t) ==
  /\ At(t, "defer")
  /\ seen' = [seen EXCEPT ![t] = deferred]
  /\ Goto(t, "defer swap")
  /\ UNCHANGED <<intent, writer, deferredVars, imageVars, left, after, publishing, holderVars>>

(* Mutant: a store of the word computed from the one loaded. *)
DeferSwapBlind(t) ==
  /\ At(t, "defer swap")
  /\ deferred' = Coalesced(t, seen[t])
  /\ waiting' = Append(waiting, t)
  /\ seen' = [seen EXCEPT ![t] = Nothing]
  /\ Goto(t, "withdraw")
  /\ UNCHANGED <<intent, writer, overflowPayload, imageVars, left, after, publishing,
                 holderVars>>

DeferSwap(t) ==
  /\ At(t, "defer swap")
  /\ IF deferred = seen[t]
     THEN /\ deferred' = Coalesced(t, deferred)
          /\ waiting' = Append(waiting, t)
          /\ seen' = [seen EXCEPT ![t] = Nothing]
          /\ Goto(t, "withdraw")
     ELSE /\ seen' = [seen EXCEPT ![t] = deferred]
          /\ pc' \in {pc, [pc EXCEPT ![t] = "overflow payload"]}
          /\ UNCHANGED <<deferred, waiting>>
  /\ UNCHANGED <<intent, writer, overflowPayload, imageVars, left, after, publishing,
                 holderVars>>

OverflowPayload(t) ==
  /\ At(t, "overflow payload")
  /\ overflowPayload' = t
  /\ seen' = [seen EXCEPT ![t] = Nothing]
  /\ Goto(t, "overflow flag")
  /\ UNCHANGED <<intent, writer, deferred, waiting, imageVars, left, after, publishing,
                 holderVars>>

OverflowFlag(t) ==
  /\ At(t, "overflow flag")
  /\ deferred' = [deferred EXCEPT !.overflow = TRUE]
  /\ waiting' = Append(waiting, t)
  /\ Goto(t, "withdraw")
  /\ UNCHANGED <<intent, writer, overflowPayload, imageVars, locals, holderVars>>

DeferAlarm(t) == DeferLoad(t) \/ DeferSwap(t) \/ OverflowPayload(t) \/ OverflowFlag(t)

-----------------------------------------------------------------------------
(* Trigger.                                                                *)

TriggerDeclare(t) ==
  /\ t \in Producer
  /\ At(t, "idle") /\ intent.seq < MaxSequence
  /\ Declare(t, "defer", "trigger writer")
  /\ left' = [left EXCEPT ![t] = 2]
  /\ UNCHANGED <<writer, deferredVars, imageVars, after, seen, publishing, holderVars>>

TriggerWriter(t) ==
  /\ At(t, "trigger writer")
  /\ writer' = TRUE
  /\ publishing' = [publishing EXCEPT ![t] =
       IF writer THEN NoPayload ELSE [code |-> t, delta |-> 1, alarms |-> <<t>>]]
  /\ Goto(t, IF writer THEN "defer" ELSE "publish image")
  /\ UNCHANGED <<intent, deferredVars, imageVars, left, after, seen, holderVars>>

Trigger(t) == TriggerDeclare(t) \/ TriggerWriter(t)

-----------------------------------------------------------------------------
(* Clear: promote, look, and empty the image unless something is deferred. *)

ClearCall(t) ==
  /\ t \in Clearer
  /\ At(t, "idle") /\ intent.seq < MaxSequence
  /\ left' = [left EXCEPT ![t] = 2]
  /\ after' = [after EXCEPT ![t] = "clear look"]
  /\ Goto(t, "promote")
  /\ UNCHANGED <<intent, writer, deferredVars, imageVars, seen, publishing, holderVars>>

ClearLook(t) ==
  /\ At(t, "clear look")
  /\ Goto(t, IF HasDeferredAlarmPublication \/ ~hasAlarm THEN "idle" ELSE "clear declare")
  /\ UNCHANGED <<intent, writer, deferredVars, imageVars, locals, holderVars>>

ClearDeclare(t) ==
  /\ At(t, "clear declare")
  /\ Declare(t, "withdraw", "clear writer")
  /\ left' = [left EXCEPT ![t] = 2]
  /\ UNCHANGED <<writer, deferredVars, imageVars, after, seen, publishing, holderVars>>

ClearWriter(t) == TakeWriter(t, "clear writer", "clear recheck", "withdraw")

ClearRecheck(t) ==
  /\ At(t, "clear recheck")
  /\ Goto(t, IF HasDeferredAlarmPublication THEN "release writer" ELSE "clear flag")
  /\ UNCHANGED <<intent, writer, deferredVars, imageVars, locals, holderVars>>

(* The three stores that empty the image, shared with the clear under an   *)
(* admission.                                                              *)
ClearFlag(t) ==
  /\ At(t, "clear flag")
  /\ hasAlarm' = FALSE
  /\ shown' = {}
  /\ captured' = IF Admitted(t) THEN [captured EXCEPT ![t] = {}] ELSE captured
  /\ Goto(t, "clear image")
  /\ UNCHANGED <<intent, writer, deferredVars, image, updateCount, locals, admission>>

ClearImage(t) ==
  /\ At(t, "clear image")
  /\ image' = <<>>
  /\ Goto(t, "clear count")
  /\ UNCHANGED <<intent, writer, deferredVars, hasAlarm, updateCount, shown, locals, holderVars>>

ClearCount(t) ==
  /\ At(t, "clear count")
  /\ updateCount' = updateCount + 1
  /\ admission' = IF Admitted(t)
                  THEN [admission EXCEPT ![t].expected = @ + 1] ELSE admission
  /\ Goto(t, IF Admitted(t) THEN "admitted" ELSE "release writer")
  /\ UNCHANGED <<intent, writer, deferredVars, image, hasAlarm, shown, locals, captured>>

Clear(t) ==
  \/ ClearCall(t) \/ ClearLook(t) \/ ClearDeclare(t) \/ ClearWriter(t)
  \/ ClearRecheck(t) \/ ClearFlag(t) \/ ClearImage(t) \/ ClearCount(t)

-----------------------------------------------------------------------------
(* TryBeginMotionAdmission.  The caller has captured the update count and, *)
(* if exact, the base of the intent state just after it.  After BUSY or a  *)
(* completed admission it may call again with the same capture; after      *)
(* SUPERSEDED it drops it.                                                 *)

Base(state) == [state EXCEPT !.reserved = FALSE]
Reserved(h) == [admission[h].base EXCEPT !.reserved = TRUE]

CaptureCount(h) ==
  /\ pc[h] \in {"idle", "captured", "superseded"}
  /\ \E mode \in Mode :
       /\ admission' = [admission EXCEPT ![h] =
            [NotAdmitted EXCEPT !.expected = updateCount, !.exact = mode.exact,
                                !.requireNone = mode.requireNone]]
       /\ Goto(h, IF mode.exact THEN "capture intent" ELSE "captured")
  /\ captured' = [captured EXCEPT ![h] = shown]
  /\ UNCHANGED <<intent, writer, deferredVars, imageVars, locals>>

CaptureIntent(h) ==
  /\ At(h, "capture intent")
  /\ admission' = [admission EXCEPT ![h].base = Base(intent)]
  /\ Goto(h, "captured")
  /\ UNCHANGED <<intent, writer, deferredVars, imageVars, locals, captured>>

AdmitCall(h) ==
  /\ At(h, "captured") /\ intent.seq < MaxSequence
  /\ IF HasDeferredAlarmPublication
     THEN /\ left' = [left EXCEPT ![h] = 2]
          /\ after' = [after EXCEPT ![h] = "admit look"]
          /\ Goto(h, "promote")
     ELSE Goto(h, "admit look") /\ UNCHANGED <<left, after>>
  /\ UNCHANGED <<intent, writer, deferredVars, imageVars, seen, publishing, holderVars>>

(* The capture alone outlives a call: the count, and the base if exact. *)
Capture(h) ==
  [admission[h] EXCEPT !.acquired = FALSE, !.base = IF admission[h].exact THEN @ ELSE Quiet]

Busy(h) ==
  /\ Goto(h, "captured")
  /\ admission' = [admission EXCEPT ![h] = Capture(h)]
  /\ UNCHANGED captured

Supersede(h) ==
  /\ Goto(h, "superseded")
  /\ admission' = [admission EXCEPT ![h] = NotAdmitted]
  /\ captured' = [captured EXCEPT ![h] = {}]

(* A newer revision, or an alarm the caller does not accept. *)
Superseded(h) ==
  \/ updateCount # admission[h].expected
  \/ admission[h].requireNone /\ HasAlarm

Drifted(h) == admission[h].exact /\ Base(intent) # admission[h].base

AdmitLook(h) ==
  /\ At(h, "admit look")
  /\ IF Superseded(h) THEN Supersede(h)
     ELSE Goto(h, "admit state") /\ UNCHANGED holderVars
  /\ UNCHANGED <<intent, writer, deferredVars, imageVars, locals>>

AdmitState(h) ==
  /\ At(h, "admit state")
  /\ IF Drifted(h) THEN Supersede(h)
     ELSE IF admission[h].exact /\ intent.reserved THEN Busy(h)
     ELSE /\ admission' = [admission EXCEPT ![h].base = intent]
          /\ Goto(h, "admit quiet")
          /\ UNCHANGED captured
  /\ UNCHANGED <<intent, writer, deferredVars, imageVars, locals>>

AdmitQuiet(h) ==
  LET a == admission[h] IN
  /\ At(h, "admit quiet")
  /\ IF HasDeferredAlarmPublication /\ a.requireNone THEN Supersede(h)
     ELSE IF \/ HasDeferredAlarmPublication \/ a.base.active # 0 \/ a.base.reserved
             \/ writer
     THEN Busy(h)
     ELSE Goto(h, "admit reserve") /\ UNCHANGED holderVars
  /\ UNCHANGED <<intent, writer, deferredVars, imageVars, locals>>

AdmitReserve(h) ==
  /\ At(h, "admit reserve")
  /\ IF intent = admission[h].base
     THEN intent' = Reserved(h) /\ Goto(h, "admit verify") /\ UNCHANGED holderVars
     ELSE UNCHANGED intent /\ IF Superseded(h) \/ Drifted(h) THEN Supersede(h) ELSE Busy(h)
  /\ UNCHANGED <<writer, deferredVars, imageVars, locals>>

(* IsMotionAdmissionCurrent, but for the acquired flag. *)
Undisturbed(h) ==
  /\ intent = Reserved(h)
  /\ updateCount = admission[h].expected
  /\ ~HasDeferredAlarmPublication
  /\ ~writer

Current(h) == Undisturbed(h) /\ (admission[h].requireNone => ~hasAlarm)

(* Mutant: what was read before the reservation is not read again. *)
AdmitUnverified(h) ==
  /\ At(h, "admit verify")
  /\ admission' = [admission EXCEPT ![h].acquired = TRUE]
  /\ Goto(h, "admitted")
  /\ UNCHANGED <<intent, writer, deferredVars, imageVars, locals, captured>>

AdmitVerify(h) ==
  /\ At(h, "admit verify")
  /\ IF Current(h)
     THEN /\ admission' = [admission EXCEPT ![h].acquired = TRUE]
          /\ Goto(h, "admitted")
     ELSE Goto(h, "back out") /\ UNCHANGED admission
  /\ UNCHANGED <<intent, writer, deferredVars, imageVars, locals, captured>>

(* The exact word is put back if nobody declared a call meanwhile, and the *)
(* reservation alone is cleared otherwise.                                 *)
ReleaseReservation(h) ==
  intent' = IF intent = Reserved(h) THEN admission[h].base ELSE Base(intent)

BackOut(h) ==
  /\ At(h, "back out")
  /\ ReleaseReservation(h)
  /\ left' = [left EXCEPT ![h] = 2]
  /\ after' = [after EXCEPT ![h] = "admit answer"]
  /\ Goto(h, "promote")
  /\ UNCHANGED <<writer, deferredVars, imageVars, seen, publishing, holderVars>>

AdmitAnswer(h) ==
  /\ At(h, "admit answer")
  /\ IF Superseded(h) \/ HasDeferredAlarmPublication \/ Drifted(h)
     THEN Supersede(h) ELSE Busy(h)
  /\ UNCHANGED <<intent, writer, deferredVars, imageVars, locals>>

TryBeginMotionAdmission(h) ==
  \/ CaptureCount(h) \/ CaptureIntent(h) \/ AdmitCall(h) \/ AdmitLook(h)
  \/ AdmitState(h) \/ AdmitQuiet(h) \/ AdmitReserve(h) \/ AdmitVerify(h)
  \/ BackOut(h) \/ AdmitAnswer(h)

EndMotionAdmission(h) ==
  /\ At(h, "admitted")
  /\ ReleaseReservation(h)
  /\ admission' = [admission EXCEPT ![h] = Capture(h)]
  /\ left' = [left EXCEPT ![h] = 2]
  /\ after' = [after EXCEPT ![h] = "captured"]
  /\ Goto(h, "promote")
  /\ UNCHANGED <<writer, deferredVars, imageVars, seen, publishing, captured>>

-----------------------------------------------------------------------------
(* ClearUnderMotionAdmission and TriggerUnderMotionAdmission.  A call that *)
(* is refused, or has nothing to clear, changes nothing.  The sequence     *)
(* advances under the reservation, so that every other capture is stale.   *)

Advance(h) ==
  /\ intent' = [intent EXCEPT !.seq = @ + 1]
  /\ admission' = [admission EXCEPT ![h].base.seq = @ + 1]

ClearUnderMotionAdmission(h) ==
  /\ At(h, "admitted") /\ intent.seq < MaxSequence
  /\ Undisturbed(h) /\ hasAlarm
  /\ Advance(h)
  /\ Goto(h, "clear flag")
  /\ UNCHANGED <<writer, deferredVars, imageVars, locals, captured>>

TriggerUnderWriter(h) ==
  /\ At(h, "admitted") /\ intent.seq < MaxSequence
  /\ Current(h) /\ ~admission[h].requireNone
  /\ writer' = TRUE
  /\ publishing' = [publishing EXCEPT ![h] = [code |-> h, delta |-> 1, alarms |-> <<h>>]]
  /\ Goto(h, "under reserve")
  /\ UNCHANGED <<intent, deferredVars, imageVars, left, after, seen, holderVars>>

TriggerUnderReserve(h) ==
  /\ At(h, "under reserve")
  /\ IF intent = Reserved(h)
     THEN /\ Advance(h)
          /\ Goto(h, "publish image")
          /\ UNCHANGED publishing
     ELSE /\ publishing' = [publishing EXCEPT ![h] = NoPayload]
          /\ Goto(h, "release writer")
          /\ UNCHANGED <<intent, admission>>
  /\ UNCHANGED <<writer, deferredVars, imageVars, left, after, seen, captured>>

TriggerUnderMotionAdmission(h) == TriggerUnderWriter(h) \/ TriggerUnderReserve(h)

-----------------------------------------------------------------------------
Next ==
  \/ \E t \in Thread :
       \/ PublishAlarmUnderWriter(t) \/ TryPromoteDeferredAlarms(t) \/ Withdraw(t)
       \/ DeferAlarm(t) \/ Trigger(t) \/ Clear(t)
  \/ \E h \in Holder :
       \/ TryBeginMotionAdmission(h) \/ EndMotionAdmission(h)
       \/ ClearUnderMotionAdmission(h) \/ TriggerUnderMotionAdmission(h)

Spec == Init /\ [][Next]_vars

-----------------------------------------------------------------------------
Writing == {"publish image", "publish flag", "publish count",
            "clear flag", "clear image", "clear count"}
Declared == {"defer", "defer swap", "overflow payload", "overflow flag", "withdraw",
             "trigger writer", "promote writer", "promote take", "promote payload",
             "clear writer", "clear recheck"}
Reserving == {"admit verify", "back out", "admitted", "under reserve"}
Elsewhere == {"idle", "captured", "superseded", "promote", "promote declare", "clear look",
              "clear declare", "capture intent", "admit look", "admit state",
              "admit quiet", "admit reserve", "admit answer", "release writer"}
Label == Writing \cup Declared \cup Reserving \cup Elsewhere

Return == {"idle", "captured", "clear look", "admit look", "admit answer"}
Payload == [code : Alarm \cup {NoAlarm}, delta : Nat, alarms : Seq(Alarm)]
Reservation == [acquired : BOOLEAN, base : Intent, expected : Nat, requireNone : BOOLEAN,
                exact : BOOLEAN]

(* Every variable keeps its type: the active count of the intent word never *)
(* borrows from its neighbours and the deferred count stays in its field.   *)
TypeOK ==
  /\ intent \in Intent /\ writer \in BOOLEAN
  /\ deferred \in Publication /\ overflowPayload \in Alarm \cup {NoAlarm}
  /\ image \in Seq(Alarm \cup {NoAlarm}) /\ Len(image) <= MaxAlarms
  /\ hasAlarm \in BOOLEAN /\ updateCount \in Nat
  /\ pc \in [Thread -> Label] /\ left \in [Thread -> 0 .. 2]
  /\ after \in [Thread -> Return]
  /\ seen \in [Thread -> Publication]
  /\ publishing \in [Thread -> Payload]
  /\ admission \in [Holder -> Reservation]
  /\ shown \subseteq Alarm /\ waiting \in Seq(Alarm)
  /\ captured \in [Holder -> SUBSET Alarm]

(* What an admission is for: while it lasts nobody but its holder writes   *)
(* the image, what is shown is what the holder captured, and as long as    *)
(* the intent word is the reserved one nothing is deferred and nobody has  *)
(* the writer flag either.                                                 *)
AdmissionProof ==
  \A h \in Holder : Admitted(h) =>
    /\ intent.reserved
    /\ \A t \in Thread \ {h} : pc[t] \notin Writing
    /\ shown = captured[h]
    /\ At(h, "admitted") =>
         /\ updateCount = admission[h].expected
         /\ admission[h].requireNone => ~hasAlarm
         /\ intent = Reserved(h) => deferred = Nothing /\ ~writer

(* No alarm is lost on its way to the operator: an alarm that was deferred *)
(* has a publication that says so, one taken up is published before the    *)
(* writer is released, one that is shown has the flag and a slot of the    *)
(* image, and no slot is filled with the code NONE.                        *)
NoAlarmIsLost ==
  /\ waiting # <<>> <=> deferred # Nothing
  /\ \A t \in Thread :
       publishing[t].alarms # <<>>
         <=> pc[t] \in {"under reserve", "promote payload", "publish image", "publish flag",
                       "publish count"}
  /\ (\A t \in Thread : pc[t] \notin Writing) =>
       /\ shown # {} <=> hasAlarm
       /\ shown # {} <=> image # <<>>
  /\ NoAlarm \notin Range(image)

(* The deferred publication describes the alarms it stands for: without    *)
(* overflow it has their number and the first of them, with overflow they  *)
(* are more than it counts.                                                *)
DeferredDescribesWaiting ==
  IF deferred.overflow
  THEN /\ deferred.count < Len(waiting)
       /\ deferred.count > 0 => deferred.code \in Range(waiting)
  ELSE /\ deferred.count = Len(waiting)
       /\ waiting # <<>> => deferred.code = Head(waiting)

(* AlarmManager.cpp 631: "Every sequence/active change denotes a newer     *)
(* Alarm/Clear publication", so a caller with an exact capture is told     *)
(* SUPERSEDED only when the revision moved, an alarm it does not accept is *)
(* there, or a publication is on its way.                                  *)
SupersededDenotesPublication ==
  [][\A h \in Holder :
       pc'[h] = "superseded" /\ pc[h] # "superseded" =>
         \/ Superseded(h)
         \/ HasDeferredAlarmPublication
         \/ \E t \in Thread : \/ pc[t] \in {"trigger writer", "defer", "defer swap",
                                          "overflow payload", "overflow flag"}
                             \/ pc[t] \in Writing \cup {"promote payload"}]_vars

=============================================================================
