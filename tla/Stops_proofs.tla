---------------------------- MODULE Stops_proofs ----------------------------
(***************************************************************************)
(* The fence of cancelled sessions is read whole, only moves forward, and  *)
(* no stop is missed, for any number of requesters and workers.            *)
(*                                                                         *)
(* The controlled stop of RESET is believed by the NC only if nobody asked *)
(* for a stop since the press, no request is taken for settled before it   *)
(* is in its mailbox, and the evidence of a lost mapping is kept until it  *)
(* is recorded, for any number of threads that request stops.              *)
(***************************************************************************)
EXTENDS MCStops, FiniteSetTheorems, TLAPS

(* The session through which work was cancelled at a revision. *)
Written(revision) == IF revision = 0 THEN 0 ELSE log[revision]

Writing == {"stop write", "stop end"}
Begun == {"stop begin"} \cup Writing
Loaded == Begun \cup {"stop through", "stop phase", "queue through", "queue phase",
                      "queue ready", "check through", "check phase", "check ready"}
Checking == {"check through", "check phase", "check ready"}
Captured == Checking \cup {"queued", "check", "fenced", "act"}
Stopping == Begun \cup {"stop", "stop through", "stop phase", "close", "return"}
Label == Reading \cup
  {"idle", "stop", "stop through", "stop phase", "stop begin", "stop write",
   "stop end", "close", "return", "queued", "cleanup", "refused", "fenced", "act"}

(* An open fence counts the revisions, and is odd while a writer holds it. *)
PhaseCounts ==
  \/ phase = Maximum
  \/ /\ phase = 2 * Len(log) /\ through = Written(Len(log))
     /\ \A r \in Requester : pc[r] \notin Writing
  \/ phase = 2 * Len(log) + 1

(* One writer at a time holds the fence, and it does not lower it. *)
WriterAlone ==
  \A r \in Requester : pc[r] \in Writing =>
    /\ seen[r] = 2 * Len(log)
    /\ phase \in {Maximum, seen[r] + 1}
    /\ \A q \in Requester : pc[q] \in Writing => q = r
    /\ session[r] >= Written(Len(log))
    /\ through = IF pc[r] = "stop write" THEN Written(Len(log)) ELSE session[r]

(* What a requester knows before it takes the fence. *)
RequesterKnows(r) ==
  /\ pc[r] \in Stopping \cup {"idle"}
  /\ pc[r] \in Stopping => session[r] # 0
  /\ pc[r] \in Begun => seen[r] + 2 < Maximum
  /\ pc[r] = "stop begin" => session[r] >= read[r]

(* A thread goes on with a phase it loaded only if the phase was even, and *)
(* the session it loaded is that of the phase it loaded, as long as the    *)
(* phase is found unchanged afterwards.                                    *)
ReadKnows(t) ==
  /\ pc[t] \in Loaded =>
       seen[t] < Maximum /\ seen[t] = 2 * Revision(t) /\ Revision(t) <= Len(log)
  /\ pc[t] \in {"stop phase", "queue phase", "check phase"} /\ phase = seen[t] =>
       read[t] = Written(Revision(t))
  /\ pc[t] \in {"stop begin", "queue ready", "check ready"} =>
       read[t] = Written(Revision(t))

(* Cancelled sessions never go down. *)
LogGrows == \A i, j \in 1 .. Len(log) : i <= j => log[i] <= log[j]

(* A stop for the worker's session has been made since it captured. *)
Stopped(w) ==
  phase = Maximum \/ (ticket[w] < Len(log) /\ session[w] <= Written(Len(log)))

(* Work is queued only for a session that was not cancelled yet; if a stop *)
(* is owed to it, its checks find it.                                      *)
WorkerKnows(w) ==
  /\ pc[w] \in Reading \cup {"idle", "refused", "cleanup"} \cup Captured
  /\ pc[w] \in Captured =>
       ticket[w] <= Len(log) /\ session[w] >= Written(ticket[w])
  /\ w \in owed => pc[w] \in Captured /\ Stopped(w)
  /\ w \in must =>
       /\ w \in owed /\ pc[w] # "act"
       /\ pc[w] \in Checking =>
            ticket[w] < Revision(w) /\ session[w] <= Written(Revision(w))

(* The work a call covers is stopped when the call returns. *)
CallCovers(r) ==
  \A w \in covers[r] :
    /\ pc[w] \in Captured /\ pc[r] \in Stopping /\ session[w] <= session[r]
    /\ pc[r] = "return" => Stopped(w)

IInv ==
  /\ TypeOK
  /\ PhaseCounts
  /\ WriterAlone
  /\ LogGrows
  /\ \A t \in Thread : ReadKnows(t)
  /\ \A r \in Requester : RequesterKnows(r) /\ CallCovers(r)
  /\ \A w \in Worker : WorkerKnows(w)

-----------------------------------------------------------------------------
(* It holds at the start. *)
LEMMA InitIInv == Init => IInv
<1> SUFFICES ASSUME Init PROVE IInv
  OBVIOUS
<1> USE DEF Init, fence
<1>1. TypeOK
  <2>1. pc \in [Thread -> Label]
    BY DEF Label
  <2>2. session \in [Thread -> Session \cup {0}]
    OBVIOUS
  <2>3. /\ try \in [Thread -> 0 .. Tries - 1]
        /\ seen \in [Thread -> 0 .. Maximum]
        /\ read \in [Thread -> Session \cup {0}]
        /\ ticket \in [Worker -> Nat]
        /\ covers \in [Requester -> SUBSET Worker]
    BY FenceAssumption
  <2>4. phase \in 0 .. Maximum /\ through \in Session \cup {0} /\ calls \in 0 .. MaxCalls
    BY FenceAssumption
  <2>5. log \in Seq(Session)
    OBVIOUS
  <2> QED BY <2>1, <2>2, <2>3, <2>4, <2>5 DEF TypeOK, Label
<1>2. \A t \in Thread : pc[t] = "idle"
  OBVIOUS
<1>3. PhaseCounts /\ WriterAlone
  BY <1>2 DEF PhaseCounts, WriterAlone, Writing, Written, Thread
<1>4. LogGrows
  BY DEF LogGrows
<1>5. \A t \in Thread : ReadKnows(t)
  BY <1>2 DEF ReadKnows, Loaded, Begun, Writing
<1>6. \A r \in Requester : RequesterKnows(r) /\ CallCovers(r)
  BY <1>2 DEF RequesterKnows, CallCovers, Stopping, Begun, Writing, Thread
<1>7. \A w \in Worker : WorkerKnows(w)
  BY <1>2 DEF WorkerKnows, Captured, Checking, Thread
<1> QED BY <1>1, <1>3, <1>4, <1>5, <1>6, <1>7 DEF IInv

(* The next attempt, or the last one given up. *)
LEMMA RetryTypes ==
  ASSUME TypeOK, NEW t \in Thread, NEW label \in Label, NEW last \in Label,
         Retry(t, label, last)
  PROVE  /\ try' \in [Thread -> 0 .. Tries - 1]
         /\ pc' \in [Thread -> Label]
<1>1. try \in [Thread -> 0 .. Tries - 1] /\ pc \in [Thread -> Label]
  BY DEF TypeOK, Label
<1>2. try[t] \in Nat /\ Tries \in Nat /\ Tries > 0
  BY <1>1, FenceAssumption
<1>3. (IF try[t] + 1 < Tries THEN try[t] + 1 ELSE 0) \in 0 .. Tries - 1
  BY <1>2
<1> QED BY <1>1, <1>3 DEF Retry, Goto

(* Each step keeps the types. *)
LEMMA RequesterTypes ==
  ASSUME TypeOK, NEW r \in Requester, RequesterKnows(r), RequestStop(r)
  PROVE  TypeOK'
<1> USE DEF At, Goto, fence, locals, history
<1>1. r \in Thread /\ Requester \subseteq Thread
  BY DEF Thread
<1>2. /\ pc \in [Thread -> Label] /\ try \in [Thread -> 0 .. Tries - 1]
      /\ seen \in [Thread -> 0 .. Maximum] /\ session \in [Thread -> Session \cup {0}]
      /\ read \in [Thread -> Session \cup {0}] /\ phase \in 0 .. Maximum
      /\ through \in Session \cup {0} /\ log \in Seq(Session)
      /\ calls \in 0 .. MaxCalls /\ covers \in [Requester -> SUBSET Worker]
      /\ owed \subseteq Worker
  BY DEF TypeOK, Label
<1>3. Maximum \in Nat /\ Tries \in Nat \ {0} /\ MaxCalls \in Nat
  BY FenceAssumption
<1>4. 0 \in 0 .. Tries - 1 /\ 0 \in 0 .. Maximum
  BY <1>3
<1>5. /\ pc' \in [Thread -> Label] /\ try' \in [Thread -> 0 .. Tries - 1]
  <2>1. ASSUME NEW a \in Label, NEW b \in Label, Retry(r, a, b)
        PROVE  pc' \in [Thread -> Label] /\ try' \in [Thread -> 0 .. Tries - 1]
    BY <2>1, <1>1, RetryTypes
  <2>2. /\ "stop" \in Label /\ "close" \in Label /\ "return" \in Label
        /\ "stop through" \in Label /\ "stop phase" \in Label /\ "stop begin" \in Label
        /\ "stop write" \in Label /\ "stop end" \in Label /\ "idle" \in Label
    BY DEF Label
  <2>3. Retry(r, "stop", "close") =>
          pc' \in [Thread -> Label] /\ try' \in [Thread -> 0 .. Tries - 1]
    BY <2>1, <2>2
  <2>4. \A l \in Label : Goto(r, l) => pc' \in [Thread -> Label]
    BY <1>1, <1>2
  <2>5. pc' \in [Thread -> Label]
    BY <2>2, <2>3, <2>4 DEF RequestStop, CallStop, StopLoad, StopThrough, StopPhase,
       StopBegin, StopWrite, StopEnd, Close, Return
  <2>6. try' \in [Thread -> 0 .. Tries - 1]
    BY <1>2, <1>4, <2>3 DEF RequestStop, CallStop, StopLoad, StopThrough, StopPhase,
       StopBegin, StopWrite, StopEnd, Close, Return
  <2> QED BY <2>5, <2>6
<1>6. seen' \in [Thread -> 0 .. Maximum] /\ read' \in [Thread -> Session \cup {0}]
  BY <1>2, <1>4 DEF RequestStop, CallStop, StopLoad, StopThrough, StopPhase,
       StopBegin, StopWrite, StopEnd, Close, Return
<1>7. session' \in [Thread -> Session \cup {0}] /\ ticket' = ticket /\ must' = must
  BY <1>2 DEF RequestStop, CallStop, StopLoad, StopThrough, StopPhase,
       StopBegin, StopWrite, StopEnd, Close, Return
<1>8. calls' \in 0 .. MaxCalls
  <2>1. CASE CallStop(r)
    <3>1. calls' = calls + 1 /\ calls < MaxCalls
      BY <2>1 DEF CallStop
    <3> QED BY <3>1, <1>2, <1>3
  <2>2. CASE ~CallStop(r)
    <3>1. calls' = calls
      BY <2>2 DEF RequestStop, StopLoad, StopThrough, StopPhase,
         StopBegin, StopWrite, StopEnd, Close, Return
    <3> QED BY <3>1, <1>2
  <2> QED BY <2>1, <2>2
<1>9. /\ covers' \in [Requester -> SUBSET Worker]
      /\ owed' \subseteq Worker
  <2>1. CASE CallStop(r)
    <3>1. PICK s \in Session : covers' = [covers EXCEPT ![r] =
            {w \in Worker : pc[w] \in {"queued", "check", "check through", "check phase"}
                            /\ session[w] <= s}]
      BY <2>1 DEF CallStop
    <3> QED BY <3>1, <2>1, <1>2 DEF CallStop
  <2>2. CASE Return(r)
    <3>1. covers[r] \subseteq Worker
      BY <1>2
    <3> QED BY <3>1, <2>2, <1>2 DEF Return
  <2>3. CASE ~CallStop(r) /\ ~Return(r)
    BY <2>3, <1>2 DEF RequestStop, StopLoad, StopThrough, StopPhase,
       StopBegin, StopWrite, StopEnd, Close
  <2> QED BY <2>1, <2>2, <2>3
<1>10. phase' \in 0 .. Maximum /\ through' \in Session \cup {0} /\ log' \in Seq(Session)
  <2>1. CASE StopBegin(r)
    <3>1. seen[r] \in 0 .. Maximum /\ seen[r] + 2 < Maximum
      BY <2>1, <1>1, <1>2 DEF StopBegin, RequesterKnows, Begun
    <3>2. phase' \in {phase, seen[r] + 1} /\ UNCHANGED <<through, log>>
      BY <2>1 DEF StopBegin
    <3>3. seen[r] + 1 \in 0 .. Maximum
      BY <3>1, <1>3
    <3> QED BY <3>2, <3>3, <1>2
  <2>2. CASE StopEnd(r)
    <3>1. seen[r] \in 0 .. Maximum /\ seen[r] + 2 < Maximum /\ session[r] \in Session
      BY <2>2, <1>1, <1>2 DEF StopEnd, RequesterKnows, Begun, Writing, Stopping
    <3>2. seen[r] + 2 \in 0 .. Maximum /\ Append(log, session[r]) \in Seq(Session)
      BY <3>1, <1>2, <1>3
    <3> QED BY <3>2, <2>2, <1>2 DEF StopEnd
  <2>3. CASE StopWrite(r)
    BY <2>3, <1>1, <1>2 DEF StopWrite
  <2>4. CASE Close(r)
    BY <2>4, <1>2, <1>3 DEF Close
  <2>5. CASE ~(StopBegin(r) \/ StopEnd(r) \/ StopWrite(r) \/ Close(r))
    BY <2>5, <1>2 DEF RequestStop, CallStop, StopLoad, StopThrough, StopPhase, Return
  <2> QED BY <2>1, <2>2, <2>3, <2>4, <2>5
<1> QED BY <1>5, <1>6, <1>7, <1>8, <1>9, <1>10 DEF TypeOK, Label

(* A worker keeps the types. *)
LEMMA WorkerTypes ==
  ASSUME TypeOK, NEW w \in Worker, Read(w) \/ Check(w) \/ Act(w)
  PROVE  TypeOK'
<1> USE DEF At, Goto, fence, locals, history
<1>1. w \in Thread
  BY DEF Thread
<1>2. /\ pc \in [Thread -> Label] /\ try \in [Thread -> 0 .. Tries - 1]
      /\ seen \in [Thread -> 0 .. Maximum] /\ read \in [Thread -> Session \cup {0}]
      /\ phase \in 0 .. Maximum /\ through \in Session \cup {0}
      /\ ticket \in [Worker -> Nat] /\ must \subseteq Worker
  BY DEF TypeOK, Label
<1>3. 0 \in 0 .. Tries - 1
  BY FenceAssumption
<1>4. /\ "queue" \in Label /\ "queue through" \in Label /\ "queue phase" \in Label
      /\ "queue ready" \in Label /\ "check" \in Label /\ "check through" \in Label
      /\ "check phase" \in Label /\ "check ready" \in Label /\ "refused" \in Label
      /\ "queued" \in Label /\ "cleanup" \in Label /\ "fenced" \in Label /\ "act" \in Label
  BY DEF Label, Reading
<1>5. \A l \in Label : Goto(w, l) => pc' \in [Thread -> Label]
  BY <1>1, <1>2
<1>6. \A a, b \in Label : Retry(w, a, b) =>
        pc' \in [Thread -> Label] /\ try' \in [Thread -> 0 .. Tries - 1]
  BY <1>1, RetryTypes
<1> DEFINE Typed ==
      /\ pc' \in [Thread -> Label] /\ try' \in [Thread -> 0 .. Tries - 1]
      /\ seen' \in [Thread -> 0 .. Maximum] /\ read' \in [Thread -> Session \cup {0}]
      /\ UNCHANGED <<fence, session, ticket, calls, history>>
<1>7. \A a, b, c, d \in Label : ReadLoad(w, a, b, c, d) => Typed
  BY ZenonT(60), <1>2, <1>5, <1>6 DEF ReadLoad
<1>8. \A a, b \in Label : ReadThrough(w, a, b) => Typed
  BY <1>2, <1>5 DEF ReadThrough
<1>9. \A a, b, c, d, e \in Label : ReadPhase(w, a, b, c, d, e) => Typed
  BY <1>2, <1>5, <1>6 DEF ReadPhase
<1>10. /\ pc' \in [Thread -> Label] /\ try' \in [Thread -> 0 .. Tries - 1]
      /\ seen' \in [Thread -> 0 .. Maximum] /\ read' \in [Thread -> Session \cup {0}]
      /\ ticket' \in [Worker -> Nat] /\ must' \subseteq Worker
      /\ UNCHANGED <<fence, session, calls, covers, owed>>
  <2>1. CASE CallRead(w)
    BY <2>1, <1>2, <1>3, <1>4, <1>5 DEF CallRead
  <2>2. CASE \/ ReadLoad(w, "queue", "queue through", "refused", "refused")
             \/ ReadThrough(w, "queue through", "queue phase")
             \/ ReadPhase(w, "queue phase", "queue", "queue ready", "refused", "refused")
             \/ ReadLoad(w, "check", "check through", "queued", "queued")
             \/ ReadThrough(w, "check through", "check phase")
             \/ ReadPhase(w, "check phase", "check", "check ready", "queued", "queued")
    <3>1. Typed
      <4> HIDE DEF Typed
      <4> QED BY <2>2, <1>4, <1>7, <1>8, <1>9
    <3> QED BY <3>1, <1>2
  <2>3. CASE Queue(w)
    <3>1. Revision(w) \in Nat
      BY <1>1, <1>2, FenceAssumption DEF Revision
    <3> QED BY <2>3, <3>1, <1>2, <1>4, <1>5 DEF Queue
  <2>4. CASE Check(w) \/ Act(w)
    BY <2>4, <1>2, <1>4, <1>5 DEF Check, Act
  <2> QED BY <2>1, <2>2, <2>3, <2>4 DEF Read
<1> QED BY <1>10 DEF TypeOK, Label

-----------------------------------------------------------------------------
(* A step that leaves the fence alone disturbs only what its own thread    *)
(* knows, as long as a captured worker stays captured.                     *)
LEMMA Quiet ==
  ASSUME IInv, TypeOK', NEW t \in Thread, UNCHANGED fence,
         pc[t] \in Writing => phase = Maximum, pc'[t] \notin Writing,
         \A u \in Thread \ {t} :
           pc'[u] = pc[u] /\ seen'[u] = seen[u] /\ read'[u] = read[u] /\ session'[u] = session[u],
         \A w \in Worker :
           /\ session'[w] = session[w] /\ (w # t => ticket'[w] = ticket[w])
           /\ pc[w] \in Captured => pc'[w] \in Captured /\ ticket'[w] = ticket[w]
           /\ w \in owed' => w \in owed \/ (pc[w] \in Captured /\ Stopped(w))
           /\ w \in owed => w \in owed'
           /\ w # t /\ w \in must' => w \in must,
         \A r \in Requester \ {t} : covers'[r] = covers[r],
         ReadKnows(t)',
         t \in Requester => RequesterKnows(t)' /\ CallCovers(t)',
         t \in Worker => WorkerKnows(t)'
  PROVE  IInv'
<1>1. phase' = phase /\ through' = through /\ log' = log
  BY DEF fence
<1>2. Requester \subseteq Thread /\ Worker \subseteq Thread
  BY DEF Thread
<1>3. PhaseCounts' /\ WriterAlone'
  <2>1. /\ Written(Len(log))' = Written(Len(log)) /\ PhaseCounts /\ WriterAlone
        /\ \A r \in Requester : pc'[r] \in Writing => r # t /\ pc'[r] = pc[r]
    BY <1>1, <1>2 DEF IInv, Written
  <2>2. PhaseCounts'
    BY <1>1, <1>2, <2>1 DEF PhaseCounts
  <2>3. WriterAlone'
    BY ZenonT(60), <1>1, <1>2, <2>1 DEF WriterAlone
  <2> QED BY <2>2, <2>3
<1>4. LogGrows'
  BY <1>1 DEF IInv, LogGrows
<1>5. \A u \in Thread : ReadKnows(u)'
  BY <1>1 DEF IInv, ReadKnows, Written, Revision
<1>6. \A w \in Worker : pc[w] \in Captured /\ Stopped(w) => Stopped(w)'
  BY <1>1, <1>2 DEF Stopped, Written
<1>7. ASSUME NEW r \in Requester \ {t}
      PROVE  RequesterKnows(r)' /\ CallCovers(r)'
  <2>1. covers[r] \subseteq Worker
    BY DEF IInv, TypeOK
  <2>2. CallCovers(r)'
    BY <1>2, <1>6, <2>1 DEF IInv, CallCovers
  <2> QED BY <1>2, <2>2 DEF IInv, RequesterKnows
<1>8. ASSUME NEW w \in Worker \ {t}
      PROVE  WorkerKnows(w)'
  <2>1. Stopped(w)' <=> Stopped(w)
    BY <1>1, <1>2 DEF Stopped, Written
  <2> QED BY <1>1, <1>2, <2>1 DEF IInv, WorkerKnows, Written, Revision
<1> QED BY <1>3, <1>4, <1>5, <1>7, <1>8 DEF IInv

(* Sessions and revisions are numbers. *)
LEMMA Numbers ==
  ASSUME TypeOK
  PROVE  /\ phase \in Nat /\ phase <= Maximum /\ through \in Nat /\ Maximum \in Nat
         /\ Len(log) \in Nat /\ \A i \in 1 .. Len(log) : log[i] \in Nat
         /\ \A t \in Thread : seen[t] \in Nat /\ read[t] \in Nat /\ session[t] \in Nat
         /\ \A w \in Worker : ticket[w] \in Nat
<1>0. /\ phase \in 0 .. Maximum /\ through \in Session \cup {0} /\ log \in Seq(Session)
      /\ seen \in [Thread -> 0 .. Maximum] /\ read \in [Thread -> Session \cup {0}]
      /\ session \in [Thread -> Session \cup {0}] /\ ticket \in [Worker -> Nat]
  BY DEF TypeOK
<1>1. Session \subseteq Nat /\ Maximum \in Nat
  BY FenceAssumption
<1>2. Len(log) \in Nat /\ \A i \in 1 .. Len(log) : log[i] \in Session
  BY <1>0
<1>3. phase \in Nat /\ phase <= Maximum /\ through \in Nat
  BY <1>0, <1>1
<1>4. \A t \in Thread : seen[t] \in Nat
  BY <1>0, <1>1
<1>5. \A t \in Thread : read[t] \in Nat /\ session[t] \in Nat
  <2>1. Session \cup {0} \subseteq Nat
    BY <1>1
  <2> HIDE FenceAssumption
  <2>2. \A t \in Thread : read[t] \in Session \cup {0} /\ session[t] \in Session \cup {0}
    BY <1>0
  <2> QED BY <2>1, <2>2
<1>6. \A w \in Worker : ticket[w] \in Nat
  BY <1>0
<1> QED BY <1>1, <1>2, <1>3, <1>4, <1>5, <1>6

(* An even phase below the maximum is that of the last revision. *)
LEMMA EvenPhase ==
  ASSUME TypeOK, PhaseCounts, phase # Maximum, phase % 2 # 1
  PROVE  /\ phase = 2 * Len(log) /\ phase < Maximum /\ phase \div 2 = Len(log)
         /\ through = Written(Len(log))
         /\ \A r \in Requester : pc[r] \notin Writing
<1>1. Len(log) \in Nat /\ phase \in 0 .. Maximum /\ Maximum \in Nat
  BY Numbers
<1>2. phase # 2 * Len(log) + 1
  BY <1>1
<1>3. phase = 2 * Len(log) /\ through = Written(Len(log))
      /\ \A r \in Requester : pc[r] \notin Writing
  BY <1>2 DEF PhaseCounts
<1> QED BY <1>1, <1>3

(* The session of a revision, up to the last. *)
LEMMA WrittenGrows ==
  ASSUME TypeOK, LogGrows, NEW i \in 0 .. Len(log), NEW j \in 0 .. Len(log), i <= j
  PROVE  Written(i) \in Nat /\ Written(i) <= Written(j)
<1>1. Len(log) \in Nat
  BY Numbers
<1>2. \A k \in 1 .. Len(log) : log[k] \in Nat
  BY Numbers
<1> QED BY <1>1, <1>2 DEF Written, LogGrows

(* A worker leaves the fence and the other threads alone, and work that    *)
(* was queued keeps its ticket.                                            *)
LEMMA WorkerFrame ==
  ASSUME TypeOK, NEW w \in Worker, Read(w) \/ Check(w) \/ Act(w)
  PROVE  /\ UNCHANGED <<fence, session, covers, owed>>
         /\ pc[w] \notin Writing /\ pc'[w] \notin Writing
         /\ \A u \in Thread \ {w} :
              pc'[u] = pc[u] /\ seen'[u] = seen[u] /\ read'[u] = read[u]
         /\ \A v \in Worker \ {w} : ticket'[v] = ticket[v] /\ (v \in must' => v \in must)
         /\ pc[w] \in Captured => pc'[w] \in Captured /\ ticket'[w] = ticket[w]
<1> USE DEF At, Goto, fence, locals, history, Captured, Checking, Writing
<1>1. w \in Thread
  BY DEF Thread
<1>2. /\ pc \in [Thread -> Label] /\ seen \in [Thread -> 0 .. Maximum]
      /\ read \in [Thread -> Session \cup {0}] /\ ticket \in [Worker -> Nat]
  BY DEF TypeOK, Label
<1> USE <1>1, <1>2
<1>3. CASE CallRead(w)
  BY <1>3 DEF CallRead
<1>4. CASE \/ ReadLoad(w, "queue", "queue through", "refused", "refused")
           \/ ReadLoad(w, "check", "check through", "queued", "queued")
  BY <1>4 DEF ReadLoad, Retry
<1>5. CASE \/ ReadThrough(w, "queue through", "queue phase")
           \/ ReadThrough(w, "check through", "check phase")
  BY <1>5 DEF ReadThrough
<1>6. CASE \/ ReadPhase(w, "queue phase", "queue", "queue ready", "refused", "refused")
           \/ ReadPhase(w, "check phase", "check", "check ready", "queued", "queued")
  BY <1>6 DEF ReadPhase, Retry
<1>7. CASE Queue(w)
  BY <1>7 DEF Queue
<1>8. CASE Check(w) \/ Act(w)
  BY <1>8 DEF Check, Act
<1> QED BY <1>3, <1>4, <1>5, <1>6, <1>7, <1>8 DEF Read

(* What a worker does. *)
LEMMA WorkerIInv ==
  ASSUME IInv, NEW w \in Worker, Read(w) \/ Check(w) \/ Act(w)
  PROVE  IInv'
<1> USE DEF At, Goto, fence, locals, history
<1>1. w \in Thread /\ w \notin Requester
  BY FenceAssumption DEF Thread
<1>2. TypeOK /\ TypeOK' /\ PhaseCounts /\ LogGrows /\ ReadKnows(w) /\ WorkerKnows(w)
  BY <1>1, WorkerTypes DEF IInv
<1>3. /\ pc \in [Thread -> Label] /\ seen \in [Thread -> 0 .. Maximum]
      /\ read \in [Thread -> Session \cup {0}] /\ session \in [Thread -> Session \cup {0}]
      /\ ticket \in [Worker -> Nat] /\ phase \in 0 .. Maximum /\ log \in Seq(Session)
      /\ must \subseteq Worker /\ owed \subseteq Worker
  BY <1>2 DEF TypeOK, Label
<1>4. /\ seen[w] \in Nat /\ read[w] \in Nat /\ session[w] \in Nat /\ ticket[w] \in Nat
      /\ Len(log) \in Nat /\ Maximum \in Nat /\ phase \in Nat
  BY <1>1, <1>2, Numbers
<1>5. /\ UNCHANGED <<phase, through, log, session, covers, owed>>
      /\ pc[w] \in Captured => pc'[w] \in Captured /\ ticket'[w] = ticket[w]
  BY <1>2, WorkerFrame
<1>6. Stopped(w) /\ ticket'[w] = ticket[w] => Stopped(w)'
  BY <1>5 DEF Stopped, Written
<1>7. phase # Maximum /\ phase % 2 # 1 =>
        /\ phase = 2 * Len(log) /\ phase < Maximum /\ phase \div 2 = Len(log)
        /\ through = Written(Len(log))
  BY <1>2, EvenPhase
<1>8. ReadKnows(w)' /\ WorkerKnows(w)'
  <2>1. CASE CallRead(w)
    <3>1. pc'[w] \in {"queue", "check"} /\ (pc'[w] = "check" => pc[w] = "queued")
      BY <2>1, <1>1, <1>3 DEF CallRead
    <3>2. ReadKnows(w)'
      BY <3>1 DEF ReadKnows, Loaded, Begun, Writing
    <3>3. WorkerKnows(w)'
      BY <2>1, <3>1, <1>2, <1>5, <1>6 DEF CallRead, WorkerKnows, Captured, Checking, Reading, Written
    <3> QED BY <3>2, <3>3
  <2>2. CASE \/ ReadLoad(w, "queue", "queue through", "refused", "refused")
             \/ ReadLoad(w, "check", "check through", "queued", "queued")
    <3>1. /\ seen'[w] = phase /\ UNCHANGED <<read, ticket, must>>
          /\ \/ pc[w] = "queue" /\ pc'[w] \in {"queue", "refused", "queue through"}
             \/ pc[w] = "check" /\ pc'[w] \in {"check", "queued", "check through"}
          /\ pc'[w] \in {"queue through", "check through"} => phase # Maximum /\ phase % 2 # 1
      BY <2>2, <1>1, <1>3 DEF ReadLoad, Retry
    <3>2. ReadKnows(w)'
      <4>1. pc'[w] \in Loaded => pc'[w] \in {"queue through", "check through"}
        BY <3>1 DEF Loaded, Begun, Writing
      <4>2. pc'[w] \in Loaded =>
              seen'[w] < Maximum /\ seen'[w] = 2 * Revision(w)' /\ Revision(w)' <= Len(log)
        <5>1. SUFFICES ASSUME pc'[w] \in Loaded
              PROVE  seen'[w] < Maximum /\ seen'[w] = 2 * Revision(w)' /\ Revision(w)' <= Len(log)
          OBVIOUS
        <5>2. seen'[w] = phase /\ phase # Maximum /\ phase % 2 # 1
          BY <5>1, <4>1, <3>1
        <5>3. Revision(w)' = phase \div 2
          BY <5>2 DEF Revision
        <5> QED BY <5>2, <5>3, <1>7, <1>4
      <4> QED BY <4>1, <4>2, <3>1, <1>5 DEF ReadKnows
    <3>3. pc'[w] = "check through" /\ w \in must =>
            ticket[w] < Len(log) /\ session[w] <= Written(Len(log))
      BY <3>1, <1>2 DEF WorkerKnows, Stopped
    <3>4. WorkerKnows(w)'
      BY <3>1, <3>3, <1>2, <1>5, <1>6, <1>7
         DEF WorkerKnows, Captured, Checking, Reading, Written, Revision
    <3> QED BY <3>2, <3>4
  <2>3. CASE \/ ReadThrough(w, "queue through", "queue phase")
             \/ ReadThrough(w, "check through", "check phase")
    <3>1. /\ read'[w] = through /\ UNCHANGED <<seen, ticket, must>>
          /\ \/ pc[w] = "queue through" /\ pc'[w] = "queue phase"
             \/ pc[w] = "check through" /\ pc'[w] = "check phase"
      BY <2>3, <1>1, <1>3 DEF ReadThrough
    <3>2. seen[w] = 2 * Revision(w) /\ seen[w] < Maximum /\ Revision(w) <= Len(log)
      BY <3>1, <1>2 DEF ReadKnows, Loaded
    <3>3. phase = seen[w] => through = Written(Revision(w))
      <4>1. ASSUME phase = seen[w]
            PROVE  phase # Maximum /\ phase % 2 # 1
        BY <4>1, <3>2, <1>4 DEF Revision
      <4> QED BY <4>1, <1>7 DEF Revision
    <3>4. ReadKnows(w)'
      BY <3>1, <3>2, <3>3, <1>5 DEF ReadKnows, Loaded, Begun, Writing, Revision, Written
    <3>5. WorkerKnows(w)'
      BY <3>1, <1>2, <1>5, <1>6 DEF WorkerKnows, Captured, Checking, Reading, Written, Revision
    <3> QED BY <3>4, <3>5
  <2>4. CASE \/ ReadPhase(w, "queue phase", "queue", "queue ready", "refused", "refused")
             \/ ReadPhase(w, "check phase", "check", "check ready", "queued", "queued")
    <3>1. /\ UNCHANGED <<seen, read, ticket, must>>
          /\ \/ pc[w] = "queue phase" /\ pc'[w] \in {"queue", "queue ready", "refused"}
             \/ pc[w] = "check phase" /\ pc'[w] \in {"check", "check ready", "queued"}
          /\ pc'[w] \in {"queue ready", "check ready"} => phase = seen[w]
      BY <2>4, <1>1, <1>3 DEF ReadPhase, Retry
    <3>2. ReadKnows(w)'
      BY <3>1, <1>2, <1>5 DEF ReadKnows, Loaded, Begun, Writing, Revision, Written
    <3>3. WorkerKnows(w)'
      BY <3>1, <1>2, <1>5, <1>6 DEF WorkerKnows, Captured, Checking, Reading, Written, Revision
    <3> QED BY <3>2, <3>3
  <2>5. CASE Queue(w)
    <3>1. /\ pc[w] = "queue ready" /\ UNCHANGED <<seen, read, must>>
          /\ ticket'[w] = Revision(w)
          /\ pc'[w] \in {"refused", "cleanup", "queued"}
          /\ pc'[w] = "queued" => ~RetiresSession(w)
      BY <2>5, <1>1, <1>3 DEF Queue
    <3>2. /\ Revision(w) <= Len(log) /\ read[w] = Written(Revision(w))
          /\ w \notin owed /\ w \notin must
      BY <3>1, <1>2 DEF ReadKnows, WorkerKnows, Loaded, Captured, Checking
    <3>3. ReadKnows(w)'
      BY <3>1 DEF ReadKnows, Loaded, Begun, Writing
    <3>4. pc'[w] = "queued" => session[w] >= Written(ticket'[w])
      <4>1. pc'[w] = "queued" => ~(session[w] < read[w])
        BY <3>1 DEF RetiresSession
      <4>2. ~(session[w] < read[w]) => session[w] >= Written(Revision(w))
        BY <3>2, <1>4
      <4> QED BY <4>1, <4>2, <3>1
    <3>5. WorkerKnows(w)'
      BY <3>1, <3>2, <3>4, <1>5 DEF WorkerKnows, Captured, Checking, Reading, Written
    <3> QED BY <3>3, <3>5
  <2>6. CASE Check(w) \/ Act(w)
    <3>1. /\ UNCHANGED <<seen, read, ticket, must>>
          /\ \/ /\ pc[w] = "check ready" /\ pc'[w] \in {"queued", "fenced", "act"}
                /\ pc'[w] = "act" => ~AffectsSince(w)
             \/ pc[w] = "act" /\ pc'[w] = "queued"
      BY <2>6, <1>1, <1>3 DEF Check, Act
    <3>2. ReadKnows(w)'
      BY <3>1 DEF ReadKnows, Loaded, Begun, Writing
    <3>3. pc[w] = "check ready" /\ w \in must => AffectsSince(w)
      BY <1>2, <1>4 DEF ReadKnows, WorkerKnows, Checking, AffectsSince, Loaded
    <3>4. WorkerKnows(w)'
      BY <3>1, <3>3, <1>2, <1>5, <1>6 DEF WorkerKnows, Captured, Checking, Reading, Written
    <3> QED BY <3>2, <3>4
  <2> QED BY <2>1, <2>2, <2>3, <2>4, <2>5, <2>6 DEF Read
<1> QED
  <2>1. UNCHANGED fence
    BY <1>5
  <2>2. /\ pc[w] \notin Writing /\ pc'[w] \notin Writing
        /\ \A u \in Thread \ {w} :
             pc'[u] = pc[u] /\ seen'[u] = seen[u] /\ read'[u] = read[u] /\ session'[u] = session[u]
    BY <1>2, <1>5, WorkerFrame
  <2>3. \A v \in Worker :
          /\ session'[v] = session[v] /\ (v # w => ticket'[v] = ticket[v])
          /\ pc[v] \in Captured => pc'[v] \in Captured /\ ticket'[v] = ticket[v]
          /\ v \in owed' => v \in owed \/ (pc[v] \in Captured /\ Stopped(v))
          /\ v \in owed => v \in owed'
          /\ v # w /\ v \in must' => v \in must
    <3>1. Worker \subseteq Thread
      BY DEF Thread
    <3> QED BY <3>1, <1>2, <1>5, WorkerFrame
  <2>4. \A r \in Requester \ {w} : covers'[r] = covers[r]
    BY <1>5
  <2> HIDE DEF fence
  <2> QED BY <2>1, <2>2, <2>3, <2>4, <1>1, <1>2, <1>8, Quiet

(* What a requester does while it does not hold the fence. *)
LEMMA SeekingIInv ==
  ASSUME IInv, NEW r \in Requester,
         \/ CallStop(r) \/ StopLoad(r) \/ StopThrough(r) \/ StopPhase(r) \/ Return(r)
         \/ StopBegin(r) /\ phase # seen[r]
         \/ StopEnd(r) /\ phase # seen[r] + 1
  PROVE  IInv'
<1> USE DEF At, Goto, fence, locals, history
<1>1. r \in Thread /\ r \notin Worker /\ Requester \subseteq Thread /\ Worker \subseteq Thread
  BY FenceAssumption DEF Thread
<1>2. /\ TypeOK /\ PhaseCounts /\ LogGrows /\ ReadKnows(r) /\ RequesterKnows(r) /\ CallCovers(r)
      /\ \A w \in Worker : WorkerKnows(w)
  BY <1>1 DEF IInv
<1>3. TypeOK'
  BY <1>2, RequesterTypes DEF RequestStop
<1>4. /\ pc \in [Thread -> Label] /\ seen \in [Thread -> 0 .. Maximum]
      /\ read \in [Thread -> Session \cup {0}] /\ session \in [Thread -> Session \cup {0}]
      /\ covers \in [Requester -> SUBSET Worker]
  BY <1>2 DEF TypeOK, Label
<1>5. /\ seen[r] \in Nat /\ read[r] \in Nat /\ session[r] \in Nat /\ through \in Nat
      /\ Len(log) \in Nat /\ Maximum \in Nat /\ phase \in Nat /\ phase <= Maximum
      /\ \A w \in Worker : session[w] \in Nat /\ ticket[w] \in Nat
  BY <1>1, <1>2, Numbers
<1>6. /\ UNCHANGED <<phase, through, log, ticket, must>>
      /\ pc[r] \in Writing => phase = Maximum
      /\ pc'[r] \notin Writing
      /\ \A u \in Thread \ {r} :
           pc'[u] = pc[u] /\ seen'[u] = seen[u] /\ read'[u] = read[u] /\ session'[u] = session[u]
      /\ \A q \in Requester \ {r} : covers'[q] = covers[q]
      /\ owed \subseteq owed' /\ owed' \subseteq owed \cup (IF pc[r] = "return" THEN covers[r] ELSE {})
  <2>1. CASE CallStop(r)
    BY <2>1, <1>1, <1>4 DEF CallStop, Writing
  <2>2. CASE StopLoad(r) \/ StopThrough(r) \/ StopPhase(r)
    BY <2>2, <1>1, <1>4 DEF StopLoad, StopThrough, StopPhase, Retry, Writing
  <2>3. CASE Return(r)
    BY <2>3, <1>1, <1>4 DEF Return, Writing
  <2>4. CASE StopBegin(r) /\ phase # seen[r]
    BY <2>4, <1>1, <1>4 DEF StopBegin, Retry, Writing
  <2>5. CASE StopEnd(r) /\ phase # seen[r] + 1
    <3>1. WriterAlone /\ pc[r] = "stop end"
      BY <2>5 DEF IInv, StopEnd
    <3>2. phase = Maximum
      BY <3>1, <2>5 DEF WriterAlone, Writing
    <3> QED BY <3>2, <2>5, <1>1, <1>4 DEF StopEnd, Writing
  <2> QED BY <2>1, <2>2, <2>3, <2>4, <2>5
<1>7. \A w \in Worker : Stopped(w)' <=> Stopped(w)
  BY <1>1, <1>6 DEF Stopped, Written
<1>8. phase # Maximum /\ phase % 2 # 1 =>
        /\ phase = 2 * Len(log) /\ phase < Maximum /\ phase \div 2 = Len(log)
        /\ through = Written(Len(log))
  BY <1>2, EvenPhase
<1>9. ReadKnows(r)' /\ RequesterKnows(r)' /\ CallCovers(r)'
  <2>1. CASE CallStop(r)
    <3>1. PICK s \in Session :
            /\ session' = [session EXCEPT ![r] = s]
            /\ covers' = [covers EXCEPT ![r] =
                 {w \in Worker : pc[w] \in {"queued", "check", "check through", "check phase"}
                                 /\ session[w] <= s}]
      BY <2>1 DEF CallStop
    <3>2. pc'[r] = "stop" /\ session'[r] = s /\ s # 0
      BY <2>1, <3>1, <1>1, <1>4, FenceAssumption DEF CallStop
    <3>3. ReadKnows(r)' /\ RequesterKnows(r)'
      BY <3>2 DEF ReadKnows, RequesterKnows, Loaded, Begun, Writing, Stopping
    <3>4. CallCovers(r)'
      BY ZenonT(60), <3>1, <3>2, <1>1, <1>4, <1>6 DEF CallCovers, Captured, Checking, Stopping
    <3> QED BY <3>3, <3>4
  <2>2. CASE StopLoad(r)
    <3>1. /\ pc[r] = "stop" /\ seen'[r] = phase /\ UNCHANGED <<read, session, covers>>
          /\ pc'[r] \in {"return", "stop", "close", "stop through"}
          /\ pc'[r] = "return" => phase = Maximum
          /\ pc'[r] = "stop through" => phase # Maximum /\ phase % 2 # 1
      BY <2>2, <1>1, <1>4 DEF StopLoad, Retry
    <3>2. ReadKnows(r)'
      <4>1. SUFFICES ASSUME pc'[r] \in Loaded
            PROVE  /\ seen'[r] < Maximum /\ seen'[r] = 2 * Revision(r)' /\ Revision(r)' <= Len(log)
                   /\ pc'[r] = "stop through"
        BY <3>1, <1>6 DEF ReadKnows, Loaded, Begun, Writing
      <4>2. pc'[r] = "stop through" /\ seen'[r] = phase /\ phase # Maximum /\ phase % 2 # 1
        BY <4>1, <3>1 DEF Loaded, Begun, Writing
      <4>3. Revision(r)' = phase \div 2
        BY <4>2 DEF Revision
      <4>4. phase = 2 * Len(log) /\ phase < Maximum /\ phase \div 2 = Len(log) /\ Len(log) \in Nat
        BY <4>2, <1>8, <1>5
      <4>5. Revision(r)' = Len(log) /\ seen'[r] = 2 * Len(log) /\ seen'[r] < Maximum
        <5>1. Revision(r)' = Len(log)
          BY <4>3, <4>4
        <5>2. seen'[r] = 2 * Len(log) /\ seen'[r] < Maximum
          <6>1. seen'[r] = phase
            BY <4>2
          <6> QED BY <6>1, <4>4
        <5> QED BY <5>1, <5>2
      <4>6. pc'[r] = "stop through"
        BY <4>2
      <4>7. seen'[r] = 2 * Revision(r)' /\ Revision(r)' <= Len(log)
        BY <4>4, <4>5
      <4> QED BY <4>5, <4>6, <4>7
    <3>3. RequesterKnows(r)'
      BY <3>1, <1>2 DEF RequesterKnows, Begun, Writing, Stopping
    <3>4. CallCovers(r)'
      <4>1. ASSUME NEW w \in covers[r]
            PROVE  /\ pc'[w] \in Captured /\ pc'[r] \in Stopping /\ session'[w] <= session'[r]
                   /\ pc'[r] = "return" => Stopped(w)'
        <5>1. w \in Worker /\ pc'[w] = pc[w]
          BY <1>1, <1>4, <1>6
        <5> QED BY <5>1, <3>1, <1>2, <1>6 DEF CallCovers, Stopping, Stopped
      <4> QED BY <4>1, <3>1 DEF CallCovers
    <3> QED BY <3>2, <3>3, <3>4
  <2>3. CASE StopThrough(r)
    <3>1. /\ pc[r] = "stop through" /\ pc'[r] = "stop phase" /\ read'[r] = through
          /\ UNCHANGED <<seen, session, covers>>
      BY <2>3, <1>1, <1>4 DEF StopThrough
    <3>2. seen[r] = 2 * Revision(r) /\ seen[r] < Maximum /\ Revision(r) <= Len(log)
      BY <3>1, <1>2 DEF ReadKnows, Loaded
    <3>3. phase = seen[r] => through = Written(Revision(r))
      <4>1. ASSUME phase = seen[r]
            PROVE  phase # Maximum /\ phase % 2 # 1
        BY <4>1, <3>2, <1>5 DEF Revision
      <4> QED BY <4>1, <1>8 DEF Revision
    <3>4. ReadKnows(r)'
      BY <3>1, <3>2, <3>3, <1>6 DEF ReadKnows, Loaded, Begun, Writing, Revision, Written
    <3>5. RequesterKnows(r)'
      BY <3>1, <1>2 DEF RequesterKnows, Begun, Writing, Stopping
    <3>6. CallCovers(r)'
      <4>1. ASSUME NEW w \in covers[r]
            PROVE  pc'[w] \in Captured /\ pc'[r] \in Stopping /\ session'[w] <= session'[r]
        <5>1. w \in Worker /\ pc'[w] = pc[w]
          BY <1>1, <1>4, <1>6
        <5> QED BY <5>1, <3>1, <1>2 DEF CallCovers, Stopping
      <4> QED BY <4>1, <3>1 DEF CallCovers
    <3> QED BY <3>4, <3>5, <3>6
  <2>4. CASE StopPhase(r)
    <3>1. /\ pc[r] = "stop phase" /\ UNCHANGED <<seen, read, session, covers>>
          /\ pc'[r] \in {"return", "stop", "close", "stop begin"}
          /\ pc'[r] = "return" => phase = seen[r] /\ session[r] < read[r]
          /\ pc'[r] = "stop begin" =>
               phase = seen[r] /\ ~(session[r] < read[r]) /\ ~(phase >= Maximum - 2)
      BY <2>4, <1>1, <1>4 DEF StopPhase, Retry
    <3>2. /\ seen[r] = 2 * Revision(r) /\ seen[r] < Maximum /\ Revision(r) <= Len(log)
          /\ phase = seen[r] => read[r] = Written(Revision(r))
      BY <3>1, <1>2 DEF ReadKnows, Loaded
    <3>3. phase = seen[r] => Revision(r) = Len(log)
      <4>1. ASSUME phase = seen[r]
            PROVE  phase # Maximum /\ phase % 2 # 1
        BY <4>1, <3>2, <1>5 DEF Revision
      <4> QED BY <4>1, <1>8 DEF Revision
    <3>4. ReadKnows(r)'
      BY <3>1, <3>2, <1>6 DEF ReadKnows, Loaded, Begun, Writing, Revision, Written
    <3>5. RequesterKnows(r)'
      <4>1. pc'[r] = "stop begin" => seen[r] + 2 < Maximum /\ session[r] >= read[r]
        <5>1. SUFFICES ASSUME pc'[r] = "stop begin"
              PROVE  seen[r] + 2 < Maximum /\ session[r] >= read[r]
          OBVIOUS
        <5>2. phase = seen[r] /\ ~(session[r] < read[r]) /\ ~(phase >= Maximum - 2)
          BY <5>1, <3>1
        <5>3. seen[r] \in Nat /\ read[r] \in Nat /\ session[r] \in Nat /\ Maximum \in Nat
          BY <1>5
        <5> QED BY <5>2, <5>3
      <4> QED BY <4>1, <3>1, <1>2 DEF RequesterKnows, Begun, Writing, Stopping
    <3>6. CallCovers(r)'
      <4>1. ASSUME NEW w \in covers[r]
            PROVE  /\ pc'[w] \in Captured /\ pc'[r] \in Stopping /\ session'[w] <= session'[r]
                   /\ pc'[r] = "return" => Stopped(w)
        <5>1. w \in Worker /\ pc'[w] = pc[w] /\ pc[w] \in Captured /\ session[w] <= session[r]
          BY <1>1, <1>2, <1>4, <1>6 DEF CallCovers
        <5>2. ticket[w] <= Len(log) /\ session[w] >= Written(ticket[w])
          BY <5>1, <1>2 DEF WorkerKnows
        <5>3. ASSUME pc'[r] = "return"
              PROVE  Stopped(w)
          <6>1. session[r] < Written(Len(log))
            BY <5>3, <3>1, <3>2, <3>3
          <6>2. ticket[w] \in 0 .. Len(log) /\ Len(log) \in 0 .. Len(log)
            BY <5>1, <5>2, <1>5
          <6>3. Written(ticket[w]) \in Nat /\ Written(Len(log)) \in Nat
            BY <6>2, <1>2, <1>5, WrittenGrows
          <6>4. session[w] < Written(Len(log)) /\ Written(ticket[w]) < Written(Len(log))
            BY <6>1, <6>3, <5>1, <5>2, <1>5
          <6> QED BY <6>3, <6>4, <5>1, <5>2, <1>5 DEF Stopped
        <5>4. pc'[r] \in Stopping
          BY <3>1 DEF Stopping, Begun
        <5>5. session'[w] = session[w] /\ session'[r] = session[r]
          BY <3>1
        <5> QED BY <5>1, <5>3, <5>4, <5>5
      <4> QED BY <4>1, <3>1, <1>4, <1>7 DEF CallCovers
    <3> QED BY <3>4, <3>5, <3>6
  <2>5. CASE Return(r)
    <3>1. pc'[r] = "idle" /\ covers'[r] = {}
      BY <2>5, <1>1, <1>4 DEF Return
    <3> QED BY <3>1 DEF ReadKnows, RequesterKnows, CallCovers, Loaded, Begun, Writing, Stopping
  <2>6. CASE \/ StopBegin(r) /\ phase # seen[r]
             \/ StopEnd(r) /\ phase # seen[r] + 1
    <3>1. /\ pc[r] \in {"stop begin", "stop end"} /\ pc'[r] \in {"stop", "close"}
          /\ UNCHANGED <<session, covers>>
      BY <2>6, <1>1, <1>4 DEF StopBegin, StopEnd, Retry
    <3>2. ReadKnows(r)' /\ RequesterKnows(r)'
      BY <3>1, <1>2 DEF ReadKnows, RequesterKnows, Loaded, Begun, Writing, Stopping
    <3>3. CallCovers(r)'
      <4>1. ASSUME NEW w \in covers[r]
            PROVE  pc'[w] \in Captured /\ pc'[r] \in Stopping /\ session'[w] <= session'[r]
        <5>1. w \in Worker /\ pc'[w] = pc[w]
          BY <1>1, <1>4, <1>6
        <5> QED BY <5>1, <3>1, <1>2 DEF CallCovers, Stopping
      <4> QED BY <4>1, <3>1 DEF CallCovers
    <3> QED BY <3>2, <3>3
  <2> QED BY <2>1, <2>2, <2>3, <2>4, <2>5, <2>6
<1> QED
  <2>1. UNCHANGED fence
    BY <1>6
  <2>2. \A w \in Worker :
          /\ session'[w] = session[w] /\ (w # r => ticket'[w] = ticket[w])
          /\ pc[w] \in Captured => pc'[w] \in Captured /\ ticket'[w] = ticket[w]
          /\ w \in owed' => w \in owed \/ (pc[w] \in Captured /\ Stopped(w))
          /\ w \in owed => w \in owed'
          /\ w # r /\ w \in must' => w \in must
    <3>1. \A w \in covers[r] : pc[r] = "return" => pc[w] \in Captured /\ Stopped(w)
      BY <1>2 DEF CallCovers
    <3> QED BY <3>1, <1>1, <1>6
  <2> HIDE DEF fence
  <2> QED BY <2>1, <2>2, <1>1, <1>3, <1>6, <1>9, Quiet

(* A requester takes the fence: whoever loaded its phase finds it changed. *)
LEMMA BeginIInv ==
  ASSUME IInv, NEW r \in Requester, StopBegin(r), phase = seen[r]
  PROVE  IInv'
<1>1. r \in Thread /\ r \notin Worker /\ Requester \subseteq Thread /\ Worker \subseteq Thread
  BY FenceAssumption DEF Thread
<1>2. /\ TypeOK /\ PhaseCounts /\ WriterAlone /\ LogGrows /\ ReadKnows(r) /\ RequesterKnows(r)
      /\ \A t \in Thread : ReadKnows(t)
      /\ \A q \in Requester : RequesterKnows(q) /\ CallCovers(q)
      /\ \A w \in Worker : WorkerKnows(w)
  BY <1>1 DEF IInv
<1>3. TypeOK'
  BY <1>2, RequesterTypes DEF RequestStop
<1>4. pc \in [Thread -> Label] /\ covers \in [Requester -> SUBSET Worker]
  BY <1>2 DEF TypeOK, Label
<1>5. /\ pc[r] = "stop begin" /\ phase' = phase + 1 /\ pc' = [pc EXCEPT ![r] = "stop write"]
      /\ UNCHANGED <<through, log, seen, read, session, ticket, covers, owed, must>>
  BY StopBegin(r) DEF StopBegin, At, Goto, history
<1>6. /\ pc'[r] = "stop write" /\ \A u \in Thread \ {r} : pc'[u] = pc[u]
  BY <1>1, <1>4, <1>5
<1>7. /\ Len(log) \in Nat /\ phase \in Nat /\ Maximum \in Nat
      /\ seen[r] \in Nat /\ session[r] \in Nat /\ read[r] \in Nat
  BY <1>1, <1>2, Numbers
<1>8. /\ seen[r] = 2 * Revision(r) /\ seen[r] < Maximum /\ Revision(r) <= Len(log)
      /\ read[r] = Written(Revision(r)) /\ session[r] >= read[r] /\ seen[r] + 2 < Maximum
  BY <1>2, <1>5 DEF ReadKnows, RequesterKnows, Loaded, Begun
<1>9. /\ phase = 2 * Len(log) /\ phase # Maximum /\ Revision(r) = Len(log)
      /\ through = Written(Len(log)) /\ \A q \in Requester : pc[q] \notin Writing
  <2>1. phase # Maximum /\ phase % 2 # 1
    BY <1>7, <1>8 DEF Revision
  <2>2. /\ phase = 2 * Len(log) /\ phase \div 2 = Len(log)
        /\ through = Written(Len(log)) /\ \A q \in Requester : pc[q] \notin Writing
    BY <2>1, <1>2, EvenPhase
  <2>3. Revision(r) = phase \div 2
    BY DEF Revision
  <2> QED BY <2>1, <2>2, <2>3
<1>10. PhaseCounts'
  BY <1>5, <1>9 DEF PhaseCounts
<1>11. WriterAlone'
  <2>1. session[r] >= Written(Len(log))
    BY <1>8, <1>9
  <2>2. seen[r] = 2 * Len(log) /\ phase' = seen[r] + 1
    BY <1>5, <1>9
  <2>3. \A q \in Requester : pc'[q] \in Writing => q = r
    BY <1>1, <1>6, <1>9
  <2>4. seen' = seen /\ session' = session /\ log' = log /\ through' = through
        /\ Written(Len(log))' = Written(Len(log))
    BY <1>5 DEF Written
  <2> QED BY <2>1, <2>2, <2>3, <2>4, <1>6, <1>9 DEF WriterAlone
<1>12. LogGrows'
  BY <1>2, <1>5 DEF LogGrows
<1>13. ASSUME NEW t \in Thread
       PROVE  ReadKnows(t)'
  <2>1. CASE t = r
    BY <2>1, <1>5, <1>6, <1>8 DEF ReadKnows, Revision
  <2>2. CASE t # r
    <3>1. pc'[t] = pc[t] /\ seen'[t] = seen[t] /\ read'[t] = read[t] /\ ReadKnows(t)
          /\ Revision(t)' = Revision(t) /\ log' = log /\ Written(Revision(t))' = Written(Revision(t))
      BY <2>2, <1>2, <1>5, <1>6 DEF Written, Revision
    <3>2. pc[t] \in Loaded => phase' # seen[t]
      <4>1. SUFFICES ASSUME pc[t] \in Loaded
            PROVE  phase' # seen[t]
        OBVIOUS
      <4>2. seen[t] = 2 * Revision(t) /\ Revision(t) \in Nat
        <5>1. seen[t] \in Nat
          BY <1>2, Numbers
        <5>2. Revision(t) \in Nat
          BY <5>1 DEF Revision
        <5> QED BY <4>1, <3>1, <5>2 DEF ReadKnows
      <4>3. phase' = 2 * Len(log) + 1
        BY <1>5, <1>9
      <4> QED BY <4>2, <4>3, <1>7
    <3> QED BY <3>1, <3>2 DEF ReadKnows, Loaded, Begun, Writing
  <2> QED BY <2>1, <2>2
<1>14. \A w \in Worker : Stopped(w) => Stopped(w)'
  BY <1>5, <1>9 DEF Stopped, Written
<1>15. ASSUME NEW q \in Requester
       PROVE  RequesterKnows(q)' /\ CallCovers(q)'
  <2>1. RequesterKnows(q)'
    <3>1. CASE q = r
      BY <3>1, <1>2, <1>5, <1>6, <1>8 DEF RequesterKnows, Begun, Writing, Stopping
    <3>2. CASE q # r
      BY <3>2, <1>1, <1>2, <1>5, <1>6 DEF RequesterKnows
    <3> QED BY <3>1, <3>2
  <2>2. CallCovers(q)'
    <3>1. covers[q] \subseteq Worker
      BY <1>4
    <3>2. pc'[q] = "return" => pc[q] = "return"
      BY <1>1, <1>6
    <3>3. pc[q] \in Stopping => pc'[q] \in Stopping
      BY <1>1, <1>6 DEF Stopping, Begun, Writing
    <3>4. \A w \in covers[q] : pc'[w] = pc[w] /\ w \in Worker
      BY <1>1, <1>6, <3>1
    <3> QED BY <3>2, <3>3, <3>4, <1>2, <1>5, <1>14 DEF CallCovers
  <2> QED BY <2>1, <2>2
<1>16. ASSUME NEW w \in Worker
       PROVE  WorkerKnows(w)'
  BY <1>1, <1>2, <1>5, <1>6, <1>14 DEF WorkerKnows, Written, Revision
<1> QED BY <1>3, <1>10, <1>11, <1>12, <1>13, <1>15, <1>16 DEF IInv

(* The holder writes its session, which nobody reads as valid yet. *)
LEMMA WriteIInv ==
  ASSUME IInv, NEW r \in Requester, StopWrite(r)
  PROVE  IInv' /\ through' >= through
<1>1. r \in Thread /\ r \notin Worker /\ Requester \subseteq Thread /\ Worker \subseteq Thread
  BY FenceAssumption DEF Thread
<1>2. /\ TypeOK /\ PhaseCounts /\ WriterAlone /\ LogGrows /\ ReadKnows(r) /\ RequesterKnows(r)
      /\ \A t \in Thread : ReadKnows(t)
      /\ \A q \in Requester : RequesterKnows(q) /\ CallCovers(q)
      /\ \A w \in Worker : WorkerKnows(w)
  BY <1>1 DEF IInv
<1>3. TypeOK'
  BY <1>2, RequesterTypes DEF RequestStop
<1>4. pc \in [Thread -> Label] /\ covers \in [Requester -> SUBSET Worker]
  BY <1>2 DEF TypeOK, Label
<1>5. /\ pc[r] = "stop write" /\ through' = session[r] /\ pc' = [pc EXCEPT ![r] = "stop end"]
      /\ UNCHANGED <<phase, log, seen, read, session, ticket, covers, owed, must>>
  BY StopWrite(r) DEF StopWrite, At, Goto, history, locals
<1>6. /\ pc'[r] = "stop end" /\ \A u \in Thread \ {r} : pc'[u] = pc[u]
  BY <1>1, <1>4, <1>5
<1>7. /\ seen[r] = 2 * Len(log) /\ phase \in {Maximum, seen[r] + 1}
      /\ \A q \in Requester : pc[q] \in Writing => q = r
      /\ session[r] >= Written(Len(log)) /\ through = Written(Len(log))
  BY <1>2, <1>5 DEF WriterAlone, Writing
<1>8. \A i : Written(i)' = Written(i)
  BY <1>5 DEF Written
<1>9. PhaseCounts'
  BY <1>5, <1>7 DEF PhaseCounts
<1>10. WriterAlone'
  <2>1. \A q \in Requester : pc'[q] \in Writing => q = r
    BY <1>1, <1>6, <1>7
  <2>2. Written(Len(log))' = Written(Len(log))
    BY <1>5 DEF Written
  <2> QED BY <2>1, <2>2, <1>5, <1>6, <1>7 DEF WriterAlone
<1>11. LogGrows'
  BY <1>2, <1>5 DEF LogGrows
<1>12. ASSUME NEW t \in Thread
       PROVE  ReadKnows(t)'
  BY <1>2, <1>5, <1>6 DEF ReadKnows, Written, Revision, Loaded, Begun, Writing
<1>13. ASSUME NEW q \in Requester
       PROVE  RequesterKnows(q)' /\ CallCovers(q)'
  <2>1. RequesterKnows(q)'
    BY <1>1, <1>2, <1>5, <1>6 DEF RequesterKnows, Begun, Writing, Stopping
  <2>2. covers[q] \subseteq Worker
    BY <1>4
  <2>3. \A w \in Worker : Stopped(w)' <=> Stopped(w)
    BY <1>5 DEF Stopped, Written
  <2>4. CallCovers(q)'
    BY <2>2, <2>3, <1>1, <1>2, <1>5, <1>6 DEF CallCovers, Stopping, Begun, Writing
  <2> QED BY <2>1, <2>4
<1>14. ASSUME NEW w \in Worker
       PROVE  WorkerKnows(w)'
  BY <1>1, <1>2, <1>5, <1>6 DEF WorkerKnows, Stopped, Written, Revision
<1> QED BY <1>3, <1>5, <1>7, <1>9, <1>10, <1>11, <1>12, <1>13, <1>14 DEF IInv

(* A revision is appended. *)
LEMMA Appended ==
  ASSUME NEW S, NEW s \in Seq(S), NEW e \in S
  PROVE  /\ Len(Append(s, e)) = Len(s) + 1 /\ Append(s, e)[Len(s) + 1] = e
         /\ \A i \in 1 .. Len(s) : Append(s, e)[i] = s[i]
  OBVIOUS

(* The holder publishes the revision: every stop it covers is in the log.  *)
LEMMA EndIInv ==
  ASSUME IInv, NEW r \in Requester, StopEnd(r), phase = seen[r] + 1
  PROVE  IInv'
<1>1. r \in Thread /\ r \notin Worker /\ Requester \subseteq Thread /\ Worker \subseteq Thread
  BY FenceAssumption DEF Thread
<1>2. /\ TypeOK /\ PhaseCounts /\ WriterAlone /\ LogGrows /\ ReadKnows(r) /\ RequesterKnows(r)
      /\ \A t \in Thread : ReadKnows(t)
      /\ \A q \in Requester : RequesterKnows(q) /\ CallCovers(q)
      /\ \A w \in Worker : WorkerKnows(w)
  BY <1>1 DEF IInv
<1>3. TypeOK'
  BY <1>2, RequesterTypes DEF RequestStop
<1>4. /\ pc \in [Thread -> Label] /\ covers \in [Requester -> SUBSET Worker] /\ log \in Seq(Session)
      /\ session[r] \in Session \cup {0}
  BY <1>1, <1>2 DEF TypeOK, Label
<1>5. /\ pc[r] = "stop end" /\ phase' = seen[r] + 2 /\ pc' = [pc EXCEPT ![r] = "return"]
      /\ log' = Append(log, session[r])
      /\ UNCHANGED <<through, seen, read, session, ticket, covers, owed, must>>
  BY StopEnd(r), phase = seen[r] + 1 DEF StopEnd, At, Goto, history, locals
<1>6. /\ pc'[r] = "return" /\ \A u \in Thread \ {r} : pc'[u] = pc[u]
  BY <1>1, <1>4, <1>5
<1>7. /\ seen[r] = 2 * Len(log) /\ phase = seen[r] + 1
      /\ \A q \in Requester : pc[q] \in Writing => q = r
      /\ session[r] >= Written(Len(log)) /\ through = session[r] /\ session[r] # 0
      /\ seen[r] + 2 < Maximum
  BY <1>2, <1>5 DEF WriterAlone, RequesterKnows, Writing, Begun, Stopping
<1>8. /\ Len(log) \in Nat /\ Maximum \in Nat /\ session[r] \in Nat
      /\ \A i \in 1 .. Len(log) : log[i] \in Nat
      /\ \A w \in Worker : session[w] \in Nat /\ ticket[w] \in Nat
      /\ \A t \in Thread : seen[t] \in Nat
  BY <1>1, <1>2, Numbers
<1>a. Len(log) \in Nat /\ Maximum \in Nat /\ seen[r] \in Nat
  BY <1>1, <1>8
<1>9. /\ Len(log') = Len(log) + 1 /\ log'[Len(log) + 1] = session[r]
      /\ \A i \in 1 .. Len(log) : log'[i] = log[i]
  <2>1. session[r] \in Session
    BY <1>4, <1>7
  <2>2. log' = Append(log, session[r]) /\ log \in Seq(Session)
    BY <1>4, <1>5
  <2> QED BY <2>1, <2>2, Appended
<1>10. /\ Written(Len(log))' = session[r]
       /\ \A i \in 0 .. Len(log) : Written(i)' = Written(i)
  BY <1>8, <1>9 DEF Written
<1>11. phase' = 2 * Len(log') /\ phase' # Maximum /\ phase # Maximum
  <2>1. phase' = 2 * Len(log) + 2 /\ phase' < Maximum /\ phase < Maximum
    <3>1. seen[r] = 2 * Len(log) /\ phase = seen[r] + 1 /\ seen[r] + 2 < Maximum
      BY <1>7
    <3>2. phase' = seen[r] + 2
      BY <1>5
    <3> QED BY <3>1, <3>2, <1>a
  <2>2. 2 * Len(log') = 2 * Len(log) + 2
    BY <1>8, <1>9
  <2> QED BY <2>1, <2>2, <1>8
<1>12. \A q \in Requester : pc'[q] \notin Writing
  BY <1>1, <1>6, <1>7 DEF Writing
<1>13. PhaseCounts' /\ WriterAlone'
  BY <1>5, <1>7, <1>10, <1>11, <1>12 DEF PhaseCounts, WriterAlone
<1>14. LogGrows'
  <2>1. ASSUME NEW i \in 1 .. Len(log'), NEW j \in 1 .. Len(log'), i <= j
        PROVE  log'[i] <= log'[j]
    <3>1. CASE j \in 1 .. Len(log)
      BY <3>1, <2>1, <1>2, <1>8, <1>9 DEF LogGrows
    <3>2. CASE i \in 1 .. Len(log) /\ j = Len(log) + 1
      <4>1. log[i] <= log[Len(log)] /\ log[i] \in Nat /\ log[Len(log)] \in Nat
        BY <3>2, <1>2, <1>8 DEF LogGrows
      <4>2. log[Len(log)] <= session[r]
        BY <3>2, <1>7, <1>8 DEF Written
      <4> QED BY <4>1, <4>2, <3>2, <1>8, <1>9
    <3>3. CASE i = Len(log) + 1 /\ j = Len(log) + 1
      BY <3>3, <1>8, <1>9
    <3> QED BY <3>1, <3>2, <3>3, <2>1, <1>8, <1>9
  <2> QED BY <2>1 DEF LogGrows
<1>15. ASSUME NEW t \in Thread
       PROVE  ReadKnows(t)'
  <2>1. CASE t = r
    BY <2>1, <1>6 DEF ReadKnows, Loaded, Begun, Writing
  <2>2. CASE t # r
    <3>1. pc'[t] = pc[t] /\ seen'[t] = seen[t] /\ read'[t] = read[t] /\ ReadKnows(t)
          /\ Revision(t)' = Revision(t) /\ Revision(t) \in Nat
      <4>1. pc'[t] = pc[t] /\ seen' = seen /\ read' = read /\ ReadKnows(t)
        BY <2>2, <1>2, <1>5, <1>6
      <4>2. seen[t] \in Nat
        BY <1>8
      <4> QED BY <4>1, <4>2 DEF Revision
    <3>2. pc[t] \in Loaded => Written(Revision(t))' = Written(Revision(t))
      <4>1. pc[t] \in Loaded => Revision(t) \in 0 .. Len(log)
        <5>1. pc[t] \in Loaded => Revision(t) <= Len(log)
          BY <3>1 DEF ReadKnows
        <5> QED BY <5>1, <3>1, <1>a
      <4>2. ASSUME Revision(t) \in 1 .. Len(log)
            PROVE  log'[Revision(t)] = log[Revision(t)]
        BY <4>2, <1>9
      <4> QED BY <4>1, <4>2, <3>1, <1>8 DEF Written
    <3>3. pc[t] \in Loaded => phase' # seen[t]
      <4>1. SUFFICES ASSUME pc[t] \in Loaded
            PROVE  phase' # seen[t]
        OBVIOUS
      <4>2. seen[t] = 2 * Revision(t) /\ Revision(t) <= Len(log)
        BY <4>1, <3>1 DEF ReadKnows
      <4>3. phase' = 2 * Len(log) + 2
        BY <1>5, <1>7
      <4> QED BY <4>2, <4>3, <3>1, <1>8
    <3>4. Revision(t) <= Len(log) => Revision(t) <= Len(log')
      BY <3>1, <1>8, <1>9
    <3> QED BY <3>1, <3>2, <3>3, <3>4 DEF ReadKnows, Loaded, Begun, Writing
  <2> QED BY <2>1, <2>2
<1>16. ASSUME NEW w \in Worker, pc[w] \in Captured
       PROVE  /\ Stopped(w) => Stopped(w)'
              /\ session[w] <= session[r] => Stopped(w)'
  <2>1. ticket[w] <= Len(log) /\ ticket'[w] = ticket[w] /\ session'[w] = session[w]
    BY <1>2, <1>5, <1>16 DEF WorkerKnows
  <2>2. ticket'[w] < Len(log')
    BY <2>1, <1>8, <1>9
  <2>3. Written(Len(log)) \in Nat
    BY <1>2, <1>8, WrittenGrows
  <2>4. Stopped(w) => session[w] <= session[r]
    BY <2>3, <1>7, <1>8, <1>11 DEF Stopped
  <2> QED BY <2>1, <2>2, <2>4, <1>10 DEF Stopped
<1>17. ASSUME NEW q \in Requester
       PROVE  RequesterKnows(q)' /\ CallCovers(q)'
  <2>1. RequesterKnows(q)'
    BY <1>1, <1>2, <1>5, <1>6, <1>7 DEF RequesterKnows, Begun, Writing, Stopping
  <2>2. ASSUME NEW w \in covers[q]
        PROVE  /\ pc'[w] \in Captured /\ pc'[q] \in Stopping /\ session'[w] <= session'[q]
               /\ pc'[q] = "return" => Stopped(w)'
    <3>1. w \in Worker /\ pc'[w] = pc[w] /\ pc[w] \in Captured /\ pc[q] \in Stopping
          /\ session[w] <= session[q]
      BY <1>1, <1>2, <1>4, <1>6 DEF CallCovers
    <3>2. pc'[q] \in Stopping
      BY <3>1, <1>1, <1>6 DEF Stopping
    <3>3. pc'[q] = "return" => Stopped(w)'
      <4>1. CASE q = r
        BY <4>1, <3>1, <1>16
      <4>2. CASE q # r
        BY <4>2, <3>1, <1>1, <1>2, <1>6, <1>16 DEF CallCovers
      <4> QED BY <4>1, <4>2
    <3> QED BY <3>1, <3>2, <3>3, <1>5
  <2>3. CallCovers(q)'
    BY <2>2, <1>5 DEF CallCovers
  <2> QED BY <2>1, <2>3
<1>18. ASSUME NEW w \in Worker
       PROVE  WorkerKnows(w)'
  <2>1. /\ pc'[w] = pc[w] /\ ticket'[w] = ticket[w] /\ session'[w] = session[w]
        /\ Revision(w)' = Revision(w) /\ Revision(w) \in Nat /\ must' = must /\ owed' = owed
        /\ WorkerKnows(w) /\ ReadKnows(w) /\ ticket[w] \in Nat
    <3>1. pc'[w] = pc[w] /\ seen' = seen /\ w \in Thread
      BY <1>1, <1>5, <1>6
    <3>2. seen[w] \in Nat
      BY <3>1, <1>8
    <3>3. Revision(w)' = Revision(w) /\ Revision(w) \in Nat
      BY <3>1, <3>2 DEF Revision
    <3> QED BY <3>1, <3>3, <1>2, <1>5, <1>8
  <2>2. pc[w] \in Captured =>
          ticket[w] <= Len(log') /\ Written(ticket[w])' = Written(ticket[w])
    <3>1. pc[w] \in Captured => ticket[w] \in 0 .. Len(log)
      BY <2>1, <1>8 DEF WorkerKnows
    <3>2. ASSUME ticket[w] \in 1 .. Len(log)
          PROVE  log'[ticket[w]] = log[ticket[w]]
      BY <3>2, <1>9
    <3> QED BY <3>1, <3>2, <2>1, <1>8, <1>9 DEF Written
  <2>3. pc[w] \in Checking => Written(Revision(w))' = Written(Revision(w))
    <3>1. pc[w] \in Checking => Revision(w) \in 0 .. Len(log)
      <4>1. pc[w] \in Checking => Revision(w) <= Len(log)
        BY <2>1 DEF ReadKnows, Loaded, Checking
      <4> QED BY <4>1, <2>1, <1>a
    <3>2. ASSUME Revision(w) \in 1 .. Len(log)
          PROVE  log'[Revision(w)] = log[Revision(w)]
      BY <3>2, <1>9
    <3> QED BY <3>1, <3>2, <2>1, <1>8 DEF Written
  <2> QED BY <2>1, <2>2, <2>3, <1>16 DEF WorkerKnows, Written
<1> QED BY <1>3, <1>13, <1>14, <1>15, <1>17, <1>18 DEF IInv

(* A closed fence stops all work. *)
LEMMA CloseIInv ==
  ASSUME IInv, NEW r \in Requester, Close(r)
  PROVE  IInv'
<1>1. r \in Thread /\ r \notin Worker /\ Requester \subseteq Thread /\ Worker \subseteq Thread
  BY FenceAssumption DEF Thread
<1>2. /\ TypeOK /\ PhaseCounts /\ WriterAlone /\ LogGrows
      /\ \A t \in Thread : ReadKnows(t)
      /\ \A q \in Requester : RequesterKnows(q) /\ CallCovers(q)
      /\ \A w \in Worker : WorkerKnows(w)
  BY <1>1 DEF IInv
<1>3. TypeOK'
  BY <1>2, RequesterTypes DEF RequestStop
<1>4. pc \in [Thread -> Label] /\ covers \in [Requester -> SUBSET Worker]
  BY <1>2 DEF TypeOK, Label
<1>5. /\ pc[r] = "close" /\ phase' = Maximum /\ pc' = [pc EXCEPT ![r] = "return"]
      /\ UNCHANGED <<through, log, seen, read, session, ticket, covers, owed, must>>
  BY Close(r) DEF Close, At, Goto, history, locals
<1>6. /\ pc'[r] = "return" /\ \A u \in Thread \ {r} : pc'[u] = pc[u]
  BY <1>1, <1>4, <1>5
<1>7. Written(Len(log))' = Written(Len(log))
  BY <1>5 DEF Written
<1>8. PhaseCounts'
  BY <1>5 DEF PhaseCounts
<1>9. WriterAlone'
  <2>1. \A q \in Requester : pc'[q] \in Writing => q # r /\ pc'[q] = pc[q]
    BY <1>1, <1>6 DEF Writing
  <2> QED BY <2>1, <1>2, <1>5, <1>7 DEF WriterAlone
<1>10. LogGrows'
  BY <1>2, <1>5 DEF LogGrows
<1>11. ASSUME NEW t \in Thread
       PROVE  ReadKnows(t)'
  <2>1. seen'[t] < Maximum => phase' # seen'[t]
    <3>1. seen[t] \in Nat /\ Maximum \in Nat
      BY <1>2, Numbers
    <3> QED BY <3>1, <1>5
  <2> QED BY <2>1, <1>2, <1>5, <1>6 DEF ReadKnows, Written, Revision, Loaded, Begun, Writing
<1>12. \A w \in Worker : Stopped(w)'
  BY <1>5 DEF Stopped
<1>13. ASSUME NEW q \in Requester
       PROVE  RequesterKnows(q)' /\ CallCovers(q)'
  <2>1. RequesterKnows(q)'
    BY <1>1, <1>2, <1>5, <1>6 DEF RequesterKnows, Begun, Writing, Stopping
  <2>2. covers[q] \subseteq Worker
    BY <1>4
  <2>3. CallCovers(q)'
    BY <2>2, <1>12, <1>1, <1>2, <1>5, <1>6 DEF CallCovers, Stopping, Begun, Writing
  <2> QED BY <2>1, <2>3
<1>14. ASSUME NEW w \in Worker
       PROVE  WorkerKnows(w)'
  BY <1>1, <1>2, <1>5, <1>6, <1>12 DEF WorkerKnows, Written, Revision
<1> QED BY <1>3, <1>8, <1>9, <1>10, <1>11, <1>13, <1>14 DEF IInv

-----------------------------------------------------------------------------
(* Every step keeps it. *)
LEMMA StepIInv ==
  ASSUME IInv, [Next]_vars
  PROVE  IInv'
<1>1. CASE UNCHANGED vars
  <2>1. UNCHANGED <<phase, through, log, pc, try, seen, read, session, ticket, calls,
                    covers, owed, must>>
    BY <1>1 DEF vars, fence, locals, history
  <2>2. TypeOK' /\ PhaseCounts' /\ WriterAlone' /\ LogGrows'
    BY <2>1 DEF IInv, TypeOK, PhaseCounts, WriterAlone, LogGrows, Written
  <2>3. \A t \in Thread : ReadKnows(t)'
    BY <2>1 DEF IInv, ReadKnows, Written, Revision
  <2>4. \A r \in Requester : RequesterKnows(r)' /\ CallCovers(r)'
    BY <2>1 DEF IInv, RequesterKnows, CallCovers, Stopped, Written
  <2>5. \A w \in Worker : WorkerKnows(w)'
    BY <2>1 DEF IInv, WorkerKnows, Stopped, Written, Revision
  <2> QED BY <2>2, <2>3, <2>4, <2>5 DEF IInv
<1>2. ASSUME NEW w \in Worker, Read(w) \/ Check(w) \/ Act(w)
      PROVE  IInv'
  BY <1>2, WorkerIInv
<1>3. ASSUME NEW r \in Requester, RequestStop(r)
      PROVE  IInv'
  <2>1. CASE \/ CallStop(r) \/ StopLoad(r) \/ StopThrough(r) \/ StopPhase(r) \/ Return(r)
             \/ StopBegin(r) /\ phase # seen[r]
             \/ StopEnd(r) /\ phase # seen[r] + 1
    BY <2>1, SeekingIInv
  <2>2. CASE StopBegin(r) /\ phase = seen[r]
    BY <2>2, BeginIInv
  <2>3. CASE StopWrite(r)
    BY <2>3, WriteIInv
  <2>4. CASE StopEnd(r) /\ phase = seen[r] + 1
    BY <2>4, EndIInv
  <2>5. CASE Close(r)
    BY <2>5, CloseIInv
  <2> QED BY <1>3, <2>1, <2>2, <2>3, <2>4, <2>5 DEF RequestStop
<1> QED BY <1>1, <1>2, <1>3 DEF Next

(* It holds of every state that is reached. *)
LEMMA Invariant == Spec => []IInv
  BY InitIInv, StepIInv, PTL DEF Spec

(* The types of the state: the phase never passes its maximum, however the *)
(* attempts of RequestStop interleave.                                     *)
THEOREM TypesKept == Spec => []TypeOK
<1>1. IInv => TypeOK
  BY DEF IInv
<1> QED BY <1>1, Invariant, PTL

(* A snapshot that Read calls Ready is the session of its revision.        *)
THEOREM ConsistentSnapshots == Spec => []ReadyIsConsistent
<1>1. IInv => ReadyIsConsistent
  <2>1. SUFFICES ASSUME IInv, NEW w \in Worker, pc[w] \in {"queue ready", "check ready"}
        PROVE  /\ Revision(w) <= Len(log)
               /\ read[w] = IF Revision(w) = 0 THEN 0 ELSE log[Revision(w)]
    BY DEF ReadyIsConsistent
  <2>2. ReadKnows(w)
    BY <2>1 DEF IInv, Thread
  <2> QED BY <2>1, <2>2 DEF ReadKnows, Loaded, Written
<1> QED BY <1>1, Invariant, PTL

(* Work does not act on a check that began after a RequestStop for it has  *)
(* returned.                                                               *)
THEOREM StopsFound == Spec => []NoStopIsMissed
<1>1. IInv => NoStopIsMissed
  BY DEF IInv, NoStopIsMissed, WorkerKnows, At
<1> QED BY <1>1, Invariant, PTL

(* The session through which work is cancelled never goes back.            *)
THEOREM ThroughForward == Spec => ThroughAdvances
<1>1. IInv /\ [Next]_vars => [through' >= through]_through
  <2>1. SUFFICES ASSUME IInv, [Next]_vars, through' # through
        PROVE  through' >= through
    OBVIOUS
  <2>2. PICK r \in Requester : StopWrite(r)
    BY <2>1 DEF Next, vars, fence, locals, history, RequestStop, CallStop, StopLoad, StopThrough,
       StopPhase, StopBegin, StopEnd, Close, Return, Read, CallRead, ReadLoad, ReadThrough,
       ReadPhase, Queue, Check, Act
  <2> QED BY <2>1, <2>2, WriteIInv
<1> QED BY <1>1, Invariant, PTL DEF Spec, ThroughAdvances

(* Once closed, the fence stays closed: the compare-exchange of a writer   *)
(* that is still on its way fails.                                         *)
THEOREM ClosedForever == Spec => ClosedStaysClosed
<1>1. IInv /\ [Next]_vars => [phase = Maximum => phase' = Maximum]_phase
  <2>1. SUFFICES ASSUME IInv, [Next]_vars, phase = Maximum, phase' # phase
        PROVE  phase' = Maximum
    OBVIOUS
  <2>2. PICK r \in Requester : StopBegin(r) \/ StopEnd(r) \/ Close(r)
    BY <2>1 DEF Next, vars, fence, locals, history, RequestStop, CallStop, StopLoad, StopThrough,
       StopPhase, StopWrite, Return, Read, CallRead, ReadLoad, ReadThrough, ReadPhase, Queue,
       Check, Act
  <2>3. r \in Thread /\ seen[r] \in Nat /\ Maximum \in Nat
    BY <2>1, Numbers DEF IInv, Thread
  <2>4. RequesterKnows(r)
    BY <2>1 DEF IInv
  <2>5. pc[r] \in Begun => seen[r] + 2 < Maximum
    BY <2>4 DEF RequesterKnows
  <2>6. CASE StopBegin(r)
    <3>1. pc[r] = "stop begin" /\ phase = seen[r]
      BY <2>1, <2>6 DEF StopBegin, At
    <3>2. seen[r] + 2 < Maximum
      BY <3>1, <2>5 DEF Begun
    <3>3. phase = seen[r]
      BY <3>1
    <3>4. phase < Maximum
      BY <3>2, <3>3, <2>3
    <3> QED BY <3>4, <2>1, <2>3
  <2>7. CASE StopEnd(r)
    <3>1. pc[r] = "stop end" /\ phase = seen[r] + 1
      BY <2>1, <2>7 DEF StopEnd, At
    <3>2. seen[r] + 2 < Maximum
      BY <3>1, <2>5 DEF Begun, Writing
    <3>3. phase = seen[r] + 1
      BY <3>1
    <3>4. phase < Maximum
      BY <3>2, <3>3, <2>3
    <3> QED BY <3>4, <2>1, <2>3
  <2>8. CASE Close(r)
    BY <2>8 DEF Close
  <2> QED BY <2>2, <2>6, <2>7, <2>8
<1> QED BY <1>1, Invariant, PTL DEF Spec, ClosedStaysClosed

(* No step of a writer, however late, lets cancelled work through.         *)
THEOREM OnlyTightens == Spec => FenceOnlyTightens
  BY ThroughForward, ClosedForever DEF FenceOnlyTightens

-----------------------------------------------------------------------------
(* The controlled stop of RESET and the emergency stop mailbox.            *)

(* The counter of publishers is the number of callers between their begin  *)
(* and their end, and RT if it is between its own.                         *)
Publishes(t) == call[t] \in {"ticket", "stop", "post", "take", "end"}
Publishing == {t \in Reset!Caller : Publishes(t)}
PublishersAreCounted ==
  /\ IsFiniteSet(Publishing)
  /\ publishers = Cardinality(Publishing)
                    + (IF rt \in Reset!Pressing \cup Reset!Triggering THEN 1 ELSE 0)

(* Tickets only grow, and RT acknowledges and works for none that is not   *)
(* published.                                                              *)
TicketsAreOrdered == acked <= word.ticket /\ own <= word.ticket

(* While RT works off the mailboxes its recovery keeps SAFETY in place.    *)
ApplyIsFenced ==
  /\ rt \in Reset!Applying => recovering
  /\ rt = "apply take" => word.ticket # acked
  /\ rt \in Reset!Applying \ {"apply ticket", "apply take"} => word.safety

(* The ticket RT is about to complete is not that of a caller which has    *)
(* not left its request yet.                                               *)
Posted == \A t \in Reset!Caller : call[t] \notin {"post", "stop"}
CompletedIsPosted ==
  /\ (rt = "own action" \/ rt \in Reset!Applying \ {"apply ticket", "apply take", "apply guard"}) =>
       (word.ticket = own => Posted)

(* A press that is in progress or complete and was interrupted has the     *)
(* request still before it, or an alarm.                                   *)
Underway ==
  \/ Reset!MailPending \/ rt \in {"apply discard", "trigger alarm"} \/ alarm # "none"
InterruptionIsUnderway ==
  interrupted /\ resetPhase \notin {"IDLE", "SUPERSEDED"} => ~Posted \/ Underway
PollsKnow ==
  /\ nc \in Reset!Polling => resetPhase \notin {"PENDING", "APPLYING", "ACTIVE"}
  /\ resetPhase = "COMPLETED" /\ ~clean =>
       /\ nc = "poll publishers" => ~Posted \/ Underway
       /\ nc \in {"poll word", "poll mail"} => Underway
       /\ nc = "consume" => alarm = "raised"
(* A lost mapping has superseded the press and raises its alarm.           *)
TriggerIsKnown ==
  /\ rt \in Reset!Triggering \cup {"trigger begin"} =>
       resetPhase \in {"IDLE", "PENDING", "SUPERSEDED"}
  /\ rt \in Reset!Triggering \ {"trigger ticket", "trigger alarm"} => alarm # "none"

(* Where evidence can be. *)
MailIsWhole ==
  /\ mailbox.evidence => mailbox.pending
  /\ claimed.evidence => claimed.pending
  /\ claimed.evidence =>
       rt \in {"apply discard", "apply contain", "trigger contain", "trigger finalize"}
  /\ claimed.evidence /\ rt \in {"trigger contain", "trigger finalize"} =>
       mailbox.evidence /\ mailbox.epoch = claimed.epoch
  /\ rt = "trigger claim" \/ (claimed.evidence /\ rt = "trigger contain") => authority
  /\ rt = "trigger store" => due = {} /\ mailbox.pending /\ mailbox.evidence
(* Evidence owed is of an epoch that was not recorded since.               *)
Capturing == Reset!Triggering \ {"trigger ticket"}
EpochsAreOrdered ==
  /\ 0 < epoch /\ evidence.from < epoch
  /\ mailbox.epoch <= epoch /\ claimed.epoch <= epoch
  /\ \A t \in Reset!Caller : causal[t] <= epoch
  /\ rt \in Capturing => own_generation # 0 /\ own_generation <= epoch
OwedIsNew ==
  /\ 0 \notin due /\ evidence.from \notin due
  /\ rt \in {"trigger alarm", "trigger take", "trigger post", "trigger store"} =>
       own_generation # evidence.from

ResetIInv ==
  /\ Reset!TypeOK
  /\ PublishersAreCounted /\ TicketsAreOrdered /\ ApplyIsFenced /\ CompletedIsPosted
  /\ InterruptionIsUnderway /\ PollsKnow /\ TriggerIsKnown
  /\ MailIsWhole /\ EpochsAreOrdered /\ OwedIsNew /\ Reset!EvidenceKept

(* The types of the fields. *)
LEMMA FieldTypes ==
  ASSUME Reset!TypeOK
  PROVE  /\ word.safety \in BOOLEAN /\ word.ticket \in Nat /\ word.action \in BOOLEAN
         /\ mailbox.pending \in BOOLEAN /\ mailbox.evidence \in BOOLEAN
         /\ mailbox.reserved \in BOOLEAN /\ mailbox.epoch \in Nat
         /\ claimed.pending \in BOOLEAN /\ claimed.evidence \in BOOLEAN
         /\ claimed.epoch \in Nat
         /\ evidence.from \in Nat /\ evidence.to \in Nat
         /\ Reset!MailPending \in BOOLEAN
BY DEF Reset!TypeOK, Reset!OwnerWord, Reset!Mail, Reset!MailPending

(* What a takeover of SAFETY changes. *)
LEMMA TakeSafetyFacts ==
  ASSUME Reset!TypeOK, Reset!TakeSafety
  PROVE  /\ word' \in Reset!OwnerWord /\ word'.ticket = word.ticket /\ word'.action = word.action
         /\ word.safety => word'.safety
         /\ word.ticket # acked => word'.safety
         /\ epoch' \in Nat /\ epoch <= epoch'
<1>1. CASE word.ticket # acked /\ ~word.safety
  <2>1. word' = [word EXCEPT !.safety = TRUE] /\ epoch' = epoch + 1
    BY <1>1 DEF Reset!TakeSafety
  <2>2. word \in Reset!OwnerWord /\ epoch \in Nat  BY DEF Reset!TypeOK
  <2>3. /\ word' \in Reset!OwnerWord /\ word'.ticket = word.ticket /\ word'.action = word.action
        /\ word'.safety
    BY <2>1, <2>2 DEF Reset!OwnerWord
  <2>4. epoch' \in Nat /\ epoch <= epoch'  BY <2>1, <2>2
  <2> QED BY <2>3, <2>4
<1>2. CASE ~(word.ticket # acked /\ ~word.safety)
  <2>1. UNCHANGED <<word, epoch>>  BY <1>2 DEF Reset!TakeSafety
  <2>2. word \in Reset!OwnerWord /\ epoch \in Nat  BY DEF Reset!TypeOK
  <2> QED BY <1>2, <2>1, <2>2
<1> QED BY <1>1, <1>2

(* What a new ticket changes. *)
LEMMA NextTicketFacts ==
  ASSUME Reset!TypeOK, NEW requiresRT \in BOOLEAN, Reset!NextTicket(requiresRT)
  PROVE  /\ word' \in Reset!OwnerWord /\ word'.ticket = word.ticket + 1
         /\ word'.safety = word.safety
         /\ word.action => word'.action
<1>1. word \in Reset!OwnerWord  BY DEF Reset!TypeOK
<1>2. word' = [word EXCEPT !.ticket = @ + 1,
!.action = @ \/ requiresRT]  BY DEF Reset!NextTicket
<1>3. word'.ticket = word.ticket + 1 /\ word'.safety = word.safety
  BY <1>1, <1>2 DEF Reset!OwnerWord
<1>4. word'.action = (word.action \/ requiresRT)  BY <1>1, <1>2 DEF Reset!OwnerWord
<1>5. word' \in Reset!OwnerWord
  <2>1. (word.action \/ requiresRT) \in BOOLEAN  OBVIOUS
  <2>2. word.ticket + 1 \in Nat  BY <1>1 DEF Reset!OwnerWord
  <2> QED BY <1>1, <1>2, <2>1, <2>2 DEF Reset!OwnerWord
<1> QED BY <1>3, <1>4, <1>5

(* What the completion of a ticket's action changes. *)
LEMMA CompleteActionFacts ==
  ASSUME Reset!TypeOK, NEW done, Reset!CompleteAction(done)
  PROVE  /\ word' \in Reset!OwnerWord /\ word'.ticket = word.ticket
         /\ word'.safety = word.safety
         /\ word.ticket # done => word' = word
<1>1. CASE word.ticket = done
  BY <1>1 DEF Reset!TypeOK, Reset!CompleteAction, Reset!OwnerWord
<1>2. CASE word.ticket # done
  BY <1>2 DEF Reset!TypeOK, Reset!CompleteAction, Reset!OwnerWord
<1> QED BY <1>1, <1>2

(* What an acknowledgement changes. *)
LEMMA AcknowledgeFacts ==
  ASSUME Reset!TypeOK, TicketsAreOrdered, Reset!Acknowledge
  PROVE  /\ word' \in Reset!OwnerWord /\ word'.ticket = word.ticket
         /\ word'.safety = word.safety
         /\ acked' \in Nat /\ acked' <= word.ticket
         /\ publishers # 0 => word' = word
<1> DEFINE applied == /\ publishers = 0 /\ ~recovering
                      /\ token = 0 /\ ~Reset!MailPending /\ word.safety
<1>1. CASE applied
  <2>1. word' = [word EXCEPT !.action = FALSE] /\ acked' = word.ticket
    BY <1>1 DEF Reset!Acknowledge
  <2>2. word \in Reset!OwnerWord  BY DEF Reset!TypeOK
  <2>3. word' \in Reset!OwnerWord /\ word'.ticket = word.ticket /\ word'.safety = word.safety
    BY <2>1, <2>2 DEF Reset!OwnerWord
  <2>4. acked' \in Nat /\ acked' <= word.ticket  BY <2>1, <2>2 DEF Reset!OwnerWord
  <2> QED BY <1>1, <2>3, <2>4
<1>2. CASE ~applied
  <2>1. UNCHANGED <<word, acked>>  BY <1>2 DEF Reset!Acknowledge
  <2> QED BY <2>1 DEF Reset!TypeOK, TicketsAreOrdered, Reset!OwnerWord
<1> QED BY <1>1, <1>2

(* What a containment changes: the invalidation it records is of an epoch  *)
(* before the present one, and no evidence of that epoch is owed any more. *)
Contained(force, cause) ==
  /\ resetPhase' = (IF resetPhase = "IDLE" THEN "IDLE" ELSE "SUPERSEDED")
  /\ word' \in Reset!OwnerWord /\ word'.ticket = word.ticket /\ word'.action = word.action
  /\ word.safety => word'.safety
  /\ epoch' \in Nat /\ epoch <= epoch'
  /\ group' \in {"moving", "stopping", "converging", "still"} /\ token' \in Nat
  /\ evidence' \in [from : Nat, to : Nat] /\ evidence'.from < epoch'
  /\ due' \subseteq due /\ evidence'.from \notin due'
  /\ force /\ word.safety /\ cause # 0 => cause \notin due'
  /\ \A e \in due : e # evidence'.from => e \in due'

(* EmergencyStopAllAxesImpl does that. *)
LEMMA ContainFacts ==
  ASSUME Reset!TypeOK, EpochsAreOrdered, OwedIsNew,
         NEW force \in BOOLEAN, NEW cause \in Nat, NEW takes \in BOOLEAN,
         cause <= epoch, Reset!Contain(force, cause, takes)
  PROVE  Contained(force, cause)
<1> DEFINE before == IF cause # 0 THEN cause ELSE epoch
           safety == word.safety \/ (takes /\ word.ticket # acked)
           taken == IF safety /\ ~word.safety THEN epoch + 1 ELSE epoch
           had == force \/ group # "still"
           after == IF had /\ taken = before THEN taken + 1 ELSE taken
           records == had /\ safety /\ after # before
<1>1. /\ Reset!Supersede /\ word' = [word EXCEPT !.safety = safety] /\ epoch' = after
      /\ group' = "still" /\ token' = 0
      /\ IF records THEN evidence' = [from |-> before, to |-> after] /\ due' = due \ {before}
         ELSE UNCHANGED <<evidence, due>>
  BY DEF Reset!Contain
<1>2. /\ word' \in Reset!OwnerWord /\ word'.ticket = word.ticket /\ word'.action = word.action
      /\ word'.safety = safety
  BY <1>1 DEF Reset!TypeOK, Reset!OwnerWord
<1>3. /\ epoch \in Nat /\ before \in Nat /\ before <= epoch /\ taken \in Nat /\ epoch <= taken
      /\ after \in Nat /\ taken <= after
  <2>1. epoch \in Nat  BY DEF Reset!TypeOK
  <2>2. before \in Nat /\ before <= epoch  BY <2>1
  <2>3. taken \in Nat /\ epoch <= taken  BY <2>1
  <2>4. after \in Nat /\ taken <= after  BY <2>3
  <2> QED BY <2>1, <2>2, <2>3, <2>4
<1>4. force /\ word.safety => records
  BY <1>3
<1> HIDE DEF before, safety, taken, had, after, records
<1>5. CASE records
  <2>1. after # before  BY <1>5 DEF records
  <2>2. evidence' = [from |-> before, to |-> after] /\ due' = due \ {before}
    BY <1>1, <1>5
  <2>3. evidence'.from = before /\ evidence' \in [from : Nat, to : Nat]
    BY <2>2, <1>3
  <2>4. before < epoch'
    <3>1. before <= after  BY <1>3, <2>1
    <3>2. epoch' = after  BY <1>1
    <3> QED BY <1>3, <2>1, <3>1, <3>2
  <2>5. cause # 0 => cause = before  BY DEF before
  <2>6. due' \subseteq due /\ evidence'.from \notin due'
    BY <2>2, <2>3
  <2>7. /\ cause # 0 => cause \notin due'
        /\ \A e \in due : e # evidence'.from => e \in due'
    BY <2>2, <2>3, <2>5
  <2>8. epoch' \in Nat /\ epoch <= epoch' /\ group' = "still" /\ token' = 0
    BY <1>1, <1>3
  <2>9. word.safety => word'.safety  BY <1>2 DEF safety
  <2>10. resetPhase' = (IF resetPhase = "IDLE" THEN "IDLE" ELSE "SUPERSEDED")
    BY <1>1 DEF Reset!Supersede
  <2> QED BY <1>2, <2>3, <2>4, <2>6, <2>7, <2>8, <2>9, <2>10 DEF Contained
<1>6. CASE ~records
  <2>1. UNCHANGED <<evidence, due>>  BY <1>1, <1>6
  <2>2. evidence.from \in Nat /\ evidence.from < epoch /\ epoch \in Nat /\ evidence.from \notin due
    BY FieldTypes DEF EpochsAreOrdered, OwedIsNew, Reset!TypeOK
  <2>3. evidence'.from < epoch'  BY <1>1, <1>3, <2>1, <2>2
  <2>6. /\ due' \subseteq due /\ evidence'.from \notin due'
        /\ \A e \in due : e # evidence'.from => e \in due'
        /\ evidence' \in [from : Nat, to : Nat]
    BY <2>1, <2>2 DEF Reset!TypeOK
  <2>7. ~(force /\ word.safety)  BY <1>4, <1>6
  <2>8. epoch' \in Nat /\ epoch <= epoch' /\ group' = "still" /\ token' = 0
    BY <1>1, <1>3
  <2>9. word.safety => word'.safety  BY <1>2 DEF safety
  <2>10. resetPhase' = (IF resetPhase = "IDLE" THEN "IDLE" ELSE "SUPERSEDED")
    BY <1>1 DEF Reset!Supersede
  <2> QED BY <1>2, <2>3, <2>6, <2>7, <2>8, <2>9, <2>10 DEF Contained
<1> QED BY <1>5, <1>6

(* What a stop of the group changes. *)
LEMMA StopGroupFacts ==
  ASSUME Reset!TypeOK, EpochsAreOrdered, OwedIsNew, Reset!StopGroup
  PROVE  /\ resetPhase' \in {resetPhase, "SUPERSEDED"}
         /\ (resetPhase = "IDLE" => resetPhase' = "IDLE")
         /\ word' \in Reset!OwnerWord /\ word'.ticket = word.ticket /\ word'.action = word.action
         /\ word.safety => word'.safety
         /\ epoch' \in Nat /\ epoch <= epoch'
         /\ group' \in {"moving", "stopping", "converging", "still"} /\ token' \in Nat
         /\ evidence' \in [from : Nat, to : Nat] /\ evidence'.from < epoch'
         /\ due' \subseteq due /\ evidence'.from \notin due'
         /\ \A e \in due : e # evidence'.from => e \in due'
<1>0. /\ epoch \in Nat /\ word.ticket \in Nat /\ evidence.from < epoch /\ evidence.from \in Nat
      /\ evidence.from \notin due
  BY FieldTypes DEF Reset!TypeOK, EpochsAreOrdered, OwedIsNew
<1>1. CASE /\ token' = 0
           /\ UNCHANGED <<resetPhase, word, epoch, group, evidence, due>>
  BY <1>0, <1>1 DEF Reset!TypeOK
<1>2. CASE /\ epoch' = epoch + 1
           /\ group' = "stopping" /\ token' = word.ticket
           /\ UNCHANGED <<resetPhase, word, evidence, due>>
  <2>1. evidence'.from < epoch'  BY <1>0, <1>2
  <2> QED BY <1>0, <1>2, <2>1 DEF Reset!TypeOK
<1>3. CASE /\ Reset!Supersede
           /\ epoch' = epoch + 2
           /\ group' = "still" /\ token' = 0
           /\ evidence' = [from |-> epoch + 1, to |-> epoch + 2]
           /\ due' = due \ {epoch + 1}
           /\ UNCHANGED word
  <2>1. evidence' \in [from : Nat, to : Nat] /\ evidence'.from = epoch + 1  BY <1>0, <1>3
  <2> QED BY <1>0, <1>3, <2>1 DEF Reset!TypeOK, Reset!Supersede
<1>4. CASE Reset!Contain(TRUE, 0, TRUE)
  <2>1. TRUE \in BOOLEAN /\ 0 \in Nat /\ 0 <= epoch  BY <1>0
  <2>2. Contained(TRUE, 0)  BY ONLY Reset!TypeOK, EpochsAreOrdered, OwedIsNew, <1>4,
  <2>1, ContainFacts
  <2> QED BY <2>2 DEF Contained
<1> QED BY <1>1, <1>2, <1>3, <1>4 DEF Reset!StopGroup

(* One caller more is counted. *)
LEMMA OneMore ==
  ASSUME NEW S, NEW t, IsFiniteSet(S), t \notin S
  PROVE  IsFiniteSet(S \cup {t}) /\ Cardinality(S \cup {t}) = Cardinality(S) + 1
BY FS_AddElement
(* One caller less is counted. *)
LEMMA OneLess ==
  ASSUME NEW S, NEW t, IsFiniteSet(S), t \in S
  PROVE  IsFiniteSet(S \ {t}) /\ Cardinality(S \ {t}) = Cardinality(S) - 1
BY FS_RemoveElement

(* Nobody publishes when nobody is counted. *)
LEMMA NobodyCounted ==
  ASSUME PublishersAreCounted
  PROVE  /\ Cardinality(Publishing) \in Nat /\ publishers \in Nat
         /\ rt \in Reset!Pressing \cup Reset!Triggering => publishers = Cardinality(Publishing) + 1
         /\ rt \notin Reset!Pressing \cup Reset!Triggering => publishers = Cardinality(Publishing)
         /\ publishers = 0 => Publishing = {} /\ rt \notin Reset!Pressing \cup Reset!Triggering
         /\ publishers = 1 /\ rt \in Reset!Pressing => Publishing = {}
         /\ Publishing = {} => Posted
<1>1. IsFiniteSet(Publishing) /\ Cardinality(Publishing) \in Nat
  BY FS_CardinalityType DEF PublishersAreCounted
<1>2. Cardinality(Publishing) = 0 => Publishing = {}
  BY <1>1, FS_EmptySet
<1>3. Publishing = {} => Posted
  BY DEF Publishing, Publishes, Posted
<1>4. CASE rt \in Reset!Pressing \cup Reset!Triggering
  <2>1. publishers = Cardinality(Publishing) + 1  BY <1>4 DEF PublishersAreCounted
  <2> QED BY <1>1, <1>2, <1>3, <1>4, <2>1
<1>5. CASE rt \notin Reset!Pressing \cup Reset!Triggering
  <2>1. publishers = Cardinality(Publishing)  BY <1>1, <1>5 DEF PublishersAreCounted
  <2> QED BY <1>1, <1>2, <1>3, <1>5, <2>1
<1> QED BY <1>4, <1>5

(* Every bound on an epoch survives the growth of the epoch.                *)
LEMMA EpochsGrow ==
  ASSUME Reset!TypeOK, EpochsAreOrdered, epoch' \in Nat, epoch <= epoch'
  PROVE  /\ 0 < epoch' /\ evidence.from < epoch'
         /\ mailbox.epoch <= epoch' /\ claimed.epoch <= epoch'
         /\ \A t \in Reset!Caller : causal[t] <= epoch'
         /\ rt \in Capturing => own_generation # 0 /\ own_generation <= epoch'
<1>1. /\ epoch \in Nat /\ evidence.from \in Nat /\ mailbox.epoch \in Nat
      /\ claimed.epoch \in Nat /\ own_generation \in Nat
      /\ \A t \in Reset!Caller : causal[t] \in Nat
  BY FieldTypes DEF Reset!TypeOK
<1> QED BY <1>1 DEF EpochsAreOrdered

(* What PublishersAreCounted speaks of. *)
LEMMA PublishersAreCountedFramed ==
  ASSUME PublishersAreCounted,
         UNCHANGED <<publishers, call, rt>>
  PROVE  PublishersAreCounted'
BY DEF PublishersAreCounted, Publishing, Reset!Pressing, Reset!Triggering, Publishes

(* What TicketsAreOrdered speaks of. *)
LEMMA TicketsAreOrderedFramed ==
  ASSUME TicketsAreOrdered,
         UNCHANGED <<acked, word, own>>
  PROVE  TicketsAreOrdered'
BY DEF TicketsAreOrdered

(* What ApplyIsFenced speaks of. *)
LEMMA ApplyIsFencedFramed ==
  ASSUME ApplyIsFenced,
         UNCHANGED <<rt, recovering, word, acked>>
  PROVE  ApplyIsFenced'
BY DEF ApplyIsFenced, Reset!Applying

(* What CompletedIsPosted speaks of. *)
LEMMA CompletedIsPostedFramed ==
  ASSUME CompletedIsPosted,
         UNCHANGED <<rt, word, own, call>>
  PROVE  CompletedIsPosted'
BY DEF CompletedIsPosted, Reset!Applying, Posted

(* What InterruptionIsUnderway speaks of. *)
LEMMA InterruptionIsUnderwayFramed ==
  ASSUME InterruptionIsUnderway,
         UNCHANGED <<interrupted, resetPhase, call, mailbox, stop, rt, alarm>>
  PROVE  InterruptionIsUnderway'
BY DEF InterruptionIsUnderway, Posted, Underway, Reset!MailPending

(* What PollsKnow speaks of. *)
LEMMA PollsKnowFramed ==
  ASSUME PollsKnow,
         UNCHANGED <<nc, resetPhase, clean, call, mailbox, stop, rt, alarm>>
  PROVE  PollsKnow'
BY DEF PollsKnow, Reset!Polling, Posted, Underway, Reset!MailPending

(* What TriggerIsKnown speaks of. *)
LEMMA TriggerIsKnownFramed ==
  ASSUME TriggerIsKnown,
         UNCHANGED <<rt, resetPhase, alarm>>
  PROVE  TriggerIsKnown'
BY DEF TriggerIsKnown, Reset!Triggering

(* What MailIsWhole speaks of. *)
LEMMA MailIsWholeFramed ==
  ASSUME MailIsWhole,
         UNCHANGED <<mailbox, claimed, rt, due, authority>>
  PROVE  MailIsWhole'
BY DEF MailIsWhole

(* What EpochsAreOrdered speaks of. *)
LEMMA EpochsAreOrderedFramed ==
  ASSUME EpochsAreOrdered,
         UNCHANGED <<epoch, evidence, mailbox, claimed, causal, own_generation, rt>>
  PROVE  EpochsAreOrdered'
BY DEF EpochsAreOrdered, Capturing, Reset!Triggering

(* What OwedIsNew speaks of. *)
LEMMA OwedIsNewFramed ==
  ASSUME OwedIsNew,
         UNCHANGED <<due, evidence, rt, own_generation>>
  PROVE  OwedIsNew'
BY DEF OwedIsNew

(* What EvidenceKept speaks of. *)
LEMMA EvidenceKeptFramed ==
  ASSUME Reset!EvidenceKept,
         UNCHANGED <<due, mailbox, claimed>>
  PROVE  Reset!EvidenceKept'
BY DEF Reset!EvidenceKept

(* RT sees a mailbox and begins its recovery. *)
LEMMA ApplyEnterKeeps ==
  ASSUME ResetIInv, Reset!ApplyEnter
  PROVE  ResetIInv'
<1>1. UNCHANGED <<resetPhase, word, acked, publishers, generation, epoch, mailbox, stop,
                  alarm, group, token, evidence, call, causal, kind, nc, own,
                  own_generation, claimed, authority, presses, incidents,
                  interrupted, clean, due>>
  BY DEF Reset!ApplyEnter, Reset!mailVars, Reset!motionVars, Reset!scratch,
     Reset!elsewhere, Reset!callerVars, Reset!ncVars,
     Reset!alarmVars, Reset!Branch
<1>2. Reset!TypeOK'
  <2>1. recovering' \in BOOLEAN
    BY <1>1 DEF ResetIInv, Reset!TypeOK, Reset!ApplyEnter, Reset!Branch, Reset!MailPending
  <2>2. rt' \in Reset!Applying \cup Reset!Pressing \cup Reset!Triggering \cup Reset!Passing
    BY <1>1 DEF ResetIInv, Reset!TypeOK, Reset!Applying, Reset!Pressing,
       Reset!Triggering, Reset!Passing, Reset!ApplyEnter,
       Reset!Branch, Reset!MailPending
  <2> QED BY <1>1, <2>1, <2>2 DEF ResetIInv, Reset!TypeOK
<1>3. PublishersAreCounted'
  BY <1>1 DEF ResetIInv, PublishersAreCounted, Publishing, Reset!Pressing, Reset!Triggering,
     Publishes, Reset!ApplyEnter, Reset!Branch, Reset!MailPending
<1>4. ApplyIsFenced'
  BY <1>1 DEF ResetIInv, ApplyIsFenced, Reset!Applying, Reset!ApplyEnter, Reset!Branch,
     Reset!MailPending
<1>5. CompletedIsPosted'
  BY <1>1 DEF ResetIInv, CompletedIsPosted, Reset!Applying, Posted, Reset!ApplyEnter,
     Reset!Branch,
     Reset!MailPending
<1>6. InterruptionIsUnderway'
  BY <1>1 DEF ResetIInv, InterruptionIsUnderway, Posted, Underway, Reset!MailPending,
     Reset!ApplyEnter, Reset!Branch
<1>7. PollsKnow'
  BY <1>1 DEF ResetIInv, PollsKnow, Reset!Polling, Posted, Underway, Reset!MailPending,
     Reset!ApplyEnter,
     Reset!Branch
<1>8. TriggerIsKnown'
  BY <1>1 DEF ResetIInv, TriggerIsKnown, Reset!Triggering, Reset!ApplyEnter,
     Reset!Branch, Reset!MailPending
<1>9. MailIsWhole'
  BY <1>1 DEF ResetIInv, MailIsWhole, Reset!ApplyEnter, Reset!Branch, Reset!MailPending
<1>10. EpochsAreOrdered'
  BY <1>1 DEF ResetIInv, EpochsAreOrdered, Capturing, Reset!Triggering,
     Reset!ApplyEnter, Reset!Branch,
     Reset!MailPending
<1>11. OwedIsNew'
  BY <1>1 DEF ResetIInv, OwedIsNew, Reset!ApplyEnter, Reset!Branch, Reset!MailPending
<1>12. /\ TicketsAreOrdered' /\ Reset!EvidenceKept'
  BY <1>1, TicketsAreOrderedFramed, EvidenceKeptFramed DEF ResetIInv
<1> QED BY <1>2, <1>3, <1>4, <1>5, <1>6, <1>7, <1>8, <1>9, <1>10, <1>11, <1>12 DEF ResetIInv

(* RT joins the newest ticket, or publishes one of its own. *)
LEMMA ApplyTicketKeeps ==
  ASSUME ResetIInv, Reset!ApplyTicket
  PROVE  ResetIInv'
<1>1. UNCHANGED <<resetPhase, acked, publishers, generation, epoch, mailbox, stop,
                  recovering, alarm, group, token, evidence, call, causal, kind, nc,
                  own_generation, claimed, authority, presses, incidents,
                  interrupted, clean, due>>
  BY DEF Reset!ApplyTicket, Reset!mailVars, Reset!motionVars, Reset!scratch,
     Reset!elsewhere, Reset!callerVars, Reset!ncVars,
     Reset!alarmVars, Reset!Step, Reset!Branch
<1>2. /\ word' \in Reset!OwnerWord /\ word'.safety = word.safety
      /\ own' = word'.ticket /\ word'.ticket \in Nat
      /\ rt = "apply ticket" /\ rt' = "apply take"
  <2>1. rt = "apply ticket" /\ rt' = "apply take"
    BY DEF Reset!ApplyTicket, Reset!Step, Reset!Branch
  <2>2. CASE word.ticket \in {0, acked}
    <3>1. Reset!NextTicket(FALSE) /\ own' = word.ticket + 1  BY <2>2 DEF Reset!ApplyTicket
    <3>2. /\ word' \in Reset!OwnerWord /\ word'.safety = word.safety
          /\ word'.ticket = word.ticket + 1
      BY <3>1, NextTicketFacts DEF ResetIInv
    <3>3. word'.ticket \in Nat  BY <3>2 DEF Reset!OwnerWord
    <3> QED BY <2>1, <3>1, <3>2, <3>3
  <2>3. CASE word.ticket \notin {0, acked}
    <3>1. word' = word /\ own' = word.ticket  BY <2>3 DEF Reset!ApplyTicket
    <3> QED BY <2>1, <3>1, FieldTypes DEF ResetIInv, Reset!TypeOK
  <2> QED BY <2>2, <2>3
<1>3. acked' \in Nat /\ acked' < word'.ticket
  <2>1. acked' = acked /\ acked \in Nat /\ acked <= word.ticket /\ word.ticket \in Nat
    BY <1>1, FieldTypes DEF ResetIInv, Reset!TypeOK, TicketsAreOrdered
  <2>2. CASE word.ticket \in {0, acked}
    <3>1. Reset!NextTicket(FALSE)  BY <2>2 DEF Reset!ApplyTicket
    <3>2. word'.ticket = word.ticket + 1  BY <3>1, NextTicketFacts DEF ResetIInv
    <3> QED BY <2>1, <3>2
  <2>3. CASE word.ticket \notin {0, acked}
    <3>1. word'.ticket = word.ticket  BY <2>3 DEF Reset!ApplyTicket
    <3> QED BY <2>1, <2>3, <3>1
  <2> QED BY <2>2, <2>3
<1>4. Reset!TypeOK'
  <2>1. word' \in Reset!OwnerWord
    BY <1>1, <1>2, <1>3 DEF ResetIInv, Reset!TypeOK
  <2>2. rt' \in Reset!Applying \cup Reset!Pressing \cup Reset!Triggering \cup Reset!Passing
    BY <1>1, <1>2, <1>3 DEF ResetIInv, Reset!TypeOK, Reset!Applying, Reset!Pressing,
       Reset!Triggering, Reset!Passing
  <2>3. own' \in Nat
    BY <1>1, <1>2, <1>3 DEF ResetIInv, Reset!TypeOK
  <2> QED BY <1>1, <2>1, <2>2, <2>3 DEF ResetIInv, Reset!TypeOK
<1>5. PublishersAreCounted'
  BY <1>1, <1>2, <1>3 DEF ResetIInv, PublishersAreCounted, Publishing, Reset!Pressing,
     Reset!Triggering, Publishes
<1>6. TicketsAreOrdered'
  <2>1. own' = word'.ticket /\ word'.ticket \in Nat  BY <1>2
  <2> QED BY <1>3, <2>1 DEF TicketsAreOrdered
<1>7. ApplyIsFenced'
  <2>1. word'.ticket # acked'
    <3>1. word'.ticket \in Nat  BY <1>2
    <3> QED BY <1>3, <3>1
  <2> QED BY <1>1, <1>2, <2>1 DEF ResetIInv, ApplyIsFenced, Reset!Applying
<1>8. CompletedIsPosted'
  BY <1>1, <1>2, <1>3 DEF ResetIInv, CompletedIsPosted, Reset!Applying, Posted
<1>9. InterruptionIsUnderway'
  BY <1>1, <1>2, <1>3 DEF ResetIInv, InterruptionIsUnderway, Posted, Underway,
     Reset!MailPending
<1>10. PollsKnow'
  BY <1>1, <1>2, <1>3 DEF ResetIInv, PollsKnow, Reset!Polling, Posted, Underway,
     Reset!MailPending
<1>11. TriggerIsKnown'
  BY <1>1, <1>2, <1>3 DEF ResetIInv, TriggerIsKnown, Reset!Triggering
<1>12. MailIsWhole'
  BY <1>1, <1>2, <1>3 DEF ResetIInv, MailIsWhole
<1>13. EpochsAreOrdered'
  BY <1>1, <1>2, <1>3 DEF ResetIInv, EpochsAreOrdered, Capturing, Reset!Triggering
<1>14. OwedIsNew'
  BY <1>1, <1>2, <1>3 DEF ResetIInv, OwedIsNew
<1>15. /\ Reset!EvidenceKept'
  BY <1>1, EvidenceKeptFramed DEF ResetIInv
<1> QED BY <1>4, <1>5, <1>6, <1>7, <1>8, <1>9, <1>10, <1>11, <1>12, <1>13, <1>14,
   <1>15 DEF ResetIInv

(* RT takes motion over; the ticket was not acknowledged. *)
LEMMA ApplyTakeKeeps ==
  ASSUME ResetIInv, Reset!ApplyTake
  PROVE  ResetIInv'
<1>1. UNCHANGED <<resetPhase, acked, publishers, generation, mailbox, stop, recovering,
                  alarm, group, token, evidence, call, causal, kind, nc, own,
                  own_generation, claimed, authority, presses, incidents,
                  interrupted, clean, due>>
  BY DEF Reset!ApplyTake, Reset!mailVars, Reset!motionVars, Reset!scratch,
     Reset!elsewhere, Reset!callerVars, Reset!ncVars,
     Reset!alarmVars, Reset!Step, Reset!Branch
<1>2. /\ word' \in Reset!OwnerWord /\ word'.ticket = word.ticket /\ word'.action = word.action
      /\ word.safety => word'.safety
      /\ epoch' \in Nat /\ epoch <= epoch'
      /\ word.ticket # acked => word'.safety
  BY TakeSafetyFacts DEF ResetIInv, Reset!ApplyTake
<1>3. /\ 0 < epoch' /\ evidence.from < epoch'
      /\ mailbox.epoch <= epoch' /\ claimed.epoch <= epoch'
      /\ \A u \in Reset!Caller : causal[u] <= epoch'
      /\ rt \in Capturing => own_generation # 0 /\ own_generation <= epoch'
  BY <1>2, EpochsGrow DEF ResetIInv
<1>4. Reset!TypeOK'
  <2>1. word' \in Reset!OwnerWord
    BY <1>1, <1>2 DEF ResetIInv, Reset!TypeOK, Reset!ApplyTake, Reset!Step, Reset!Branch
  <2>2. epoch' \in Nat
    BY <1>1, <1>2 DEF ResetIInv, Reset!TypeOK, Reset!ApplyTake, Reset!Step, Reset!Branch
  <2>3. rt' \in Reset!Applying \cup Reset!Pressing \cup Reset!Triggering \cup Reset!Passing
    BY <1>1, <1>2 DEF ResetIInv, Reset!TypeOK, Reset!Applying, Reset!Pressing,
       Reset!Triggering, Reset!Passing,
       Reset!ApplyTake, Reset!Step, Reset!Branch
  <2> QED BY <1>1, <2>1, <2>2, <2>3 DEF ResetIInv, Reset!TypeOK
<1>5. PublishersAreCounted'
  BY <1>1, <1>2 DEF ResetIInv, PublishersAreCounted, Publishing, Reset!Pressing,
     Reset!Triggering,
     Publishes, Reset!ApplyTake, Reset!Step, Reset!Branch
<1>6. TicketsAreOrdered'
  BY <1>1, <1>2 DEF ResetIInv, TicketsAreOrdered, Reset!ApplyTake, Reset!Step, Reset!Branch
<1>7. ApplyIsFenced'
  <2>1. rt = "apply take" /\ rt' = "apply guard"  BY DEF Reset!ApplyTake, Reset!Step,
  Reset!Branch
  <2>2. recovering /\ word.ticket # acked  BY <2>1 DEF ResetIInv, ApplyIsFenced,
  Reset!Applying
  <2>3. word'.safety  BY <1>2, <2>2
  <2> QED BY <1>1, <2>1, <2>2, <2>3 DEF ApplyIsFenced
<1>8. CompletedIsPosted'
  BY <1>1, <1>2 DEF ResetIInv, CompletedIsPosted, Reset!Applying, Posted,
     Reset!ApplyTake, Reset!Step, Reset!Branch
<1>9. InterruptionIsUnderway'
  BY <1>1, <1>2 DEF ResetIInv, InterruptionIsUnderway, Posted, Underway, Reset!MailPending,
     Reset!ApplyTake, Reset!Step, Reset!Branch
<1>10. PollsKnow'
  BY <1>1, <1>2 DEF ResetIInv, PollsKnow, Reset!Polling, Posted, Underway,
     Reset!MailPending,
     Reset!ApplyTake, Reset!Step, Reset!Branch
<1>11. TriggerIsKnown'
  BY <1>1, <1>2 DEF ResetIInv, TriggerIsKnown, Reset!Triggering, Reset!ApplyTake,
     Reset!Step, Reset!Branch
<1>12. MailIsWhole'
  BY <1>1, <1>2 DEF ResetIInv, MailIsWhole, Reset!ApplyTake, Reset!Step, Reset!Branch
<1>13. EpochsAreOrdered'
  BY <1>1, <1>2, <1>3 DEF ResetIInv, EpochsAreOrdered, Capturing, Reset!Triggering,
     Reset!ApplyTake,
     Reset!Step, Reset!Branch
<1>14. OwedIsNew'
  BY <1>1, <1>2 DEF ResetIInv, OwedIsNew, Reset!ApplyTake, Reset!Step, Reset!Branch
<1>15. /\ Reset!EvidenceKept'
  BY <1>1, EvidenceKeptFramed DEF ResetIInv
<1> QED BY <1>4, <1>5, <1>6, <1>7, <1>8, <1>9, <1>10, <1>11, <1>12, <1>13, <1>14,
   <1>15 DEF ResetIInv

(* Nobody publishes, so every request is in its mailbox. *)
LEMMA ApplyGuardKeeps ==
  ASSUME ResetIInv, Reset!ApplyGuard
  PROVE  ResetIInv'
<1>1. UNCHANGED <<resetPhase, word, acked, publishers, generation, epoch, mailbox, stop,
                  alarm, group, token, evidence, call, causal, kind, nc, own,
                  own_generation, claimed, authority, presses, incidents,
                  interrupted, clean, due>>
  BY DEF Reset!ApplyGuard, Reset!mailVars, Reset!motionVars, Reset!scratch,
     Reset!elsewhere, Reset!callerVars, Reset!ncVars,
     Reset!alarmVars, Reset!Branch
<1>2. Reset!TypeOK'
  <2>1. recovering' \in BOOLEAN
    BY <1>1 DEF ResetIInv, Reset!TypeOK, Reset!ApplyGuard, Reset!Branch
  <2>2. rt' \in Reset!Applying \cup Reset!Pressing \cup Reset!Triggering \cup Reset!Passing
    BY <1>1 DEF ResetIInv, Reset!TypeOK, Reset!Applying, Reset!Pressing,
       Reset!Triggering, Reset!Passing, Reset!ApplyGuard,
       Reset!Branch
  <2> QED BY <1>1, <2>1, <2>2 DEF ResetIInv, Reset!TypeOK
<1>3. PublishersAreCounted'
  BY <1>1 DEF ResetIInv, PublishersAreCounted, Publishing, Reset!Pressing, Reset!Triggering,
     Publishes, Reset!ApplyGuard, Reset!Branch
<1>4. ApplyIsFenced'
  BY <1>1 DEF ResetIInv, ApplyIsFenced, Reset!Applying, Reset!ApplyGuard, Reset!Branch
<1>5. CompletedIsPosted'
  <2>1. rt' \in {"apply action", "press"} /\ (rt' = "apply action" => publishers = 0)
    BY DEF Reset!ApplyGuard, Reset!Branch
  <2>2. publishers = 0 => Posted  BY NobodyCounted DEF ResetIInv
  <2>3. Posted' = Posted  BY <1>1 DEF Posted
  <2> QED BY <2>1, <2>2, <2>3 DEF CompletedIsPosted, Reset!Applying
<1>6. InterruptionIsUnderway'
  BY <1>1 DEF ResetIInv, InterruptionIsUnderway, Posted, Underway, Reset!MailPending,
     Reset!ApplyGuard, Reset!Branch
<1>7. PollsKnow'
  BY <1>1 DEF ResetIInv, PollsKnow, Reset!Polling, Posted, Underway, Reset!MailPending,
     Reset!ApplyGuard,
     Reset!Branch
<1>8. TriggerIsKnown'
  BY <1>1 DEF ResetIInv, TriggerIsKnown, Reset!Triggering, Reset!ApplyGuard, Reset!Branch
<1>9. MailIsWhole'
  BY <1>1 DEF ResetIInv, MailIsWhole, Reset!ApplyGuard, Reset!Branch
<1>10. EpochsAreOrdered'
  BY <1>1 DEF ResetIInv, EpochsAreOrdered, Capturing, Reset!Triggering,
     Reset!ApplyGuard, Reset!Branch
<1>11. OwedIsNew'
  BY <1>1 DEF ResetIInv, OwedIsNew, Reset!ApplyGuard, Reset!Branch
<1>12. /\ TicketsAreOrdered' /\ Reset!EvidenceKept'
  BY <1>1, TicketsAreOrderedFramed, EvidenceKeptFramed DEF ResetIInv
<1> QED BY <1>2, <1>3, <1>4, <1>5, <1>6, <1>7, <1>8, <1>9, <1>10, <1>11, <1>12 DEF ResetIInv

(* The action of the newest ticket is completed before the claim. *)
LEMMA ApplyActionKeeps ==
  ASSUME ResetIInv, Reset!ApplyAction
  PROVE  ResetIInv'
<1>1. UNCHANGED <<resetPhase, acked, publishers, generation, epoch, mailbox, stop, alarm,
                  group, token, evidence, call, causal, kind, nc, own, own_generation,
                  claimed, authority, presses, incidents, interrupted, clean, due>>
  BY DEF Reset!ApplyAction, Reset!mailVars, Reset!motionVars, Reset!scratch,
     Reset!elsewhere, Reset!callerVars, Reset!ncVars,
     Reset!alarmVars, Reset!Branch
<1>2. /\ word' \in Reset!OwnerWord /\ word'.ticket = word.ticket /\ word'.safety = word.safety
      /\ rt = "apply action"
      /\ \/ rt' = "press" /\ recovering' = FALSE
         \/ rt' = "apply claim" /\ recovering' = TRUE
  BY CompleteActionFacts, FieldTypes DEF ResetIInv, Reset!ApplyAction, Reset!Branch
<1>3. Reset!TypeOK'
  <2>1. word' \in Reset!OwnerWord
    BY <1>1, <1>2 DEF ResetIInv, Reset!TypeOK
  <2>2. recovering' \in BOOLEAN
    BY <1>1, <1>2 DEF ResetIInv, Reset!TypeOK
  <2>3. rt' \in Reset!Applying \cup Reset!Pressing \cup Reset!Triggering \cup Reset!Passing
    BY <1>1, <1>2 DEF ResetIInv, Reset!TypeOK, Reset!Applying, Reset!Pressing,
       Reset!Triggering, Reset!Passing
  <2> QED BY <1>1, <2>1, <2>2, <2>3 DEF ResetIInv, Reset!TypeOK
<1>4. PublishersAreCounted'
  BY <1>1, <1>2 DEF ResetIInv, PublishersAreCounted, Publishing, Reset!Pressing,
     Reset!Triggering,
     Publishes
<1>5. TicketsAreOrdered'
  BY <1>1, <1>2 DEF ResetIInv, TicketsAreOrdered
<1>6. ApplyIsFenced'
  BY <1>1, <1>2 DEF ResetIInv, ApplyIsFenced, Reset!Applying
<1>7. CompletedIsPosted'
  BY <1>1, <1>2 DEF ResetIInv, CompletedIsPosted, Reset!Applying, Posted
<1>8. InterruptionIsUnderway'
  BY <1>1, <1>2 DEF ResetIInv, InterruptionIsUnderway, Posted, Underway, Reset!MailPending
<1>9. PollsKnow'
  BY <1>1, <1>2 DEF ResetIInv, PollsKnow, Reset!Polling, Posted, Underway, Reset!MailPending
<1>10. TriggerIsKnown'
  BY <1>1, <1>2 DEF ResetIInv, TriggerIsKnown, Reset!Triggering
<1>11. MailIsWhole'
  BY <1>1, <1>2 DEF ResetIInv, MailIsWhole
<1>12. EpochsAreOrdered'
  BY <1>1, <1>2 DEF ResetIInv, EpochsAreOrdered, Capturing, Reset!Triggering
<1>13. OwedIsNew'
  BY <1>1, <1>2 DEF ResetIInv, OwedIsNew
<1>14. /\ Reset!EvidenceKept'
  BY <1>1, EvidenceKeptFramed DEF ResetIInv
<1> QED BY <1>3, <1>4, <1>5, <1>6, <1>7, <1>8, <1>9, <1>10, <1>11, <1>12, <1>13,
   <1>14 DEF ResetIInv

(* The request, with its evidence, moves from the word to RT. *)
LEMMA ApplyClaimKeeps ==
  ASSUME ResetIInv, Reset!ApplyClaim
  PROVE  ResetIInv'
<1>1. UNCHANGED <<resetPhase, word, acked, publishers, generation, epoch, stop,
                  recovering, alarm, group, token, evidence, call, causal, kind, nc,
                  own, own_generation, authority, presses, incidents, interrupted,
                  clean, due>>
  BY DEF Reset!ApplyClaim, Reset!authorityVars, Reset!motionVars, Reset!elsewhere,
     Reset!callerVars, Reset!ncVars,
     Reset!alarmVars, Reset!Branch
<1>2. /\ rt = "apply claim" /\ rt' \in {"apply discard", "apply stop"}
      /\ mailbox.pending => rt' = "apply discard"
      /\ claimed' = mailbox /\ mailbox' = Reset!Empty
  BY DEF Reset!ApplyClaim, Reset!Branch
<1>3. /\ ~claimed.evidence /\ ~mailbox'.evidence /\ mailbox'.epoch = 0
      /\ mailbox.evidence => mailbox.pending
  BY <1>2 DEF ResetIInv, MailIsWhole, Reset!Empty
<1>4. Underway => Underway'
  <2>1. rt = "apply claim" /\ (mailbox.pending => rt' = "apply discard")
    BY DEF Reset!ApplyClaim, Reset!Branch
  <2> QED BY <1>1, <2>1 DEF Underway, Reset!MailPending
<1>5. Reset!TypeOK'
  <2>1. mailbox' \in Reset!Mail
    BY <1>1, <1>2, <1>3 DEF ResetIInv, Reset!TypeOK, Reset!Mail, Reset!Empty
  <2>2. rt' \in Reset!Applying \cup Reset!Pressing \cup Reset!Triggering \cup Reset!Passing
    BY <1>1, <1>2, <1>3 DEF ResetIInv, Reset!TypeOK, Reset!Applying, Reset!Pressing,
       Reset!Triggering, Reset!Passing,
       Reset!Empty
  <2>3. claimed' \in Reset!Mail
    BY <1>1, <1>2, <1>3 DEF ResetIInv, Reset!TypeOK, Reset!Mail, Reset!Empty
  <2> QED BY <1>1, <2>1, <2>2, <2>3 DEF ResetIInv, Reset!TypeOK
<1>6. PublishersAreCounted'
  BY <1>1, <1>2, <1>3 DEF ResetIInv, PublishersAreCounted, Publishing, Reset!Pressing,
     Reset!Triggering, Publishes, Reset!Empty
<1>7. ApplyIsFenced'
  BY <1>1, <1>2, <1>3 DEF ResetIInv, ApplyIsFenced, Reset!Applying, Reset!Empty
<1>8. CompletedIsPosted'
  BY <1>1, <1>2, <1>3 DEF ResetIInv, CompletedIsPosted, Reset!Applying, Posted, Reset!Empty
<1>9. InterruptionIsUnderway'
  BY <1>1, <1>4 DEF ResetIInv, InterruptionIsUnderway, Posted
<1>10. PollsKnow'
  BY <1>1, <1>4 DEF ResetIInv, PollsKnow, Posted, Reset!Polling
<1>11. TriggerIsKnown'
  BY <1>1, <1>2, <1>3 DEF ResetIInv, TriggerIsKnown, Reset!Triggering, Reset!Empty
<1>12. MailIsWhole'
  <2>1. claimed' = mailbox /\ due' = due  BY <1>1, <1>2
  <2> QED BY <1>2, <1>3, <2>1 DEF MailIsWhole
<1>13. EpochsAreOrdered'
  <2>1. rt' \notin Capturing  BY <1>2 DEF Capturing, Reset!Triggering
  <2>2. claimed'.epoch <= epoch' /\ mailbox'.epoch = 0
    BY <1>1, <1>2, <1>3 DEF ResetIInv, EpochsAreOrdered
  <2>3. epoch' \in Nat  BY <1>1 DEF ResetIInv, Reset!TypeOK
  <2> QED BY <1>1, <2>1, <2>2, <2>3 DEF ResetIInv, EpochsAreOrdered
<1>14. OwedIsNew'
  BY <1>1, <1>2, <1>3 DEF ResetIInv, OwedIsNew, Reset!Empty
<1>15. Reset!EvidenceKept'
  <2>1. \A e \in due : mailbox.evidence /\ mailbox.epoch = e
    BY <1>3 DEF ResetIInv, Reset!EvidenceKept
  <2> QED BY <1>1, <1>2, <2>1 DEF Reset!EvidenceKept
<1>16. /\ TicketsAreOrdered'
  BY <1>1, TicketsAreOrderedFramed DEF ResetIInv
<1> QED BY <1>5, <1>6, <1>7, <1>8, <1>9, <1>10, <1>11, <1>12, <1>13, <1>14, <1>15,
   <1>16 DEF ResetIInv

(* An emergency stop discards the group stop. *)
LEMMA ApplyDiscardKeeps ==
  ASSUME ResetIInv, Reset!ApplyDiscard
  PROVE  ResetIInv'
<1>1. UNCHANGED <<word, acked, publishers, generation, epoch, mailbox, recovering,
                  alarm, group, token, evidence, call, causal, kind, nc, own,
                  own_generation, claimed, authority, presses, incidents,
                  interrupted, clean, due>>
  BY DEF Reset!ApplyDiscard, Reset!authorityVars, Reset!motionVars, Reset!scratch,
     Reset!elsewhere, Reset!callerVars,
     Reset!ncVars, Reset!alarmVars, Reset!Step, Reset!Branch
<1>2. Reset!TypeOK'
  <2>1. resetPhase' \in Reset!Phases
    BY <1>1 DEF ResetIInv, Reset!TypeOK, Reset!Phases, Reset!ApplyDiscard, Reset!Step,
       Reset!Supersede, Reset!Branch
  <2>2. stop' \in BOOLEAN
    BY <1>1 DEF ResetIInv, Reset!TypeOK, Reset!ApplyDiscard, Reset!Step,
       Reset!Supersede, Reset!Branch
  <2>3. rt' \in Reset!Applying \cup Reset!Pressing \cup Reset!Triggering \cup Reset!Passing
    BY <1>1 DEF ResetIInv, Reset!TypeOK, Reset!Applying, Reset!Pressing,
       Reset!Triggering, Reset!Passing, Reset!ApplyDiscard,
       Reset!Step, Reset!Supersede, Reset!Branch
  <2> QED BY <1>1, <2>1, <2>2, <2>3 DEF ResetIInv, Reset!TypeOK
<1>3. PublishersAreCounted'
  BY <1>1 DEF ResetIInv, PublishersAreCounted, Publishing, Reset!Pressing, Reset!Triggering,
     Publishes, Reset!ApplyDiscard, Reset!Step, Reset!Supersede, Reset!Branch
<1>4. ApplyIsFenced'
  BY <1>1 DEF ResetIInv, ApplyIsFenced, Reset!Applying, Reset!ApplyDiscard, Reset!Step,
     Reset!Supersede, Reset!Branch
<1>5. CompletedIsPosted'
  BY <1>1 DEF ResetIInv, CompletedIsPosted, Reset!Applying, Posted, Reset!ApplyDiscard,
     Reset!Step,
     Reset!Supersede, Reset!Branch
<1>6. InterruptionIsUnderway'
  BY <1>1 DEF ResetIInv, InterruptionIsUnderway, Posted, Underway, Reset!MailPending,
     Reset!ApplyDiscard, Reset!Step, Reset!Supersede, Reset!Branch
<1>7. PollsKnow'
  BY <1>1 DEF ResetIInv, PollsKnow, Reset!Polling, Posted, Underway, Reset!MailPending,
     Reset!ApplyDiscard,
     Reset!Step, Reset!Supersede, Reset!Branch
<1>8. TriggerIsKnown'
  BY <1>1 DEF ResetIInv, TriggerIsKnown, Reset!Triggering, Reset!ApplyDiscard,
     Reset!Step, Reset!Supersede, Reset!Branch
<1>9. MailIsWhole'
  BY <1>1 DEF ResetIInv, MailIsWhole, Reset!ApplyDiscard, Reset!Step, Reset!Supersede,
     Reset!Branch
<1>10. EpochsAreOrdered'
  BY <1>1 DEF ResetIInv, EpochsAreOrdered, Capturing, Reset!Triggering,
     Reset!ApplyDiscard, Reset!Step,
     Reset!Supersede, Reset!Branch
<1>11. OwedIsNew'
  BY <1>1 DEF ResetIInv, OwedIsNew, Reset!ApplyDiscard, Reset!Step, Reset!Supersede,
     Reset!Branch
<1>12. /\ TicketsAreOrdered' /\ Reset!EvidenceKept'
  BY <1>1, TicketsAreOrderedFramed, EvidenceKeptFramed DEF ResetIInv
<1> QED BY <1>2, <1>3, <1>4, <1>5, <1>6, <1>7, <1>8, <1>9, <1>10, <1>11, <1>12 DEF ResetIInv

(* The containment records the evidence RT claimed. *)
LEMMA ApplyContainKeeps ==
  ASSUME ResetIInv, Reset!ApplyContain
  PROVE  ResetIInv'
<1>1. UNCHANGED <<acked, publishers, generation, mailbox, stop, recovering, alarm,
                  call, causal, kind, nc, own, own_generation, authority, presses,
                  incidents, interrupted, clean>>
  BY DEF Reset!ApplyContain, Reset!mailVars, Reset!elsewhere, Reset!callerVars,
     Reset!ncVars, Reset!alarmVars, Reset!Step,
     Reset!Branch
<1>2. Contained(claimed.evidence, claimed.epoch)
  <2>1. /\ claimed.evidence \in BOOLEAN /\ claimed.epoch \in Nat /\ claimed.epoch <= epoch
    BY FieldTypes DEF ResetIInv, EpochsAreOrdered
  <2> QED BY <2>1, ContainFacts DEF ResetIInv, Reset!ApplyContain
<1>3. /\ 0 < epoch' /\ evidence.from < epoch'
      /\ mailbox.epoch <= epoch' /\ claimed.epoch <= epoch'
      /\ \A u \in Reset!Caller : causal[u] <= epoch'
      /\ rt \in Capturing => own_generation # 0 /\ own_generation <= epoch'
  BY <1>2, EpochsGrow DEF ResetIInv, Contained
<1>4. Reset!TypeOK'
  <2>1. resetPhase' \in Reset!Phases
    BY <1>1, <1>2 DEF ResetIInv, Reset!TypeOK, Reset!Phases, Contained,
       Reset!ApplyContain, Reset!Step, Reset!Branch,
       Reset!Empty
  <2>2. word' \in Reset!OwnerWord
    BY <1>1, <1>2 DEF ResetIInv, Reset!TypeOK, Contained, Reset!ApplyContain,
       Reset!Step, Reset!Branch, Reset!Empty
  <2>3. epoch' \in Nat
    BY <1>1, <1>2 DEF ResetIInv, Reset!TypeOK, Contained, Reset!ApplyContain,
       Reset!Step, Reset!Branch, Reset!Empty
  <2>4. group' \in {"moving", "stopping", "converging", "still"}
    BY <1>1, <1>2 DEF ResetIInv, Reset!TypeOK, Contained, Reset!ApplyContain,
       Reset!Step, Reset!Branch, Reset!Empty
  <2>5. token' \in Nat
    BY <1>1, <1>2 DEF ResetIInv, Reset!TypeOK, Contained, Reset!ApplyContain,
       Reset!Step, Reset!Branch, Reset!Empty
  <2>6. evidence' \in [from : Nat, to : Nat]
    BY <1>1, <1>2 DEF ResetIInv, Reset!TypeOK, Contained, Reset!ApplyContain,
       Reset!Step, Reset!Branch, Reset!Empty
  <2>7. rt' \in Reset!Applying \cup Reset!Pressing \cup Reset!Triggering \cup Reset!Passing
    BY <1>1, <1>2 DEF ResetIInv, Reset!TypeOK, Reset!Applying, Reset!Pressing,
       Reset!Triggering, Reset!Passing,
       Contained, Reset!ApplyContain, Reset!Step, Reset!Branch, Reset!Empty
  <2>8. claimed' \in Reset!Mail
    BY <1>1, <1>2 DEF ResetIInv, Reset!TypeOK, Reset!Mail, Contained,
       Reset!ApplyContain, Reset!Step, Reset!Branch, Reset!Empty
  <2>9. due' \subseteq Nat
    BY <1>1, <1>2 DEF ResetIInv, Reset!TypeOK, Contained, Reset!ApplyContain,
       Reset!Step, Reset!Branch, Reset!Empty
  <2> QED BY <1>1, <2>1, <2>2, <2>3, <2>4, <2>5, <2>6, <2>7, <2>8, <2>9 DEF ResetIInv,
     Reset!TypeOK
<1>5. PublishersAreCounted'
  BY <1>1, <1>2 DEF ResetIInv, PublishersAreCounted, Publishing, Reset!Pressing,
     Reset!Triggering,
     Publishes, Contained, Reset!ApplyContain, Reset!Step, Reset!Branch, Reset!Empty
<1>6. TicketsAreOrdered'
  BY <1>1, <1>2 DEF ResetIInv, TicketsAreOrdered, Contained, Reset!ApplyContain,
     Reset!Step, Reset!Branch,
     Reset!Empty
<1>7. ApplyIsFenced'
  <2>1. rt = "apply contain" /\ rt' = "applied"  BY DEF Reset!ApplyContain, Reset!Step,
  Reset!Branch
  <2>2. recovering /\ word.safety  BY <2>1 DEF ResetIInv, ApplyIsFenced, Reset!Applying
  <2>3. word'.safety  BY <1>2, <2>2 DEF Contained
  <2> QED BY <1>1, <2>1, <2>2, <2>3 DEF ApplyIsFenced
<1>8. CompletedIsPosted'
  BY <1>1, <1>2 DEF ResetIInv, CompletedIsPosted, Reset!Applying, Posted, Contained,
     Reset!ApplyContain, Reset!Step, Reset!Branch, Reset!Empty
<1>9. InterruptionIsUnderway'
  BY <1>1, <1>2 DEF ResetIInv, InterruptionIsUnderway, Posted, Underway, Reset!MailPending,
     Contained, Reset!ApplyContain, Reset!Step, Reset!Branch, Reset!Empty
<1>10. PollsKnow'
  BY <1>1, <1>2 DEF ResetIInv, PollsKnow, Reset!Polling, Posted, Underway,
     Reset!MailPending,
     Contained, Reset!ApplyContain, Reset!Step, Reset!Branch, Reset!Empty
<1>11. TriggerIsKnown'
  BY <1>1, <1>2 DEF ResetIInv, TriggerIsKnown, Reset!Triggering, Contained,
     Reset!ApplyContain, Reset!Step,
     Reset!Branch, Reset!Empty
<1>12. MailIsWhole'
  BY <1>1, <1>2 DEF ResetIInv, MailIsWhole, Contained, Reset!ApplyContain, Reset!Step,
     Reset!Branch, Reset!Empty
<1>13. EpochsAreOrdered'
  <2>1. rt' \notin Capturing  BY DEF Reset!ApplyContain, Reset!Step, Reset!Branch,
  Capturing, Reset!Triggering
  <2>2. evidence'.from < epoch'  BY <1>2 DEF Contained
  <2>3. claimed'.epoch = 0 /\ mailbox' = mailbox /\ causal' = causal
    BY <1>1 DEF Reset!ApplyContain, Reset!Empty
  <2>4. epoch' \in Nat  BY <1>2 DEF Contained
  <2> QED BY <1>3, <2>1, <2>2, <2>3, <2>4 DEF EpochsAreOrdered
<1>14. OwedIsNew'
  BY <1>1, <1>2 DEF ResetIInv, OwedIsNew, Contained, Reset!ApplyContain, Reset!Step,
     Reset!Branch, Reset!Empty
<1>15. Reset!EvidenceKept'
  <2>1. /\ due' \subseteq due /\ mailbox' = mailbox
        /\ claimed.evidence /\ word.safety /\ claimed.epoch # 0 => claimed.epoch \notin due'
    BY <1>1, <1>2 DEF Contained
  <2>2. word.safety
    BY DEF Reset!ApplyContain, Reset!Step, Reset!Branch, ResetIInv, ApplyIsFenced,
       Reset!Applying
  <2>3. 0 \notin due  BY DEF ResetIInv, OwedIsNew
  <2>4. \A e \in due' : ~(claimed.evidence /\ claimed.epoch = e)
    BY <2>1, <2>2, <2>3
  <2> QED BY <2>1, <2>4 DEF ResetIInv, Reset!EvidenceKept
<1> QED BY <1>4, <1>5, <1>6, <1>7, <1>8, <1>9, <1>10, <1>11, <1>12, <1>13, <1>14,
   <1>15 DEF ResetIInv

(* RT claims the group stop. *)
LEMMA ApplyStopKeeps ==
  ASSUME ResetIInv, Reset!ApplyStop
  PROVE  ResetIInv'
<1>1. UNCHANGED <<word, acked, publishers, generation, epoch, mailbox, recovering,
                  alarm, group, token, evidence, call, causal, kind, nc, own,
                  own_generation, claimed, authority, presses, incidents,
                  interrupted, clean, due>>
  BY DEF Reset!ApplyStop, Reset!authorityVars, Reset!motionVars, Reset!scratch,
     Reset!elsewhere, Reset!callerVars,
     Reset!ncVars, Reset!alarmVars, Reset!Branch
<1>2. Reset!TypeOK'
  <2>1. resetPhase' \in Reset!Phases
    BY <1>1 DEF ResetIInv, Reset!TypeOK, Reset!Phases, Reset!ApplyStop, Reset!Branch,
       Reset!Supersede
  <2>2. stop' \in BOOLEAN
    BY <1>1 DEF ResetIInv, Reset!TypeOK, Reset!ApplyStop, Reset!Branch, Reset!Supersede
  <2>3. rt' \in Reset!Applying \cup Reset!Pressing \cup Reset!Triggering \cup Reset!Passing
    BY <1>1 DEF ResetIInv, Reset!TypeOK, Reset!Applying, Reset!Pressing,
       Reset!Triggering, Reset!Passing, Reset!ApplyStop,
       Reset!Branch, Reset!Supersede
  <2> QED BY <1>1, <2>1, <2>2, <2>3 DEF ResetIInv, Reset!TypeOK
<1>3. PublishersAreCounted'
  BY <1>1 DEF ResetIInv, PublishersAreCounted, Publishing, Reset!Pressing, Reset!Triggering,
     Publishes, Reset!ApplyStop, Reset!Branch, Reset!Supersede
<1>4. ApplyIsFenced'
  BY <1>1 DEF ResetIInv, ApplyIsFenced, Reset!Applying, Reset!ApplyStop, Reset!Branch,
     Reset!Supersede
<1>5. CompletedIsPosted'
  BY <1>1 DEF ResetIInv, CompletedIsPosted, Reset!Applying, Posted, Reset!ApplyStop,
     Reset!Branch, Reset!Supersede
<1>6. InterruptionIsUnderway'
  BY <1>1 DEF ResetIInv, InterruptionIsUnderway, Posted, Underway, Reset!MailPending,
     Reset!ApplyStop, Reset!Branch, Reset!Supersede
<1>7. PollsKnow'
  BY <1>1 DEF ResetIInv, PollsKnow, Reset!Polling, Posted, Underway, Reset!MailPending,
     Reset!ApplyStop,
     Reset!Branch, Reset!Supersede
<1>8. TriggerIsKnown'
  BY <1>1 DEF ResetIInv, TriggerIsKnown, Reset!Triggering, Reset!ApplyStop,
     Reset!Branch, Reset!Supersede
<1>9. MailIsWhole'
  BY <1>1 DEF ResetIInv, MailIsWhole, Reset!ApplyStop, Reset!Branch, Reset!Supersede
<1>10. EpochsAreOrdered'
  BY <1>1 DEF ResetIInv, EpochsAreOrdered, Capturing, Reset!Triggering,
     Reset!ApplyStop, Reset!Branch,
     Reset!Supersede
<1>11. OwedIsNew'
  BY <1>1 DEF ResetIInv, OwedIsNew, Reset!ApplyStop, Reset!Branch, Reset!Supersede
<1>12. /\ TicketsAreOrdered' /\ Reset!EvidenceKept'
  BY <1>1, TicketsAreOrderedFramed, EvidenceKeptFramed DEF ResetIInv
<1> QED BY <1>2, <1>3, <1>4, <1>5, <1>6, <1>7, <1>8, <1>9, <1>10, <1>11, <1>12 DEF ResetIInv

(* RT stops the group. *)
LEMMA ApplyGroupKeeps ==
  ASSUME ResetIInv, Reset!ApplyGroup
  PROVE  ResetIInv'
<1>1. UNCHANGED <<acked, publishers, generation, mailbox, stop, recovering, alarm,
                  call, causal, kind, nc, own, own_generation, claimed, authority,
                  presses, incidents, interrupted, clean>>
  BY DEF Reset!ApplyGroup, Reset!mailVars, Reset!scratch, Reset!elsewhere,
     Reset!callerVars, Reset!ncVars, Reset!alarmVars,
     Reset!Step, Reset!Branch
<1>2. /\ resetPhase' \in {resetPhase, "SUPERSEDED"} /\ (resetPhase = "IDLE" => resetPhase' = "IDLE")
      /\ word' \in Reset!OwnerWord /\ word'.ticket = word.ticket /\ word'.action = word.action
      /\ word.safety => word'.safety
      /\ epoch' \in Nat /\ epoch <= epoch'
      /\ group' \in {"moving", "stopping", "converging", "still"} /\ token' \in Nat
      /\ evidence' \in [from : Nat, to : Nat] /\ evidence'.from < epoch'
      /\ due' \subseteq due /\ evidence'.from \notin due'
      /\ \A e \in due : e # evidence'.from => e \in due'
  BY StopGroupFacts DEF ResetIInv, Reset!ApplyGroup
<1>3. /\ 0 < epoch' /\ evidence.from < epoch'
      /\ mailbox.epoch <= epoch' /\ claimed.epoch <= epoch'
      /\ \A u \in Reset!Caller : causal[u] <= epoch'
      /\ rt \in Capturing => own_generation # 0 /\ own_generation <= epoch'
  BY <1>2, EpochsGrow DEF ResetIInv
<1>4. Reset!TypeOK'
  <2>1. resetPhase' \in Reset!Phases
    BY <1>1, <1>2 DEF ResetIInv, Reset!TypeOK, Reset!Phases, Reset!ApplyGroup,
       Reset!Step, Reset!Branch
  <2>2. word' \in Reset!OwnerWord
    BY <1>1, <1>2 DEF ResetIInv, Reset!TypeOK, Reset!ApplyGroup, Reset!Step, Reset!Branch
  <2>3. epoch' \in Nat
    BY <1>1, <1>2 DEF ResetIInv, Reset!TypeOK, Reset!ApplyGroup, Reset!Step, Reset!Branch
  <2>4. group' \in {"moving", "stopping", "converging", "still"}
    BY <1>1, <1>2 DEF ResetIInv, Reset!TypeOK, Reset!ApplyGroup, Reset!Step, Reset!Branch
  <2>5. token' \in Nat
    BY <1>1, <1>2 DEF ResetIInv, Reset!TypeOK, Reset!ApplyGroup, Reset!Step, Reset!Branch
  <2>6. evidence' \in [from : Nat, to : Nat]
    BY <1>1, <1>2 DEF ResetIInv, Reset!TypeOK, Reset!ApplyGroup, Reset!Step, Reset!Branch
  <2>7. rt' \in Reset!Applying \cup Reset!Pressing \cup Reset!Triggering \cup Reset!Passing
    BY <1>1, <1>2 DEF ResetIInv, Reset!TypeOK, Reset!Applying, Reset!Pressing,
       Reset!Triggering, Reset!Passing,
       Reset!ApplyGroup, Reset!Step, Reset!Branch
  <2>8. due' \subseteq Nat
    BY <1>1, <1>2 DEF ResetIInv, Reset!TypeOK, Reset!ApplyGroup, Reset!Step, Reset!Branch
  <2> QED BY <1>1, <2>1, <2>2, <2>3, <2>4, <2>5, <2>6, <2>7, <2>8 DEF ResetIInv,
     Reset!TypeOK
<1>5. PublishersAreCounted'
  BY <1>1, <1>2 DEF ResetIInv, PublishersAreCounted, Publishing, Reset!Pressing,
     Reset!Triggering,
     Publishes, Reset!ApplyGroup, Reset!Step, Reset!Branch
<1>6. TicketsAreOrdered'
  BY <1>1, <1>2 DEF ResetIInv, TicketsAreOrdered, Reset!ApplyGroup, Reset!Step, Reset!Branch
<1>7. ApplyIsFenced'
  <2>1. rt = "apply group" /\ rt' = "applied"  BY DEF Reset!ApplyGroup, Reset!Step,
  Reset!Branch
  <2>2. recovering /\ word.safety  BY <2>1 DEF ResetIInv, ApplyIsFenced, Reset!Applying
  <2>3. word'.safety  BY <1>2, <2>2
  <2> QED BY <1>1, <2>1, <2>2, <2>3 DEF ApplyIsFenced
<1>8. CompletedIsPosted'
  BY <1>1, <1>2 DEF ResetIInv, CompletedIsPosted, Reset!Applying, Posted,
     Reset!ApplyGroup, Reset!Step,
     Reset!Branch
<1>9. InterruptionIsUnderway'
  BY <1>1, <1>2 DEF ResetIInv, InterruptionIsUnderway, Posted, Underway, Reset!MailPending,
     Reset!ApplyGroup, Reset!Step, Reset!Branch
<1>10. PollsKnow'
  BY <1>1, <1>2 DEF ResetIInv, PollsKnow, Reset!Polling, Posted, Underway,
     Reset!MailPending,
     Reset!ApplyGroup, Reset!Step, Reset!Branch
<1>11. TriggerIsKnown'
  BY <1>1, <1>2 DEF ResetIInv, TriggerIsKnown, Reset!Triggering, Reset!ApplyGroup,
     Reset!Step, Reset!Branch
<1>12. MailIsWhole'
  BY <1>1, <1>2 DEF ResetIInv, MailIsWhole, Reset!ApplyGroup, Reset!Step, Reset!Branch
<1>13. EpochsAreOrdered'
  <2>1. rt' \notin Capturing  BY DEF Reset!ApplyGroup, Reset!Step, Reset!Branch,
  Capturing, Reset!Triggering
  <2>2. evidence'.from < epoch'  BY <1>2
  <2> QED BY <1>1, <1>3, <2>1, <2>2 DEF EpochsAreOrdered
<1>14. OwedIsNew'
  BY <1>1, <1>2 DEF ResetIInv, OwedIsNew, Reset!ApplyGroup, Reset!Step, Reset!Branch
<1>15. Reset!EvidenceKept'
  BY <1>1, <1>2 DEF ResetIInv, Reset!EvidenceKept, Reset!ApplyGroup, Reset!Step,
     Reset!Branch
<1> QED BY <1>4, <1>5, <1>6, <1>7, <1>8, <1>9, <1>10, <1>11, <1>12, <1>13, <1>14,
   <1>15 DEF ResetIInv

(* The action is completed once more, and the recovery ends. *)
LEMMA AppliedKeeps ==
  ASSUME ResetIInv, Reset!Applied
  PROVE  ResetIInv'
<1>1. UNCHANGED <<resetPhase, acked, publishers, generation, epoch, mailbox, stop, alarm,
                  group, token, evidence, call, causal, kind, nc, own, own_generation,
                  claimed, authority, presses, incidents, interrupted, clean, due>>
  BY DEF Reset!Applied, Reset!mailVars, Reset!motionVars, Reset!scratch,
     Reset!elsewhere, Reset!callerVars, Reset!ncVars,
     Reset!alarmVars, Reset!Step, Reset!Branch
<1>2. /\ word' \in Reset!OwnerWord /\ word'.ticket = word.ticket /\ word'.safety = word.safety
  BY CompleteActionFacts DEF ResetIInv, Reset!Applied
<1>3. Reset!TypeOK'
  <2>1. word' \in Reset!OwnerWord
    BY <1>1, <1>2 DEF ResetIInv, Reset!TypeOK, Reset!Applied, Reset!Step, Reset!Branch
  <2>2. recovering' \in BOOLEAN
    BY <1>1, <1>2 DEF ResetIInv, Reset!TypeOK, Reset!Applied, Reset!Step, Reset!Branch
  <2>3. rt' \in Reset!Applying \cup Reset!Pressing \cup Reset!Triggering \cup Reset!Passing
    BY <1>1, <1>2 DEF ResetIInv, Reset!TypeOK, Reset!Applying, Reset!Pressing,
       Reset!Triggering, Reset!Passing,
       Reset!Applied, Reset!Step, Reset!Branch
  <2> QED BY <1>1, <2>1, <2>2, <2>3 DEF ResetIInv, Reset!TypeOK
<1>4. PublishersAreCounted'
  BY <1>1, <1>2 DEF ResetIInv, PublishersAreCounted, Publishing, Reset!Pressing,
     Reset!Triggering,
     Publishes, Reset!Applied, Reset!Step, Reset!Branch
<1>5. TicketsAreOrdered'
  BY <1>1, <1>2 DEF ResetIInv, TicketsAreOrdered, Reset!Applied, Reset!Step, Reset!Branch
<1>6. ApplyIsFenced'
  BY <1>1, <1>2 DEF ResetIInv, ApplyIsFenced, Reset!Applying, Reset!Applied,
     Reset!Step, Reset!Branch
<1>7. CompletedIsPosted'
  BY <1>1, <1>2 DEF ResetIInv, CompletedIsPosted, Reset!Applying, Posted,
     Reset!Applied, Reset!Step, Reset!Branch
<1>8. InterruptionIsUnderway'
  BY <1>1, <1>2 DEF ResetIInv, InterruptionIsUnderway, Posted, Underway, Reset!MailPending,
     Reset!Applied, Reset!Step, Reset!Branch
<1>9. PollsKnow'
  BY <1>1, <1>2 DEF ResetIInv, PollsKnow, Reset!Polling, Posted, Underway,
     Reset!MailPending,
     Reset!Applied, Reset!Step, Reset!Branch
<1>10. TriggerIsKnown'
  BY <1>1, <1>2 DEF ResetIInv, TriggerIsKnown, Reset!Triggering, Reset!Applied,
     Reset!Step, Reset!Branch
<1>11. MailIsWhole'
  BY <1>1, <1>2 DEF ResetIInv, MailIsWhole, Reset!Applied, Reset!Step, Reset!Branch
<1>12. EpochsAreOrdered'
  BY <1>1, <1>2 DEF ResetIInv, EpochsAreOrdered, Capturing, Reset!Triggering,
     Reset!Applied, Reset!Step,
     Reset!Branch
<1>13. OwedIsNew'
  BY <1>1, <1>2 DEF ResetIInv, OwedIsNew, Reset!Applied, Reset!Step, Reset!Branch
<1>14. /\ Reset!EvidenceKept'
  BY <1>1, EvidenceKeptFramed DEF ResetIInv
<1> QED BY <1>3, <1>4, <1>5, <1>6, <1>7, <1>8, <1>9, <1>10, <1>11, <1>12, <1>13,
   <1>14 DEF ResetIInv

(* RT claims the press. *)
LEMMA PressClaimKeeps ==
  ASSUME ResetIInv, Reset!PressClaim
  PROVE  ResetIInv'
<1>1. UNCHANGED <<word, acked, publishers, generation, epoch, mailbox, stop,
                  recovering, alarm, group, token, evidence, call, causal, kind, nc,
                  own, own_generation, claimed, authority, presses, incidents,
                  interrupted, clean, due>>
  BY DEF Reset!PressClaim, Reset!authorityVars, Reset!mailVars, Reset!motionVars,
     Reset!scratch, Reset!elsewhere,
     Reset!callerVars, Reset!ncVars, Reset!alarmVars, Reset!Branch
<1>2. Reset!TypeOK'
  <2>1. resetPhase' \in Reset!Phases
    BY <1>1 DEF ResetIInv, Reset!TypeOK, Reset!Phases, Reset!PressClaim, Reset!Branch
  <2>2. rt' \in Reset!Applying \cup Reset!Pressing \cup Reset!Triggering \cup Reset!Passing
    BY <1>1 DEF ResetIInv, Reset!TypeOK, Reset!Applying, Reset!Pressing,
       Reset!Triggering, Reset!Passing, Reset!PressClaim,
       Reset!Branch
  <2> QED BY <1>1, <2>1, <2>2 DEF ResetIInv, Reset!TypeOK
<1>3. PublishersAreCounted'
  BY <1>1 DEF ResetIInv, PublishersAreCounted, Publishing, Reset!Pressing, Reset!Triggering,
     Publishes, Reset!PressClaim, Reset!Branch
<1>4. ApplyIsFenced'
  BY <1>1 DEF ResetIInv, ApplyIsFenced, Reset!Applying, Reset!PressClaim, Reset!Branch
<1>5. CompletedIsPosted'
  BY <1>1 DEF ResetIInv, CompletedIsPosted, Reset!Applying, Posted, Reset!PressClaim,
     Reset!Branch
<1>6. InterruptionIsUnderway'
  BY <1>1 DEF ResetIInv, InterruptionIsUnderway, Posted, Underway, Reset!MailPending,
     Reset!PressClaim, Reset!Branch
<1>7. PollsKnow'
  BY <1>1 DEF ResetIInv, PollsKnow, Reset!Polling, Posted, Underway, Reset!MailPending,
     Reset!PressClaim,
     Reset!Branch
<1>8. TriggerIsKnown'
  BY <1>1 DEF ResetIInv, TriggerIsKnown, Reset!Triggering, Reset!PressClaim, Reset!Branch
<1>9. MailIsWhole'
  BY <1>1 DEF ResetIInv, MailIsWhole, Reset!PressClaim, Reset!Branch
<1>10. EpochsAreOrdered'
  BY <1>1 DEF ResetIInv, EpochsAreOrdered, Capturing, Reset!Triggering,
     Reset!PressClaim, Reset!Branch
<1>11. OwedIsNew'
  BY <1>1 DEF ResetIInv, OwedIsNew, Reset!PressClaim, Reset!Branch
<1>12. /\ TicketsAreOrdered' /\ Reset!EvidenceKept'
  BY <1>1, TicketsAreOrderedFramed, EvidenceKeptFramed DEF ResetIInv
<1> QED BY <1>2, <1>3, <1>4, <1>5, <1>6, <1>7, <1>8, <1>9, <1>10, <1>11, <1>12 DEF ResetIInv

(* RT refuses a press when something else wants SAFETY. *)
LEMMA PressJudgeKeeps ==
  ASSUME ResetIInv, Reset!PressJudge
  PROVE  ResetIInv'
<1>1. UNCHANGED <<word, acked, publishers, generation, epoch, mailbox, stop,
                  recovering, alarm, group, token, evidence, call, causal, kind, nc,
                  own, own_generation, claimed, authority, presses, incidents,
                  interrupted, clean, due>>
  BY DEF Reset!PressJudge, Reset!authorityVars, Reset!mailVars, Reset!motionVars,
     Reset!scratch, Reset!elsewhere,
     Reset!callerVars, Reset!ncVars, Reset!alarmVars, Reset!Branch
<1>2. Reset!TypeOK'
  <2>1. resetPhase' \in Reset!Phases
    BY <1>1 DEF ResetIInv, Reset!TypeOK, Reset!Phases, Reset!PressJudge, Reset!Intent,
       Reset!Winner, Reset!Branch, Reset!Supersede,
       Reset!MailPending, Reset!Unacknowledged
  <2>2. rt' \in Reset!Applying \cup Reset!Pressing \cup Reset!Triggering \cup Reset!Passing
    BY <1>1 DEF ResetIInv, Reset!TypeOK, Reset!Applying, Reset!Pressing,
       Reset!Triggering, Reset!Passing, Reset!PressJudge,
       Reset!Intent, Reset!Winner, Reset!Branch, Reset!Supersede, Reset!MailPending,
       Reset!Unacknowledged
  <2> QED BY <1>1, <2>1, <2>2 DEF ResetIInv, Reset!TypeOK
<1>3. PublishersAreCounted'
  BY <1>1 DEF ResetIInv, PublishersAreCounted, Publishing, Reset!Pressing, Reset!Triggering,
     Publishes, Reset!PressJudge, Reset!Intent, Reset!Winner, Reset!Branch,
     Reset!Supersede, Reset!MailPending,
     Reset!Unacknowledged
<1>4. ApplyIsFenced'
  BY <1>1 DEF ResetIInv, ApplyIsFenced, Reset!Applying, Reset!PressJudge, Reset!Intent,
     Reset!Winner, Reset!Branch,
     Reset!Supersede, Reset!MailPending, Reset!Unacknowledged
<1>5. CompletedIsPosted'
  BY <1>1 DEF ResetIInv, CompletedIsPosted, Reset!Applying, Posted, Reset!PressJudge,
     Reset!Intent, Reset!Winner,
     Reset!Branch, Reset!Supersede, Reset!MailPending, Reset!Unacknowledged
<1>6. InterruptionIsUnderway'
  BY <1>1 DEF ResetIInv, InterruptionIsUnderway, Posted, Underway, Reset!MailPending,
     Reset!PressJudge, Reset!Intent, Reset!Winner, Reset!Branch, Reset!Supersede,
     Reset!Unacknowledged
<1>7. PollsKnow'
  BY <1>1 DEF ResetIInv, PollsKnow, Reset!Polling, Posted, Underway, Reset!MailPending,
     Reset!PressJudge,
     Reset!Intent, Reset!Winner, Reset!Branch, Reset!Supersede, Reset!Unacknowledged
<1>8. TriggerIsKnown'
  BY <1>1 DEF ResetIInv, TriggerIsKnown, Reset!Triggering, Reset!PressJudge,
     Reset!Intent, Reset!Winner, Reset!Branch,
     Reset!Supersede, Reset!MailPending, Reset!Unacknowledged
<1>9. MailIsWhole'
  BY <1>1 DEF ResetIInv, MailIsWhole, Reset!PressJudge, Reset!Intent, Reset!Winner,
     Reset!Branch, Reset!Supersede,
     Reset!MailPending, Reset!Unacknowledged
<1>10. EpochsAreOrdered'
  BY <1>1 DEF ResetIInv, EpochsAreOrdered, Capturing, Reset!Triggering,
     Reset!PressJudge, Reset!Intent,
     Reset!Winner, Reset!Branch, Reset!Supersede, Reset!MailPending, Reset!Unacknowledged
<1>11. OwedIsNew'
  BY <1>1 DEF ResetIInv, OwedIsNew, Reset!PressJudge, Reset!Intent, Reset!Winner,
     Reset!Branch, Reset!Supersede,
     Reset!MailPending, Reset!Unacknowledged
<1>12. /\ TicketsAreOrdered' /\ Reset!EvidenceKept'
  BY <1>1, TicketsAreOrderedFramed, EvidenceKeptFramed DEF ResetIInv
<1> QED BY <1>2, <1>3, <1>4, <1>5, <1>6, <1>7, <1>8, <1>9, <1>10, <1>11, <1>12 DEF ResetIInv

(* RT counts itself as a publisher. *)
LEMMA PressBeginKeeps ==
  ASSUME ResetIInv, Reset!PressBegin
  PROVE  ResetIInv'
<1>1. UNCHANGED <<resetPhase, word, acked, epoch, mailbox, stop, recovering, alarm, group,
                  token, evidence, call, causal, kind, nc, own, own_generation,
                  claimed, authority, presses, incidents, interrupted, clean, due>>
  BY DEF Reset!PressBegin, Reset!mailVars, Reset!motionVars, Reset!scratch,
     Reset!elsewhere, Reset!callerVars, Reset!ncVars,
     Reset!alarmVars, Reset!Step, Reset!Branch
<1>2. /\ rt = "own begin" /\ rt \notin Reset!Pressing \cup Reset!Triggering
      /\ rt' = "own capture" /\ rt' \in Reset!Pressing \cup Reset!Triggering
  BY DEF Reset!PressBegin, Reset!Step, Reset!Branch, Reset!Pressing, Reset!Triggering
<1>3. /\ publishers' = publishers + 1 /\ Cardinality(Publishing) \in Nat
      /\ publishers = Cardinality(Publishing)
  <2>1. IsFiniteSet(Publishing) /\ Cardinality(Publishing) \in Nat
    BY NobodyCounted DEF ResetIInv, PublishersAreCounted
  <2>2. publishers = Cardinality(Publishing)
    BY <1>2, NobodyCounted DEF ResetIInv
  <2> QED BY <2>1, <2>2 DEF Reset!PressBegin
<1>4. Reset!TypeOK'
  <2>1. publishers' \in Nat
    BY <1>3
  <2>2. generation' \in Nat
    <3>1. generation \in Nat  BY DEF ResetIInv, Reset!TypeOK
    <3>2. generation' = generation + 1  BY DEF Reset!PressBegin
    <3> QED BY <3>1, <3>2
  <2>3. rt' \in Reset!Applying \cup Reset!Pressing \cup Reset!Triggering \cup Reset!Passing
    BY <1>1, <1>2, <1>3 DEF ResetIInv, Reset!TypeOK, Reset!Applying, Reset!Pressing,
       Reset!Triggering, Reset!Passing
  <2> QED BY <1>1, <2>1, <2>2, <2>3 DEF ResetIInv, Reset!TypeOK
<1>5. PublishersAreCounted'
  <2>1. Publishing' = Publishing  BY <1>1 DEF Publishing, Publishes
  <2>2. IsFiniteSet(Publishing)  BY DEF ResetIInv, PublishersAreCounted
  <2>3. publishers' = Cardinality(Publishing) + 1  BY <1>3
  <2> QED BY <1>2, <2>1, <2>2, <2>3 DEF PublishersAreCounted
<1>6. ApplyIsFenced'
  BY <1>1, <1>2, <1>3 DEF ResetIInv, ApplyIsFenced, Reset!Applying
<1>7. CompletedIsPosted'
  BY <1>1, <1>2, <1>3 DEF ResetIInv, CompletedIsPosted, Reset!Applying, Posted
<1>8. InterruptionIsUnderway'
  BY <1>1, <1>2, <1>3 DEF ResetIInv, InterruptionIsUnderway, Posted, Underway,
     Reset!MailPending
<1>9. PollsKnow'
  BY <1>1, <1>2, <1>3 DEF ResetIInv, PollsKnow, Reset!Polling, Posted, Underway,
     Reset!MailPending
<1>10. TriggerIsKnown'
  BY <1>1, <1>2, <1>3 DEF ResetIInv, TriggerIsKnown, Reset!Triggering
<1>11. MailIsWhole'
  BY <1>1, <1>2, <1>3 DEF ResetIInv, MailIsWhole
<1>12. EpochsAreOrdered'
  BY <1>1, <1>2, <1>3 DEF ResetIInv, EpochsAreOrdered, Capturing, Reset!Triggering
<1>13. OwedIsNew'
  BY <1>1, <1>2, <1>3 DEF ResetIInv, OwedIsNew
<1>14. /\ TicketsAreOrdered' /\ Reset!EvidenceKept'
  BY <1>1, TicketsAreOrderedFramed, EvidenceKeptFramed DEF ResetIInv
<1> QED BY <1>4, <1>5, <1>6, <1>7, <1>8, <1>9, <1>10, <1>11, <1>12, <1>13,
   <1>14 DEF ResetIInv

(* RT keeps the generation of its publication. *)
LEMMA PressCaptureKeeps ==
  ASSUME ResetIInv, Reset!PressCapture
  PROVE  ResetIInv'
<1>1. UNCHANGED <<resetPhase, word, acked, publishers, generation, epoch, mailbox, stop,
                  recovering, alarm, group, token, evidence, call, causal, kind, nc,
                  own, claimed, authority, presses, incidents, interrupted, clean,
                  due>>
  BY DEF Reset!PressCapture, Reset!authorityVars, Reset!mailVars, Reset!motionVars,
     Reset!elsewhere, Reset!callerVars,
     Reset!ncVars, Reset!alarmVars, Reset!Step, Reset!Branch
<1>2. Reset!TypeOK'
  <2>1. rt' \in Reset!Applying \cup Reset!Pressing \cup Reset!Triggering \cup Reset!Passing
    BY <1>1 DEF ResetIInv, Reset!TypeOK, Reset!Applying, Reset!Pressing,
       Reset!Triggering, Reset!Passing, Reset!PressCapture,
       Reset!Step, Reset!Branch
  <2>2. own_generation' \in Nat
    BY <1>1 DEF ResetIInv, Reset!TypeOK, Reset!PressCapture, Reset!Step, Reset!Branch
  <2> QED BY <1>1, <2>1, <2>2 DEF ResetIInv, Reset!TypeOK
<1>3. PublishersAreCounted'
  BY <1>1 DEF ResetIInv, PublishersAreCounted, Publishing, Reset!Pressing, Reset!Triggering,
     Publishes, Reset!PressCapture, Reset!Step, Reset!Branch
<1>4. ApplyIsFenced'
  BY <1>1 DEF ResetIInv, ApplyIsFenced, Reset!Applying, Reset!PressCapture, Reset!Step,
     Reset!Branch
<1>5. CompletedIsPosted'
  BY <1>1 DEF ResetIInv, CompletedIsPosted, Reset!Applying, Posted, Reset!PressCapture,
     Reset!Step, Reset!Branch
<1>6. InterruptionIsUnderway'
  BY <1>1 DEF ResetIInv, InterruptionIsUnderway, Posted, Underway, Reset!MailPending,
     Reset!PressCapture, Reset!Step, Reset!Branch
<1>7. PollsKnow'
  BY <1>1 DEF ResetIInv, PollsKnow, Reset!Polling, Posted, Underway, Reset!MailPending,
     Reset!PressCapture,
     Reset!Step, Reset!Branch
<1>8. TriggerIsKnown'
  BY <1>1 DEF ResetIInv, TriggerIsKnown, Reset!Triggering, Reset!PressCapture,
     Reset!Step, Reset!Branch
<1>9. MailIsWhole'
  BY <1>1 DEF ResetIInv, MailIsWhole, Reset!PressCapture, Reset!Step, Reset!Branch
<1>10. EpochsAreOrdered'
  BY <1>1 DEF ResetIInv, EpochsAreOrdered, Capturing, Reset!Triggering,
     Reset!PressCapture, Reset!Step,
     Reset!Branch
<1>11. OwedIsNew'
  BY <1>1 DEF ResetIInv, OwedIsNew, Reset!PressCapture, Reset!Step, Reset!Branch
<1>12. /\ TicketsAreOrdered' /\ Reset!EvidenceKept'
  BY <1>1, TicketsAreOrderedFramed, EvidenceKeptFramed DEF ResetIInv
<1> QED BY <1>2, <1>3, <1>4, <1>5, <1>6, <1>7, <1>8, <1>9, <1>10, <1>11, <1>12 DEF ResetIInv

(* RT publishes the ticket of the press. *)
LEMMA PressTicketKeeps ==
  ASSUME ResetIInv, Reset!PressTicket
  PROVE  ResetIInv'
<1>1. UNCHANGED <<resetPhase, acked, publishers, generation, epoch, mailbox, stop,
                  recovering, alarm, group, token, evidence, call, causal, kind, nc,
                  own_generation, claimed, authority, presses, incidents,
                  interrupted, clean, due>>
  BY DEF Reset!PressTicket, Reset!mailVars, Reset!motionVars, Reset!scratch,
     Reset!elsewhere, Reset!callerVars, Reset!ncVars,
     Reset!alarmVars, Reset!Step, Reset!Branch
<1>2. /\ word' \in Reset!OwnerWord /\ word'.ticket = word.ticket + 1 /\ word'.safety = word.safety
      /\ own' = word.ticket + 1
  BY NextTicketFacts, FieldTypes DEF ResetIInv, Reset!TypeOK, TicketsAreOrdered,
     Reset!PressTicket
<1>3. /\ word'.ticket = word.ticket + 1 /\ word.ticket \in Nat
      /\ acked \in Nat /\ acked <= word.ticket /\ own \in Nat /\ own <= word.ticket
  BY <1>2, FieldTypes DEF ResetIInv, Reset!TypeOK, TicketsAreOrdered
<1>4. Reset!TypeOK'
  <2>1. word' \in Reset!OwnerWord
    BY <1>1, <1>2, <1>3 DEF ResetIInv, Reset!TypeOK, Reset!PressTicket, Reset!Step,
       Reset!Branch
  <2>2. rt' \in Reset!Applying \cup Reset!Pressing \cup Reset!Triggering \cup Reset!Passing
    BY <1>1, <1>2, <1>3 DEF ResetIInv, Reset!TypeOK, Reset!Applying, Reset!Pressing,
       Reset!Triggering, Reset!Passing,
       Reset!PressTicket, Reset!Step, Reset!Branch
  <2>3. own' \in Nat
    <3>1. own' = word.ticket + 1  BY <1>2
    <3> QED BY <1>3, <3>1
  <2> QED BY <1>1, <2>1, <2>2, <2>3 DEF ResetIInv, Reset!TypeOK
<1>5. PublishersAreCounted'
  BY <1>1, <1>2, <1>3 DEF ResetIInv, PublishersAreCounted, Publishing, Reset!Pressing,
     Reset!Triggering, Publishes, Reset!PressTicket, Reset!Step, Reset!Branch
<1>6. TicketsAreOrdered'
  <2>1. acked' = acked /\ own' = word.ticket + 1  BY <1>1, <1>2
  <2> QED BY <1>3, <2>1 DEF TicketsAreOrdered
<1>7. ApplyIsFenced'
  BY <1>1, <1>2, <1>3 DEF ResetIInv, ApplyIsFenced, Reset!Applying, Reset!PressTicket,
     Reset!Step, Reset!Branch
<1>8. CompletedIsPosted'
  BY <1>1, <1>2, <1>3 DEF ResetIInv, CompletedIsPosted, Reset!Applying, Posted,
     Reset!PressTicket,
     Reset!Step, Reset!Branch
<1>9. InterruptionIsUnderway'
  BY <1>1, <1>2, <1>3 DEF ResetIInv, InterruptionIsUnderway, Posted, Underway,
     Reset!MailPending, Reset!PressTicket, Reset!Step, Reset!Branch
<1>10. PollsKnow'
  BY <1>1, <1>2, <1>3 DEF ResetIInv, PollsKnow, Reset!Polling, Posted, Underway,
     Reset!MailPending,
     Reset!PressTicket, Reset!Step, Reset!Branch
<1>11. TriggerIsKnown'
  BY <1>1, <1>2, <1>3 DEF ResetIInv, TriggerIsKnown, Reset!Triggering,
     Reset!PressTicket, Reset!Step, Reset!Branch
<1>12. MailIsWhole'
  BY <1>1, <1>2, <1>3 DEF ResetIInv, MailIsWhole, Reset!PressTicket, Reset!Step,
     Reset!Branch
<1>13. EpochsAreOrdered'
  BY <1>1, <1>2, <1>3 DEF ResetIInv, EpochsAreOrdered, Capturing, Reset!Triggering,
     Reset!PressTicket, Reset!Step, Reset!Branch
<1>14. OwedIsNew'
  BY <1>1, <1>2, <1>3 DEF ResetIInv, OwedIsNew, Reset!PressTicket, Reset!Step, Reset!Branch
<1>15. /\ Reset!EvidenceKept'
  BY <1>1, EvidenceKeptFramed DEF ResetIInv
<1> QED BY <1>4, <1>5, <1>6, <1>7, <1>8, <1>9, <1>10, <1>11, <1>12, <1>13, <1>14,
   <1>15 DEF ResetIInv

(* Is it still the newest? *)
LEMMA PressEnsureKeeps ==
  ASSUME ResetIInv, Reset!PressEnsure
  PROVE  ResetIInv'
<1>1. UNCHANGED <<resetPhase, word, acked, publishers, generation, epoch, mailbox, stop,
                  recovering, alarm, group, token, evidence, call, causal, kind, nc,
                  own, own_generation, claimed, authority, presses, incidents,
                  interrupted, clean, due>>
  BY DEF Reset!PressEnsure, Reset!authorityVars, Reset!mailVars, Reset!motionVars,
     Reset!scratch, Reset!elsewhere,
     Reset!callerVars, Reset!ncVars, Reset!alarmVars, Reset!Branch
<1>2. Reset!TypeOK'
  <2>1. rt' \in Reset!Applying \cup Reset!Pressing \cup Reset!Triggering \cup Reset!Passing
    BY <1>1 DEF ResetIInv, Reset!TypeOK, Reset!Applying, Reset!Pressing,
       Reset!Triggering, Reset!Passing, Reset!PressEnsure,
       Reset!Branch
  <2> QED BY <1>1, <2>1 DEF ResetIInv, Reset!TypeOK
<1>3. PublishersAreCounted'
  BY <1>1 DEF ResetIInv, PublishersAreCounted, Publishing, Reset!Pressing, Reset!Triggering,
     Publishes, Reset!PressEnsure, Reset!Branch
<1>4. ApplyIsFenced'
  BY <1>1 DEF ResetIInv, ApplyIsFenced, Reset!Applying, Reset!PressEnsure, Reset!Branch
<1>5. CompletedIsPosted'
  BY <1>1 DEF ResetIInv, CompletedIsPosted, Reset!Applying, Posted, Reset!PressEnsure,
     Reset!Branch
<1>6. InterruptionIsUnderway'
  BY <1>1 DEF ResetIInv, InterruptionIsUnderway, Posted, Underway, Reset!MailPending,
     Reset!PressEnsure, Reset!Branch
<1>7. PollsKnow'
  BY <1>1 DEF ResetIInv, PollsKnow, Reset!Polling, Posted, Underway, Reset!MailPending,
     Reset!PressEnsure,
     Reset!Branch
<1>8. TriggerIsKnown'
  BY <1>1 DEF ResetIInv, TriggerIsKnown, Reset!Triggering, Reset!PressEnsure, Reset!Branch
<1>9. MailIsWhole'
  BY <1>1 DEF ResetIInv, MailIsWhole, Reset!PressEnsure, Reset!Branch
<1>10. EpochsAreOrdered'
  BY <1>1 DEF ResetIInv, EpochsAreOrdered, Capturing, Reset!Triggering,
     Reset!PressEnsure, Reset!Branch
<1>11. OwedIsNew'
  BY <1>1 DEF ResetIInv, OwedIsNew, Reset!PressEnsure, Reset!Branch
<1>12. /\ TicketsAreOrdered' /\ Reset!EvidenceKept'
  BY <1>1, TicketsAreOrderedFramed, EvidenceKeptFramed DEF ResetIInv
<1> QED BY <1>2, <1>3, <1>4, <1>5, <1>6, <1>7, <1>8, <1>9, <1>10, <1>11, <1>12 DEF ResetIInv

(* RT takes motion over for it. *)
LEMMA PressTakeKeeps ==
  ASSUME ResetIInv, Reset!PressTake
  PROVE  ResetIInv'
<1>1. UNCHANGED <<resetPhase, acked, publishers, generation, mailbox, stop, recovering,
                  alarm, group, token, evidence, call, causal, kind, nc, own,
                  own_generation, claimed, authority, presses, incidents,
                  interrupted, clean, due>>
  BY DEF Reset!PressTake, Reset!mailVars, Reset!motionVars, Reset!scratch,
     Reset!elsewhere, Reset!callerVars, Reset!ncVars,
     Reset!alarmVars, Reset!Step, Reset!Branch
<1>2. /\ word' \in Reset!OwnerWord /\ word'.ticket = word.ticket /\ word'.action = word.action
      /\ word.safety => word'.safety
      /\ epoch' \in Nat /\ epoch <= epoch'
  BY TakeSafetyFacts DEF ResetIInv, Reset!PressTake
<1>3. /\ 0 < epoch' /\ evidence.from < epoch'
      /\ mailbox.epoch <= epoch' /\ claimed.epoch <= epoch'
      /\ \A u \in Reset!Caller : causal[u] <= epoch'
      /\ rt \in Capturing => own_generation # 0 /\ own_generation <= epoch'
  BY <1>2, EpochsGrow DEF ResetIInv
<1>4. Reset!TypeOK'
  <2>1. word' \in Reset!OwnerWord
    BY <1>1, <1>2 DEF ResetIInv, Reset!TypeOK, Reset!PressTake, Reset!Step, Reset!Branch
  <2>2. epoch' \in Nat
    BY <1>1, <1>2 DEF ResetIInv, Reset!TypeOK, Reset!PressTake, Reset!Step, Reset!Branch
  <2>3. rt' \in Reset!Applying \cup Reset!Pressing \cup Reset!Triggering \cup Reset!Passing
    BY <1>1, <1>2 DEF ResetIInv, Reset!TypeOK, Reset!Applying, Reset!Pressing,
       Reset!Triggering, Reset!Passing,
       Reset!PressTake, Reset!Step, Reset!Branch
  <2> QED BY <1>1, <2>1, <2>2, <2>3 DEF ResetIInv, Reset!TypeOK
<1>5. PublishersAreCounted'
  BY <1>1, <1>2 DEF ResetIInv, PublishersAreCounted, Publishing, Reset!Pressing,
     Reset!Triggering,
     Publishes, Reset!PressTake, Reset!Step, Reset!Branch
<1>6. TicketsAreOrdered'
  BY <1>1, <1>2 DEF ResetIInv, TicketsAreOrdered, Reset!PressTake, Reset!Step, Reset!Branch
<1>7. ApplyIsFenced'
  BY <1>1, <1>2 DEF ResetIInv, ApplyIsFenced, Reset!Applying, Reset!PressTake,
     Reset!Step, Reset!Branch
<1>8. CompletedIsPosted'
  BY <1>1, <1>2 DEF ResetIInv, CompletedIsPosted, Reset!Applying, Posted,
     Reset!PressTake, Reset!Step, Reset!Branch
<1>9. InterruptionIsUnderway'
  BY <1>1, <1>2 DEF ResetIInv, InterruptionIsUnderway, Posted, Underway, Reset!MailPending,
     Reset!PressTake, Reset!Step, Reset!Branch
<1>10. PollsKnow'
  BY <1>1, <1>2 DEF ResetIInv, PollsKnow, Reset!Polling, Posted, Underway,
     Reset!MailPending,
     Reset!PressTake, Reset!Step, Reset!Branch
<1>11. TriggerIsKnown'
  BY <1>1, <1>2 DEF ResetIInv, TriggerIsKnown, Reset!Triggering, Reset!PressTake,
     Reset!Step, Reset!Branch
<1>12. MailIsWhole'
  BY <1>1, <1>2 DEF ResetIInv, MailIsWhole, Reset!PressTake, Reset!Step, Reset!Branch
<1>13. EpochsAreOrdered'
  BY <1>1, <1>2, <1>3 DEF ResetIInv, EpochsAreOrdered, Capturing, Reset!Triggering,
     Reset!PressTake,
     Reset!Step, Reset!Branch
<1>14. OwedIsNew'
  BY <1>1, <1>2 DEF ResetIInv, OwedIsNew, Reset!PressTake, Reset!Step, Reset!Branch
<1>15. /\ Reset!EvidenceKept'
  BY <1>1, EvidenceKeptFramed DEF ResetIInv
<1> QED BY <1>4, <1>5, <1>6, <1>7, <1>8, <1>9, <1>10, <1>11, <1>12, <1>13, <1>14,
   <1>15 DEF ResetIInv

(* The press goes on only if RT publishes alone. *)
LEMMA PressExactKeeps ==
  ASSUME ResetIInv, Reset!PressExact
  PROVE  ResetIInv'
<1>1. UNCHANGED <<word, acked, publishers, generation, epoch, mailbox, stop, alarm,
                  group, token, evidence, call, causal, kind, nc, own, own_generation,
                  claimed, authority, presses, incidents, interrupted, clean, due>>
  BY DEF Reset!PressExact, Reset!mailVars, Reset!motionVars, Reset!scratch,
     Reset!elsewhere, Reset!callerVars, Reset!ncVars,
     Reset!alarmVars, Reset!Branch
<1>2. Reset!TypeOK'
  <2>1. resetPhase' \in Reset!Phases
    BY <1>1 DEF ResetIInv, Reset!TypeOK, Reset!Phases, Reset!PressExact, Reset!Branch,
       Reset!Exact, Reset!Supersede, Reset!Winner,
       Reset!MailPending
  <2>2. recovering' \in BOOLEAN
    BY <1>1 DEF ResetIInv, Reset!TypeOK, Reset!PressExact, Reset!Branch, Reset!Exact,
       Reset!Supersede, Reset!Winner,
       Reset!MailPending
  <2>3. rt' \in Reset!Applying \cup Reset!Pressing \cup Reset!Triggering \cup Reset!Passing
    BY <1>1 DEF ResetIInv, Reset!TypeOK, Reset!Applying, Reset!Pressing,
       Reset!Triggering, Reset!Passing, Reset!PressExact,
       Reset!Branch, Reset!Exact, Reset!Supersede, Reset!Winner, Reset!MailPending
  <2> QED BY <1>1, <2>1, <2>2, <2>3 DEF ResetIInv, Reset!TypeOK
<1>3. PublishersAreCounted'
  BY <1>1 DEF ResetIInv, PublishersAreCounted, Publishing, Reset!Pressing, Reset!Triggering,
     Publishes, Reset!PressExact, Reset!Branch, Reset!Exact, Reset!Supersede,
     Reset!Winner, Reset!MailPending
<1>4. ApplyIsFenced'
  BY <1>1 DEF ResetIInv, ApplyIsFenced, Reset!Applying, Reset!PressExact, Reset!Branch,
     Reset!Exact, Reset!Supersede,
     Reset!Winner, Reset!MailPending
<1>5. CompletedIsPosted'
  BY <1>1 DEF ResetIInv, CompletedIsPosted, Reset!Applying, Posted, Reset!PressExact,
     Reset!Branch, Reset!Exact,
     Reset!Supersede, Reset!Winner, Reset!MailPending
<1>6. InterruptionIsUnderway'
  BY <1>1 DEF ResetIInv, InterruptionIsUnderway, Posted, Underway, Reset!MailPending,
     Reset!PressExact, Reset!Branch, Reset!Exact, Reset!Supersede, Reset!Winner
<1>7. PollsKnow'
  BY <1>1 DEF ResetIInv, PollsKnow, Reset!Polling, Posted, Underway, Reset!MailPending,
     Reset!PressExact,
     Reset!Branch, Reset!Exact, Reset!Supersede, Reset!Winner
<1>8. TriggerIsKnown'
  BY <1>1 DEF ResetIInv, TriggerIsKnown, Reset!Triggering, Reset!PressExact,
     Reset!Branch, Reset!Exact,
     Reset!Supersede, Reset!Winner, Reset!MailPending
<1>9. MailIsWhole'
  BY <1>1 DEF ResetIInv, MailIsWhole, Reset!PressExact, Reset!Branch, Reset!Exact,
     Reset!Supersede, Reset!Winner,
     Reset!MailPending
<1>10. EpochsAreOrdered'
  BY <1>1 DEF ResetIInv, EpochsAreOrdered, Capturing, Reset!Triggering,
     Reset!PressExact, Reset!Branch,
     Reset!Exact, Reset!Supersede, Reset!Winner, Reset!MailPending
<1>11. OwedIsNew'
  BY <1>1 DEF ResetIInv, OwedIsNew, Reset!PressExact, Reset!Branch, Reset!Exact,
     Reset!Supersede, Reset!Winner,
     Reset!MailPending
<1>12. /\ TicketsAreOrdered' /\ Reset!EvidenceKept'
  BY <1>1, TicketsAreOrderedFramed, EvidenceKeptFramed DEF ResetIInv
<1> QED BY <1>2, <1>3, <1>4, <1>5, <1>6, <1>7, <1>8, <1>9, <1>10, <1>11, <1>12 DEF ResetIInv

(* RT stops the group for the press. *)
LEMMA PressStopKeeps ==
  ASSUME ResetIInv, Reset!PressStop
  PROVE  ResetIInv'
<1>1. UNCHANGED <<acked, publishers, generation, mailbox, stop, recovering, alarm,
                  call, causal, kind, nc, own, own_generation, claimed, authority,
                  presses, incidents, interrupted, clean>>
  BY DEF Reset!PressStop, Reset!mailVars, Reset!scratch, Reset!elsewhere,
     Reset!callerVars, Reset!ncVars, Reset!alarmVars,
     Reset!Step, Reset!Branch
<1>2. /\ resetPhase' \in {resetPhase, "SUPERSEDED"} /\ (resetPhase = "IDLE" => resetPhase' = "IDLE")
      /\ word' \in Reset!OwnerWord /\ word'.ticket = word.ticket /\ word'.action = word.action
      /\ word.safety => word'.safety
      /\ epoch' \in Nat /\ epoch <= epoch'
      /\ group' \in {"moving", "stopping", "converging", "still"} /\ token' \in Nat
      /\ evidence' \in [from : Nat, to : Nat] /\ evidence'.from < epoch'
      /\ due' \subseteq due /\ evidence'.from \notin due'
      /\ \A e \in due : e # evidence'.from => e \in due'
  BY StopGroupFacts DEF ResetIInv, Reset!PressStop
<1>3. /\ 0 < epoch' /\ evidence.from < epoch'
      /\ mailbox.epoch <= epoch' /\ claimed.epoch <= epoch'
      /\ \A u \in Reset!Caller : causal[u] <= epoch'
      /\ rt \in Capturing => own_generation # 0 /\ own_generation <= epoch'
  BY <1>2, EpochsGrow DEF ResetIInv
<1>4. Reset!TypeOK'
  <2>1. resetPhase' \in Reset!Phases
    BY <1>1, <1>2 DEF ResetIInv, Reset!TypeOK, Reset!Phases, Reset!PressStop,
       Reset!Step, Reset!Branch
  <2>2. word' \in Reset!OwnerWord
    BY <1>1, <1>2 DEF ResetIInv, Reset!TypeOK, Reset!PressStop, Reset!Step, Reset!Branch
  <2>3. epoch' \in Nat
    BY <1>1, <1>2 DEF ResetIInv, Reset!TypeOK, Reset!PressStop, Reset!Step, Reset!Branch
  <2>4. group' \in {"moving", "stopping", "converging", "still"}
    BY <1>1, <1>2 DEF ResetIInv, Reset!TypeOK, Reset!PressStop, Reset!Step, Reset!Branch
  <2>5. token' \in Nat
    BY <1>1, <1>2 DEF ResetIInv, Reset!TypeOK, Reset!PressStop, Reset!Step, Reset!Branch
  <2>6. evidence' \in [from : Nat, to : Nat]
    BY <1>1, <1>2 DEF ResetIInv, Reset!TypeOK, Reset!PressStop, Reset!Step, Reset!Branch
  <2>7. rt' \in Reset!Applying \cup Reset!Pressing \cup Reset!Triggering \cup Reset!Passing
    BY <1>1, <1>2 DEF ResetIInv, Reset!TypeOK, Reset!Applying, Reset!Pressing,
       Reset!Triggering, Reset!Passing,
       Reset!PressStop, Reset!Step, Reset!Branch
  <2>8. due' \subseteq Nat
    BY <1>1, <1>2 DEF ResetIInv, Reset!TypeOK, Reset!PressStop, Reset!Step, Reset!Branch
  <2> QED BY <1>1, <2>1, <2>2, <2>3, <2>4, <2>5, <2>6, <2>7, <2>8 DEF ResetIInv,
     Reset!TypeOK
<1>5. PublishersAreCounted'
  BY <1>1, <1>2 DEF ResetIInv, PublishersAreCounted, Publishing, Reset!Pressing,
     Reset!Triggering,
     Publishes, Reset!PressStop, Reset!Step, Reset!Branch
<1>6. TicketsAreOrdered'
  BY <1>1, <1>2 DEF ResetIInv, TicketsAreOrdered, Reset!PressStop, Reset!Step, Reset!Branch
<1>7. ApplyIsFenced'
  BY <1>1, <1>2 DEF ResetIInv, ApplyIsFenced, Reset!Applying, Reset!PressStop,
     Reset!Step, Reset!Branch
<1>8. CompletedIsPosted'
  BY <1>1, <1>2 DEF ResetIInv, CompletedIsPosted, Reset!Applying, Posted,
     Reset!PressStop, Reset!Step, Reset!Branch
<1>9. InterruptionIsUnderway'
  BY <1>1, <1>2 DEF ResetIInv, InterruptionIsUnderway, Posted, Underway, Reset!MailPending,
     Reset!PressStop, Reset!Step, Reset!Branch
<1>10. PollsKnow'
  BY <1>1, <1>2 DEF ResetIInv, PollsKnow, Reset!Polling, Posted, Underway,
     Reset!MailPending,
     Reset!PressStop, Reset!Step, Reset!Branch
<1>11. TriggerIsKnown'
  BY <1>1, <1>2 DEF ResetIInv, TriggerIsKnown, Reset!Triggering, Reset!PressStop,
     Reset!Step, Reset!Branch
<1>12. MailIsWhole'
  BY <1>1, <1>2 DEF ResetIInv, MailIsWhole, Reset!PressStop, Reset!Step, Reset!Branch
<1>13. EpochsAreOrdered'
  <2>1. rt' \notin Capturing  BY DEF Reset!PressStop, Reset!Step, Reset!Branch,
  Capturing, Reset!Triggering
  <2>2. evidence'.from < epoch'  BY <1>2
  <2> QED BY <1>1, <1>3, <2>1, <2>2 DEF EpochsAreOrdered
<1>14. OwedIsNew'
  BY <1>1, <1>2 DEF ResetIInv, OwedIsNew, Reset!PressStop, Reset!Step, Reset!Branch
<1>15. Reset!EvidenceKept'
  BY <1>1, <1>2 DEF ResetIInv, Reset!EvidenceKept, Reset!PressStop, Reset!Step, Reset!Branch
<1> QED BY <1>4, <1>5, <1>6, <1>7, <1>8, <1>9, <1>10, <1>11, <1>12, <1>13, <1>14,
   <1>15 DEF ResetIInv

(* The same question, before the action is completed. *)
LEMMA PressRecheckKeeps ==
  ASSUME ResetIInv, Reset!PressRecheck
  PROVE  ResetIInv'
<1>1. UNCHANGED <<resetPhase, word, acked, publishers, generation, epoch, mailbox, stop,
                  recovering, alarm, group, token, evidence, call, causal, kind, nc,
                  own, own_generation, claimed, authority, presses, incidents,
                  interrupted, clean, due>>
  BY DEF Reset!PressRecheck, Reset!authorityVars, Reset!mailVars, Reset!motionVars,
     Reset!scratch, Reset!elsewhere,
     Reset!callerVars, Reset!ncVars, Reset!alarmVars, Reset!Branch
<1>2. Reset!TypeOK'
  <2>1. rt' \in Reset!Applying \cup Reset!Pressing \cup Reset!Triggering \cup Reset!Passing
    BY <1>1 DEF ResetIInv, Reset!TypeOK, Reset!Applying, Reset!Pressing,
       Reset!Triggering, Reset!Passing, Reset!PressRecheck,
       Reset!Branch, Reset!Exact, Reset!Winner, Reset!MailPending
  <2> QED BY <1>1, <2>1 DEF ResetIInv, Reset!TypeOK
<1>3. PublishersAreCounted'
  BY <1>1 DEF ResetIInv, PublishersAreCounted, Publishing, Reset!Pressing, Reset!Triggering,
     Publishes, Reset!PressRecheck, Reset!Branch, Reset!Exact, Reset!Winner,
     Reset!MailPending
<1>4. ApplyIsFenced'
  BY <1>1 DEF ResetIInv, ApplyIsFenced, Reset!Applying, Reset!PressRecheck,
     Reset!Branch, Reset!Exact, Reset!Winner,
     Reset!MailPending
<1>5. CompletedIsPosted'
  <2>1. rt = "recheck" /\ rt' \in {"own action", "own abandon"}
    BY DEF Reset!PressRecheck, Reset!Branch
  <2>2. rt' = "own action" => publishers = 1  BY DEF Reset!PressRecheck, Reset!Branch,
  Reset!Exact
  <2>3. publishers = 1 => Posted  BY <2>1, NobodyCounted DEF ResetIInv, Reset!Pressing
  <2>4. Posted' = Posted  BY <1>1 DEF Posted
  <2> QED BY <2>1, <2>2, <2>3, <2>4 DEF CompletedIsPosted, Reset!Applying
<1>6. InterruptionIsUnderway'
  BY <1>1 DEF ResetIInv, InterruptionIsUnderway, Posted, Underway, Reset!MailPending,
     Reset!PressRecheck, Reset!Branch, Reset!Exact, Reset!Winner
<1>7. PollsKnow'
  BY <1>1 DEF ResetIInv, PollsKnow, Reset!Polling, Posted, Underway, Reset!MailPending,
     Reset!PressRecheck,
     Reset!Branch, Reset!Exact, Reset!Winner
<1>8. TriggerIsKnown'
  BY <1>1 DEF ResetIInv, TriggerIsKnown, Reset!Triggering, Reset!PressRecheck,
     Reset!Branch, Reset!Exact, Reset!Winner,
     Reset!MailPending
<1>9. MailIsWhole'
  BY <1>1 DEF ResetIInv, MailIsWhole, Reset!PressRecheck, Reset!Branch, Reset!Exact,
     Reset!Winner, Reset!MailPending
<1>10. EpochsAreOrdered'
  BY <1>1 DEF ResetIInv, EpochsAreOrdered, Capturing, Reset!Triggering,
     Reset!PressRecheck, Reset!Branch,
     Reset!Exact, Reset!Winner, Reset!MailPending
<1>11. OwedIsNew'
  BY <1>1 DEF ResetIInv, OwedIsNew, Reset!PressRecheck, Reset!Branch, Reset!Exact,
     Reset!Winner, Reset!MailPending
<1>12. /\ TicketsAreOrdered' /\ Reset!EvidenceKept'
  BY <1>1, TicketsAreOrderedFramed, EvidenceKeptFramed DEF ResetIInv
<1> QED BY <1>2, <1>3, <1>4, <1>5, <1>6, <1>7, <1>8, <1>9, <1>10, <1>11, <1>12 DEF ResetIInv

(* RT completes the action of the press. *)
LEMMA PressActionKeeps ==
  ASSUME ResetIInv, Reset!PressAction
  PROVE  ResetIInv'
<1>1. UNCHANGED <<resetPhase, acked, publishers, generation, epoch, mailbox, stop,
                  recovering, alarm, group, token, evidence, call, causal, kind, nc,
                  own, own_generation, claimed, authority, presses, incidents,
                  interrupted, clean, due>>
  BY DEF Reset!PressAction, Reset!mailVars, Reset!motionVars, Reset!scratch,
     Reset!elsewhere, Reset!callerVars, Reset!ncVars,
     Reset!alarmVars, Reset!Branch
<1>2. /\ word' \in Reset!OwnerWord /\ word'.ticket = word.ticket /\ word'.safety = word.safety
  BY CompleteActionFacts DEF ResetIInv, Reset!PressAction
<1>3. Reset!TypeOK'
  <2>1. word' \in Reset!OwnerWord
    BY <1>1, <1>2 DEF ResetIInv, Reset!TypeOK, Reset!PressAction, Reset!Branch
  <2>2. rt' \in Reset!Applying \cup Reset!Pressing \cup Reset!Triggering \cup Reset!Passing
    BY <1>1, <1>2 DEF ResetIInv, Reset!TypeOK, Reset!Applying, Reset!Pressing,
       Reset!Triggering, Reset!Passing,
       Reset!PressAction, Reset!Branch
  <2> QED BY <1>1, <2>1, <2>2 DEF ResetIInv, Reset!TypeOK
<1>4. PublishersAreCounted'
  BY <1>1, <1>2 DEF ResetIInv, PublishersAreCounted, Publishing, Reset!Pressing,
     Reset!Triggering,
     Publishes, Reset!PressAction, Reset!Branch
<1>5. TicketsAreOrdered'
  BY <1>1, <1>2 DEF ResetIInv, TicketsAreOrdered, Reset!PressAction, Reset!Branch
<1>6. ApplyIsFenced'
  BY <1>1, <1>2 DEF ResetIInv, ApplyIsFenced, Reset!Applying, Reset!PressAction,
     Reset!Branch
<1>7. CompletedIsPosted'
  BY <1>1, <1>2 DEF ResetIInv, CompletedIsPosted, Reset!Applying, Posted,
     Reset!PressAction, Reset!Branch
<1>8. InterruptionIsUnderway'
  BY <1>1, <1>2 DEF ResetIInv, InterruptionIsUnderway, Posted, Underway, Reset!MailPending,
     Reset!PressAction, Reset!Branch
<1>9. PollsKnow'
  BY <1>1, <1>2 DEF ResetIInv, PollsKnow, Reset!Polling, Posted, Underway,
     Reset!MailPending,
     Reset!PressAction, Reset!Branch
<1>10. TriggerIsKnown'
  BY <1>1, <1>2 DEF ResetIInv, TriggerIsKnown, Reset!Triggering, Reset!PressAction,
     Reset!Branch
<1>11. MailIsWhole'
  BY <1>1, <1>2 DEF ResetIInv, MailIsWhole, Reset!PressAction, Reset!Branch
<1>12. EpochsAreOrdered'
  BY <1>1, <1>2 DEF ResetIInv, EpochsAreOrdered, Capturing, Reset!Triggering,
     Reset!PressAction, Reset!Branch
<1>13. OwedIsNew'
  BY <1>1, <1>2 DEF ResetIInv, OwedIsNew, Reset!PressAction, Reset!Branch
<1>14. /\ Reset!EvidenceKept'
  BY <1>1, EvidenceKeptFramed DEF ResetIInv
<1> QED BY <1>3, <1>4, <1>5, <1>6, <1>7, <1>8, <1>9, <1>10, <1>11, <1>12, <1>13,
   <1>14 DEF ResetIInv

(* RT is no longer counted as a publisher. *)
LEMMA PressEndKeeps ==
  ASSUME ResetIInv, Reset!PressEnd
  PROVE  ResetIInv'
<1>1. UNCHANGED <<resetPhase, word, acked, generation, epoch, mailbox, stop, alarm, group,
                  token, evidence, call, causal, kind, nc, own, claimed, authority,
                  presses, incidents, interrupted, clean, due>>
  BY DEF Reset!PressEnd, Reset!mailVars, Reset!motionVars, Reset!elsewhere,
     Reset!callerVars, Reset!ncVars, Reset!alarmVars,
     Reset!Branch, Reset!Step
<1>2. /\ rt \in {"own end", "own abandon", "refuse end"}
      /\ rt \in Reset!Pressing \cup Reset!Triggering
      /\ rt' \in {"own ack", "authorize", "own contain", "help"}
      /\ rt' \notin Reset!Pressing \cup Reset!Triggering
      /\ recovering' = FALSE /\ own_generation' = 0
  BY DEF Reset!PressEnd, Reset!Step, Reset!Branch, Reset!Pressing, Reset!Triggering
<1>3. /\ publishers' = publishers - 1 /\ Cardinality(Publishing) \in Nat
      /\ publishers = Cardinality(Publishing) + 1
  <2>1. IsFiniteSet(Publishing) /\ Cardinality(Publishing) \in Nat
    BY NobodyCounted DEF ResetIInv, PublishersAreCounted
  <2>2. publishers = Cardinality(Publishing) + 1
    BY <1>2, NobodyCounted DEF ResetIInv
  <2> QED BY <2>1, <2>2 DEF Reset!PressEnd
<1>4. Reset!TypeOK'
  <2>1. publishers' \in Nat
    BY <1>3
  <2>2. recovering' \in BOOLEAN
    BY <1>1, <1>2, <1>3 DEF ResetIInv, Reset!TypeOK
  <2>3. rt' \in Reset!Applying \cup Reset!Pressing \cup Reset!Triggering \cup Reset!Passing
    BY <1>1, <1>2, <1>3 DEF ResetIInv, Reset!TypeOK, Reset!Applying, Reset!Pressing,
       Reset!Triggering, Reset!Passing
  <2>4. own_generation' \in Nat
    BY <1>1, <1>2, <1>3 DEF ResetIInv, Reset!TypeOK
  <2> QED BY <1>1, <2>1, <2>2, <2>3, <2>4 DEF ResetIInv, Reset!TypeOK
<1>5. PublishersAreCounted'
  <2>1. Publishing' = Publishing  BY <1>1 DEF Publishing, Publishes
  <2>2. IsFiniteSet(Publishing)  BY DEF ResetIInv, PublishersAreCounted
  <2>3. publishers' = Cardinality(Publishing)  BY <1>3
  <2>4. Cardinality(Publishing) \in Nat  BY <1>3
  <2>5. (IF rt' \in Reset!Pressing \cup Reset!Triggering THEN 1 ELSE 0) = 0  BY <1>2
  <2>6. publishers' = Cardinality(Publishing) + 0  BY <2>3, <2>4
  <2> QED BY <2>1, <2>2, <2>5, <2>6 DEF PublishersAreCounted
<1>6. ApplyIsFenced'
  BY <1>1, <1>2, <1>3 DEF ResetIInv, ApplyIsFenced, Reset!Applying
<1>7. CompletedIsPosted'
  BY <1>1, <1>2, <1>3 DEF ResetIInv, CompletedIsPosted, Reset!Applying, Posted
<1>8. InterruptionIsUnderway'
  BY <1>1, <1>2, <1>3 DEF ResetIInv, InterruptionIsUnderway, Posted, Underway,
     Reset!MailPending
<1>9. PollsKnow'
  BY <1>1, <1>2, <1>3 DEF ResetIInv, PollsKnow, Reset!Polling, Posted, Underway,
     Reset!MailPending
<1>10. TriggerIsKnown'
  BY <1>1, <1>2, <1>3 DEF ResetIInv, TriggerIsKnown, Reset!Triggering
<1>11. MailIsWhole'
  BY <1>1, <1>2, <1>3 DEF ResetIInv, MailIsWhole
<1>12. EpochsAreOrdered'
  BY <1>1, <1>2, <1>3 DEF ResetIInv, EpochsAreOrdered, Capturing, Reset!Triggering
<1>13. OwedIsNew'
  BY <1>1, <1>2, <1>3 DEF ResetIInv, OwedIsNew
<1>14. /\ TicketsAreOrdered' /\ Reset!EvidenceKept'
  BY <1>1, TicketsAreOrderedFramed, EvidenceKeptFramed DEF ResetIInv
<1> QED BY <1>4, <1>5, <1>6, <1>7, <1>8, <1>9, <1>10, <1>11, <1>12, <1>13,
   <1>14 DEF ResetIInv

(* A press that was overtaken is contained like an emergency stop. *)
LEMMA PressContainKeeps ==
  ASSUME ResetIInv, Reset!PressContain
  PROVE  ResetIInv'
<1>1. UNCHANGED <<acked, publishers, generation, mailbox, stop, recovering, alarm,
                  call, causal, kind, nc, own_generation, claimed, authority, presses,
                  incidents, interrupted, clean>>
  BY DEF Reset!PressContain, Reset!mailVars, Reset!scratch, Reset!elsewhere,
     Reset!callerVars, Reset!ncVars, Reset!alarmVars,
     Reset!Step, Reset!Branch
<1>2. Contained(TRUE, 0)
  <2>1. 0 \in Nat /\ 0 <= epoch  BY DEF ResetIInv, Reset!TypeOK
  <2>2. Reset!Contain(TRUE, 0, TRUE)  BY DEF Reset!PressContain
  <2> QED BY <2>1, <2>2, ContainFacts DEF ResetIInv
<1>3. /\ 0 < epoch' /\ evidence.from < epoch'
      /\ mailbox.epoch <= epoch' /\ claimed.epoch <= epoch'
      /\ \A u \in Reset!Caller : causal[u] <= epoch'
      /\ rt \in Capturing => own_generation # 0 /\ own_generation <= epoch'
  BY <1>2, EpochsGrow DEF ResetIInv, Contained
<1>4. Reset!TypeOK'
  <2>1. resetPhase' \in Reset!Phases
    BY <1>1, <1>2 DEF ResetIInv, Reset!TypeOK, Reset!Phases, Contained,
       Reset!PressContain, Reset!Step, Reset!Branch
  <2>2. word' \in Reset!OwnerWord
    BY <1>1, <1>2 DEF ResetIInv, Reset!TypeOK, Contained, Reset!PressContain,
       Reset!Step, Reset!Branch
  <2>3. epoch' \in Nat
    BY <1>1, <1>2 DEF ResetIInv, Reset!TypeOK, Contained, Reset!PressContain,
       Reset!Step, Reset!Branch
  <2>4. group' \in {"moving", "stopping", "converging", "still"}
    BY <1>1, <1>2 DEF ResetIInv, Reset!TypeOK, Contained, Reset!PressContain,
       Reset!Step, Reset!Branch
  <2>5. token' \in Nat
    BY <1>1, <1>2 DEF ResetIInv, Reset!TypeOK, Contained, Reset!PressContain,
       Reset!Step, Reset!Branch
  <2>6. evidence' \in [from : Nat, to : Nat]
    BY <1>1, <1>2 DEF ResetIInv, Reset!TypeOK, Contained, Reset!PressContain,
       Reset!Step, Reset!Branch
  <2>7. rt' \in Reset!Applying \cup Reset!Pressing \cup Reset!Triggering \cup Reset!Passing
    BY <1>1, <1>2 DEF ResetIInv, Reset!TypeOK, Reset!Applying, Reset!Pressing,
       Reset!Triggering, Reset!Passing,
       Contained, Reset!PressContain, Reset!Step, Reset!Branch
  <2>8. own' \in Nat
    BY <1>1, <1>2 DEF ResetIInv, Reset!TypeOK, Contained, Reset!PressContain,
       Reset!Step, Reset!Branch
  <2>9. due' \subseteq Nat
    BY <1>1, <1>2 DEF ResetIInv, Reset!TypeOK, Contained, Reset!PressContain,
       Reset!Step, Reset!Branch
  <2> QED BY <1>1, <2>1, <2>2, <2>3, <2>4, <2>5, <2>6, <2>7, <2>8, <2>9 DEF ResetIInv,
     Reset!TypeOK
<1>5. PublishersAreCounted'
  BY <1>1, <1>2 DEF ResetIInv, PublishersAreCounted, Publishing, Reset!Pressing,
     Reset!Triggering,
     Publishes, Contained, Reset!PressContain, Reset!Step, Reset!Branch
<1>6. TicketsAreOrdered'
  <2>1. acked' = acked /\ word'.ticket = word.ticket /\ own' = 0  BY <1>1,
  <1>2 DEF Contained, Reset!PressContain
  <2>2. acked \in Nat /\ word.ticket \in Nat /\ acked <= word.ticket
    BY FieldTypes DEF ResetIInv, Reset!TypeOK, TicketsAreOrdered
  <2> QED BY <2>1, <2>2 DEF TicketsAreOrdered
<1>7. ApplyIsFenced'
  BY <1>1, <1>2 DEF ResetIInv, ApplyIsFenced, Reset!Applying, Contained,
     Reset!PressContain, Reset!Step,
     Reset!Branch
<1>8. CompletedIsPosted'
  BY <1>1, <1>2 DEF ResetIInv, CompletedIsPosted, Reset!Applying, Posted, Contained,
     Reset!PressContain, Reset!Step, Reset!Branch
<1>9. InterruptionIsUnderway'
  BY <1>1, <1>2 DEF ResetIInv, InterruptionIsUnderway, Posted, Underway, Reset!MailPending,
     Contained, Reset!PressContain, Reset!Step, Reset!Branch
<1>10. PollsKnow'
  BY <1>1, <1>2 DEF ResetIInv, PollsKnow, Reset!Polling, Posted, Underway,
     Reset!MailPending,
     Contained, Reset!PressContain, Reset!Step, Reset!Branch
<1>11. TriggerIsKnown'
  BY <1>1, <1>2 DEF ResetIInv, TriggerIsKnown, Reset!Triggering, Contained,
     Reset!PressContain, Reset!Step,
     Reset!Branch
<1>12. MailIsWhole'
  BY <1>1, <1>2 DEF ResetIInv, MailIsWhole, Contained, Reset!PressContain, Reset!Step,
     Reset!Branch
<1>13. EpochsAreOrdered'
  <2>1. rt' \notin Capturing  BY DEF Reset!PressContain, Reset!Step, Reset!Branch,
  Capturing, Reset!Triggering
  <2>2. evidence'.from < epoch'  BY <1>2 DEF Contained
  <2> QED BY <1>1, <1>3, <2>1, <2>2 DEF EpochsAreOrdered
<1>14. OwedIsNew'
  BY <1>1, <1>2 DEF ResetIInv, OwedIsNew, Contained, Reset!PressContain, Reset!Step,
     Reset!Branch
<1>15. Reset!EvidenceKept'
  BY <1>1, <1>2 DEF ResetIInv, Reset!EvidenceKept, Contained, Reset!PressContain,
     Reset!Step, Reset!Branch
<1> QED BY <1>4, <1>5, <1>6, <1>7, <1>8, <1>9, <1>10, <1>11, <1>12, <1>13, <1>14,
   <1>15 DEF ResetIInv

(* The press is complete. *)
LEMMA PressCompleteKeeps ==
  ASSUME ResetIInv, Reset!PressComplete
  PROVE  ResetIInv'
<1>1. UNCHANGED <<word, acked, publishers, generation, epoch, mailbox, stop,
                  recovering, alarm, group, token, evidence, call, causal, kind, nc,
                  own, own_generation, claimed, authority, presses, incidents,
                  interrupted, clean, due>>
  BY DEF Reset!PressComplete, Reset!authorityVars, Reset!mailVars, Reset!motionVars,
     Reset!scratch, Reset!elsewhere,
     Reset!callerVars, Reset!ncVars, Reset!alarmVars, Reset!Step, Reset!Branch
<1>2. Reset!TypeOK'
  <2>1. resetPhase' \in Reset!Phases
    BY <1>1 DEF ResetIInv, Reset!TypeOK, Reset!Phases, Reset!PressComplete, Reset!Step,
       Reset!Completed, Reset!Branch
  <2>2. rt' \in Reset!Applying \cup Reset!Pressing \cup Reset!Triggering \cup Reset!Passing
    BY <1>1 DEF ResetIInv, Reset!TypeOK, Reset!Applying, Reset!Pressing,
       Reset!Triggering, Reset!Passing,
       Reset!PressComplete, Reset!Step, Reset!Completed, Reset!Branch
  <2> QED BY <1>1, <2>1, <2>2 DEF ResetIInv, Reset!TypeOK
<1>3. PublishersAreCounted'
  BY <1>1 DEF ResetIInv, PublishersAreCounted, Publishing, Reset!Pressing, Reset!Triggering,
     Publishes, Reset!PressComplete, Reset!Step, Reset!Completed, Reset!Branch
<1>4. ApplyIsFenced'
  BY <1>1 DEF ResetIInv, ApplyIsFenced, Reset!Applying, Reset!PressComplete,
     Reset!Step, Reset!Completed, Reset!Branch
<1>5. CompletedIsPosted'
  BY <1>1 DEF ResetIInv, CompletedIsPosted, Reset!Applying, Posted,
     Reset!PressComplete, Reset!Step,
     Reset!Completed, Reset!Branch
<1>6. InterruptionIsUnderway'
  BY <1>1 DEF ResetIInv, InterruptionIsUnderway, Posted, Underway, Reset!MailPending,
     Reset!PressComplete, Reset!Step, Reset!Completed, Reset!Branch
<1>7. PollsKnow'
  BY <1>1 DEF ResetIInv, PollsKnow, Reset!Polling, Posted, Underway, Reset!MailPending,
     Reset!PressComplete, Reset!Step, Reset!Completed, Reset!Branch
<1>8. TriggerIsKnown'
  BY <1>1 DEF ResetIInv, TriggerIsKnown, Reset!Triggering, Reset!PressComplete,
     Reset!Step, Reset!Completed, Reset!Branch
<1>9. MailIsWhole'
  BY <1>1 DEF ResetIInv, MailIsWhole, Reset!PressComplete, Reset!Step, Reset!Completed,
     Reset!Branch
<1>10. EpochsAreOrdered'
  BY <1>1 DEF ResetIInv, EpochsAreOrdered, Capturing, Reset!Triggering,
     Reset!PressComplete, Reset!Step,
     Reset!Completed, Reset!Branch
<1>11. OwedIsNew'
  BY <1>1 DEF ResetIInv, OwedIsNew, Reset!PressComplete, Reset!Step, Reset!Completed,
     Reset!Branch
<1>12. /\ TicketsAreOrdered' /\ Reset!EvidenceKept'
  BY <1>1, TicketsAreOrderedFramed, EvidenceKeptFramed DEF ResetIInv
<1> QED BY <1>2, <1>3, <1>4, <1>5, <1>6, <1>7, <1>8, <1>9, <1>10, <1>11, <1>12 DEF ResetIInv

(* May the group decelerate? *)
LEMMA PressAuthorizeKeeps ==
  ASSUME ResetIInv, Reset!PressAuthorize
  PROVE  ResetIInv'
<1>1. UNCHANGED <<word, acked, publishers, generation, epoch, mailbox, stop,
                  recovering, alarm, group, token, evidence, call, causal, kind, nc,
                  own_generation, claimed, authority, presses, incidents,
                  interrupted, clean, due>>
  BY DEF Reset!PressAuthorize, Reset!authorityVars, Reset!mailVars, Reset!motionVars,
     Reset!scratch, Reset!elsewhere,
     Reset!callerVars, Reset!ncVars, Reset!alarmVars, Reset!Branch
<1>2. Reset!TypeOK'
  <2>1. resetPhase' \in Reset!Phases
    BY <1>1 DEF ResetIInv, Reset!TypeOK, Reset!Phases, Reset!PressAuthorize,
       Reset!Branch, Reset!Authorized, Reset!Supersede,
       Reset!MailPending
  <2>2. rt' \in Reset!Applying \cup Reset!Pressing \cup Reset!Triggering \cup Reset!Passing
    BY <1>1 DEF ResetIInv, Reset!TypeOK, Reset!Applying, Reset!Pressing,
       Reset!Triggering, Reset!Passing,
       Reset!PressAuthorize, Reset!Branch, Reset!Authorized, Reset!Supersede,
       Reset!MailPending
  <2>3. own' \in Nat
    BY <1>1 DEF ResetIInv, Reset!TypeOK, Reset!PressAuthorize, Reset!Branch,
       Reset!Authorized, Reset!Supersede,
       Reset!MailPending
  <2> QED BY <1>1, <2>1, <2>2, <2>3 DEF ResetIInv, Reset!TypeOK
<1>3. PublishersAreCounted'
  BY <1>1 DEF ResetIInv, PublishersAreCounted, Publishing, Reset!Pressing, Reset!Triggering,
     Publishes, Reset!PressAuthorize, Reset!Branch, Reset!Authorized, Reset!Supersede,
     Reset!MailPending
<1>4. TicketsAreOrdered'
  <2>1. acked' = acked /\ word'.ticket = word.ticket /\ own' = 0  BY <1>1 DEF Reset!PressAuthorize
  <2>2. acked \in Nat /\ word.ticket \in Nat /\ acked <= word.ticket
    BY FieldTypes DEF ResetIInv, Reset!TypeOK, TicketsAreOrdered
  <2> QED BY <2>1, <2>2 DEF TicketsAreOrdered
<1>5. ApplyIsFenced'
  BY <1>1 DEF ResetIInv, ApplyIsFenced, Reset!Applying, Reset!PressAuthorize,
     Reset!Branch, Reset!Authorized,
     Reset!Supersede, Reset!MailPending
<1>6. CompletedIsPosted'
  BY <1>1 DEF ResetIInv, CompletedIsPosted, Reset!Applying, Posted,
     Reset!PressAuthorize, Reset!Branch,
     Reset!Authorized, Reset!Supersede, Reset!MailPending
<1>7. InterruptionIsUnderway'
  BY <1>1 DEF ResetIInv, InterruptionIsUnderway, Posted, Underway, Reset!MailPending,
     Reset!PressAuthorize, Reset!Branch, Reset!Authorized, Reset!Supersede
<1>8. PollsKnow'
  BY <1>1 DEF ResetIInv, PollsKnow, Reset!Polling, Posted, Underway, Reset!MailPending,
     Reset!PressAuthorize, Reset!Branch, Reset!Authorized, Reset!Supersede
<1>9. TriggerIsKnown'
  BY <1>1 DEF ResetIInv, TriggerIsKnown, Reset!Triggering, Reset!PressAuthorize,
     Reset!Branch, Reset!Authorized,
     Reset!Supersede, Reset!MailPending
<1>10. MailIsWhole'
  BY <1>1 DEF ResetIInv, MailIsWhole, Reset!PressAuthorize, Reset!Branch,
     Reset!Authorized, Reset!Supersede,
     Reset!MailPending
<1>11. EpochsAreOrdered'
  BY <1>1 DEF ResetIInv, EpochsAreOrdered, Capturing, Reset!Triggering,
     Reset!PressAuthorize, Reset!Branch,
     Reset!Authorized, Reset!Supersede, Reset!MailPending
<1>12. OwedIsNew'
  BY <1>1 DEF ResetIInv, OwedIsNew, Reset!PressAuthorize, Reset!Branch,
     Reset!Authorized, Reset!Supersede,
     Reset!MailPending
<1>13. /\ Reset!EvidenceKept'
  BY <1>1, EvidenceKeptFramed DEF ResetIInv
<1> QED BY <1>2, <1>3, <1>4, <1>5, <1>6, <1>7, <1>8, <1>9, <1>10, <1>11, <1>12,
   <1>13 DEF ResetIInv

(* The reference of axis X is lost: the press is retired. *)
LEMMA PressRetireKeeps ==
  ASSUME ResetIInv, Reset!PressRetire
  PROVE  ResetIInv'
<1>1. UNCHANGED <<word, acked, publishers, generation, epoch, mailbox, stop,
                  recovering, alarm, group, token, evidence, call, causal, kind, nc,
                  own, own_generation, claimed, authority, presses, interrupted,
                  clean, due>>
  BY DEF Reset!PressRetire, Reset!authorityVars, Reset!mailVars, Reset!motionVars,
     Reset!scratch, Reset!callerVars, Reset!ncVars,
     Reset!Step, Reset!Branch
<1>2. Reset!TypeOK'
  <2>1. resetPhase' \in Reset!Phases
    BY <1>1 DEF ResetIInv, Reset!TypeOK, Reset!Phases, Reset!PressRetire, Reset!Step,
       Reset!Supersede, Reset!Branch
  <2>2. rt' \in Reset!Applying \cup Reset!Pressing \cup Reset!Triggering \cup Reset!Passing
    BY <1>1 DEF ResetIInv, Reset!TypeOK, Reset!Applying, Reset!Pressing,
       Reset!Triggering, Reset!Passing, Reset!PressRetire,
       Reset!Step, Reset!Supersede, Reset!Branch
  <2> QED BY <1>1, <2>1, <2>2 DEF ResetIInv, Reset!TypeOK
<1>3. PublishersAreCounted'
  BY <1>1 DEF ResetIInv, PublishersAreCounted, Publishing, Reset!Pressing, Reset!Triggering,
     Publishes, Reset!PressRetire, Reset!Step, Reset!Supersede, Reset!Branch
<1>4. ApplyIsFenced'
  BY <1>1 DEF ResetIInv, ApplyIsFenced, Reset!Applying, Reset!PressRetire, Reset!Step,
     Reset!Supersede, Reset!Branch
<1>5. CompletedIsPosted'
  BY <1>1 DEF ResetIInv, CompletedIsPosted, Reset!Applying, Posted, Reset!PressRetire,
     Reset!Step, Reset!Supersede,
     Reset!Branch
<1>6. InterruptionIsUnderway'
  BY <1>1 DEF ResetIInv, InterruptionIsUnderway, Posted, Underway, Reset!MailPending,
     Reset!PressRetire,
     Reset!Step, Reset!Supersede, Reset!Branch
<1>7. PollsKnow'
  BY <1>1 DEF ResetIInv, PollsKnow, Reset!Polling, Posted, Underway, Reset!MailPending,
     Reset!PressRetire,
     Reset!Step, Reset!Supersede, Reset!Branch
<1>8. TriggerIsKnown'
  BY <1>1 DEF ResetIInv, TriggerIsKnown, Reset!Triggering, Reset!PressRetire, Reset!Step,
     Reset!Supersede, Reset!Branch
<1>9. MailIsWhole'
  BY <1>1 DEF ResetIInv, MailIsWhole, Reset!PressRetire, Reset!Step, Reset!Supersede,
     Reset!Branch
<1>10. EpochsAreOrdered'
  BY <1>1 DEF ResetIInv, EpochsAreOrdered, Capturing, Reset!Triggering, Reset!PressRetire,
     Reset!Step,
     Reset!Supersede, Reset!Branch
<1>11. OwedIsNew'
  BY <1>1 DEF ResetIInv, OwedIsNew, Reset!PressRetire, Reset!Step, Reset!Supersede, Reset!Branch
<1>12. /\ TicketsAreOrdered' /\ Reset!EvidenceKept'
  BY <1>1, TicketsAreOrderedFramed, EvidenceKeptFramed DEF ResetIInv
<1> QED BY <1>2, <1>3, <1>4, <1>5, <1>6, <1>7, <1>8, <1>9, <1>10, <1>11, <1>12 DEF ResetIInv

(* The group decelerates. *)
LEMMA PressActivateKeeps ==
  ASSUME ResetIInv, Reset!PressActivate
  PROVE  ResetIInv'
<1>1. UNCHANGED <<word, acked, publishers, generation, epoch, mailbox, stop,
                  recovering, alarm, group, token, evidence, call, causal, kind, nc,
                  own, own_generation, claimed, authority, presses, incidents,
                  interrupted, clean, due>>
  BY DEF Reset!PressActivate, Reset!authorityVars, Reset!mailVars, Reset!motionVars,
     Reset!scratch, Reset!elsewhere,
     Reset!callerVars, Reset!ncVars, Reset!alarmVars, Reset!Step, Reset!Branch
<1>2. Reset!TypeOK'
  <2>1. resetPhase' \in Reset!Phases
    BY <1>1 DEF ResetIInv, Reset!TypeOK, Reset!Phases, Reset!PressActivate, Reset!Step,
       Reset!Branch
  <2>2. rt' \in Reset!Applying \cup Reset!Pressing \cup Reset!Triggering \cup Reset!Passing
    BY <1>1 DEF ResetIInv, Reset!TypeOK, Reset!Applying, Reset!Pressing,
       Reset!Triggering, Reset!Passing,
       Reset!PressActivate, Reset!Step, Reset!Branch
  <2> QED BY <1>1, <2>1, <2>2 DEF ResetIInv, Reset!TypeOK
<1>3. PublishersAreCounted'
  BY <1>1 DEF ResetIInv, PublishersAreCounted, Publishing, Reset!Pressing, Reset!Triggering,
     Publishes, Reset!PressActivate, Reset!Step, Reset!Branch
<1>4. ApplyIsFenced'
  BY <1>1 DEF ResetIInv, ApplyIsFenced, Reset!Applying, Reset!PressActivate,
     Reset!Step, Reset!Branch
<1>5. CompletedIsPosted'
  BY <1>1 DEF ResetIInv, CompletedIsPosted, Reset!Applying, Posted,
     Reset!PressActivate, Reset!Step, Reset!Branch
<1>6. InterruptionIsUnderway'
  BY <1>1 DEF ResetIInv, InterruptionIsUnderway, Posted, Underway, Reset!MailPending,
     Reset!PressActivate, Reset!Step, Reset!Branch
<1>7. PollsKnow'
  BY <1>1 DEF ResetIInv, PollsKnow, Reset!Polling, Posted, Underway, Reset!MailPending,
     Reset!PressActivate, Reset!Step, Reset!Branch
<1>8. TriggerIsKnown'
  BY <1>1 DEF ResetIInv, TriggerIsKnown, Reset!Triggering, Reset!PressActivate,
     Reset!Step, Reset!Branch
<1>9. MailIsWhole'
  BY <1>1 DEF ResetIInv, MailIsWhole, Reset!PressActivate, Reset!Step, Reset!Branch
<1>10. EpochsAreOrdered'
  BY <1>1 DEF ResetIInv, EpochsAreOrdered, Capturing, Reset!Triggering,
     Reset!PressActivate, Reset!Step,
     Reset!Branch
<1>11. OwedIsNew'
  BY <1>1 DEF ResetIInv, OwedIsNew, Reset!PressActivate, Reset!Step, Reset!Branch
<1>12. /\ TicketsAreOrdered' /\ Reset!EvidenceKept'
  BY <1>1, TicketsAreOrderedFramed, EvidenceKeptFramed DEF ResetIInv
<1> QED BY <1>2, <1>3, <1>4, <1>5, <1>6, <1>7, <1>8, <1>9, <1>10, <1>11, <1>12 DEF ResetIInv

(* RT finds an axis mapping lost: the press is superseded. *)
LEMMA TriggerKeeps ==
  ASSUME ResetIInv, Reset!Trigger
  PROVE  ResetIInv'
<1>1. UNCHANGED <<word, acked, publishers, generation, epoch, mailbox, stop,
                  recovering, alarm, group, token, evidence, call, causal, kind, nc,
                  own, own_generation, claimed, authority, presses, interrupted,
                  clean, due>>
  BY DEF Reset!Trigger, Reset!authorityVars, Reset!mailVars, Reset!motionVars,
     Reset!scratch, Reset!callerVars, Reset!ncVars,
     Reset!Step, Reset!Branch
<1>2. Reset!TypeOK'
  <2>1. resetPhase' \in Reset!Phases
    BY <1>1 DEF ResetIInv, Reset!TypeOK, Reset!Phases, Reset!Trigger, Reset!Step,
       Reset!Supersede, Reset!Branch
  <2>2. rt' \in Reset!Applying \cup Reset!Pressing \cup Reset!Triggering \cup Reset!Passing
    BY <1>1 DEF ResetIInv, Reset!TypeOK, Reset!Applying, Reset!Pressing,
       Reset!Triggering, Reset!Passing, Reset!Trigger,
       Reset!Step, Reset!Supersede, Reset!Branch
  <2> QED BY <1>1, <2>1, <2>2 DEF ResetIInv, Reset!TypeOK
<1>3. PublishersAreCounted'
  BY <1>1 DEF ResetIInv, PublishersAreCounted, Publishing, Reset!Pressing, Reset!Triggering,
     Publishes, Reset!Trigger, Reset!Step, Reset!Supersede, Reset!Branch
<1>4. ApplyIsFenced'
  BY <1>1 DEF ResetIInv, ApplyIsFenced, Reset!Applying, Reset!Trigger, Reset!Step,
     Reset!Supersede, Reset!Branch
<1>5. CompletedIsPosted'
  BY <1>1 DEF ResetIInv, CompletedIsPosted, Reset!Applying, Posted, Reset!Trigger,
     Reset!Step, Reset!Supersede,
     Reset!Branch
<1>6. InterruptionIsUnderway'
  BY <1>1 DEF ResetIInv, InterruptionIsUnderway, Posted, Underway, Reset!MailPending,
     Reset!Trigger,
     Reset!Step, Reset!Supersede, Reset!Branch
<1>7. PollsKnow'
  BY <1>1 DEF ResetIInv, PollsKnow, Reset!Polling, Posted, Underway, Reset!MailPending,
     Reset!Trigger,
     Reset!Step, Reset!Supersede, Reset!Branch
<1>8. TriggerIsKnown'
  BY <1>1 DEF ResetIInv, TriggerIsKnown, Reset!Triggering, Reset!Trigger, Reset!Step,
     Reset!Supersede, Reset!Branch
<1>9. MailIsWhole'
  BY <1>1 DEF ResetIInv, MailIsWhole, Reset!Trigger, Reset!Step, Reset!Supersede,
     Reset!Branch
<1>10. EpochsAreOrdered'
  BY <1>1 DEF ResetIInv, EpochsAreOrdered, Capturing, Reset!Triggering, Reset!Trigger,
     Reset!Step,
     Reset!Supersede, Reset!Branch
<1>11. OwedIsNew'
  BY <1>1 DEF ResetIInv, OwedIsNew, Reset!Trigger, Reset!Step, Reset!Supersede, Reset!Branch
<1>12. /\ TicketsAreOrdered' /\ Reset!EvidenceKept'
  BY <1>1, TicketsAreOrderedFramed, EvidenceKeptFramed DEF ResetIInv
<1> QED BY <1>2, <1>3, <1>4, <1>5, <1>6, <1>7, <1>8, <1>9, <1>10, <1>11, <1>12 DEF ResetIInv

(* RT counts itself as a publisher. *)
LEMMA TriggerBeginKeeps ==
  ASSUME ResetIInv, Reset!TriggerBegin
  PROVE  ResetIInv'
<1>1. UNCHANGED <<resetPhase, word, acked, epoch, mailbox, stop, recovering, alarm, group,
                  token, evidence, call, causal, kind, nc, own, own_generation,
                  claimed, authority, presses, incidents, interrupted, clean, due>>
  BY DEF Reset!TriggerBegin, Reset!mailVars, Reset!motionVars, Reset!scratch,
     Reset!elsewhere, Reset!callerVars, Reset!ncVars,
     Reset!alarmVars, Reset!Step, Reset!Branch
<1>2. /\ rt = "trigger begin" /\ rt \notin Reset!Pressing \cup Reset!Triggering
      /\ rt' = "trigger ticket" /\ rt' \in Reset!Pressing \cup Reset!Triggering
  BY DEF Reset!TriggerBegin, Reset!Step, Reset!Branch, Reset!Pressing, Reset!Triggering
<1>3. /\ publishers' = publishers + 1 /\ Cardinality(Publishing) \in Nat
      /\ publishers = Cardinality(Publishing)
  <2>1. IsFiniteSet(Publishing) /\ Cardinality(Publishing) \in Nat
    BY NobodyCounted DEF ResetIInv, PublishersAreCounted
  <2>2. publishers = Cardinality(Publishing)
    BY <1>2, NobodyCounted DEF ResetIInv
  <2> QED BY <2>1, <2>2 DEF Reset!TriggerBegin
<1>4. Reset!TypeOK'
  <2>1. publishers' \in Nat
    BY <1>3
  <2>2. generation' \in Nat
    <3>1. generation \in Nat  BY DEF ResetIInv, Reset!TypeOK
    <3>2. generation' = generation + 1  BY DEF Reset!TriggerBegin
    <3> QED BY <3>1, <3>2
  <2>3. rt' \in Reset!Applying \cup Reset!Pressing \cup Reset!Triggering \cup Reset!Passing
    BY <1>1, <1>2, <1>3 DEF ResetIInv, Reset!TypeOK, Reset!Applying, Reset!Pressing,
       Reset!Triggering, Reset!Passing
  <2> QED BY <1>1, <2>1, <2>2, <2>3 DEF ResetIInv, Reset!TypeOK
<1>5. PublishersAreCounted'
  <2>1. Publishing' = Publishing  BY <1>1 DEF Publishing, Publishes
  <2>2. IsFiniteSet(Publishing)  BY DEF ResetIInv, PublishersAreCounted
  <2>3. publishers' = Cardinality(Publishing) + 1  BY <1>3
  <2> QED BY <1>2, <2>1, <2>2, <2>3 DEF PublishersAreCounted
<1>6. ApplyIsFenced'
  BY <1>1, <1>2, <1>3 DEF ResetIInv, ApplyIsFenced, Reset!Applying
<1>7. CompletedIsPosted'
  BY <1>1, <1>2, <1>3 DEF ResetIInv, CompletedIsPosted, Reset!Applying, Posted
<1>8. InterruptionIsUnderway'
  BY <1>1, <1>2, <1>3 DEF ResetIInv, InterruptionIsUnderway, Posted, Underway,
     Reset!MailPending
<1>9. PollsKnow'
  BY <1>1, <1>2, <1>3 DEF ResetIInv, PollsKnow, Reset!Polling, Posted, Underway,
     Reset!MailPending
<1>10. TriggerIsKnown'
  BY <1>1, <1>2, <1>3 DEF ResetIInv, TriggerIsKnown, Reset!Triggering
<1>11. MailIsWhole'
  BY <1>1, <1>2, <1>3 DEF ResetIInv, MailIsWhole
<1>12. EpochsAreOrdered'
  BY <1>1, <1>2, <1>3 DEF ResetIInv, EpochsAreOrdered, Capturing, Reset!Triggering
<1>13. OwedIsNew'
  BY <1>1, <1>2, <1>3 DEF ResetIInv, OwedIsNew
<1>14. /\ TicketsAreOrdered' /\ Reset!EvidenceKept'
  BY <1>1, TicketsAreOrderedFramed, EvidenceKeptFramed DEF ResetIInv
<1> QED BY <1>4, <1>5, <1>6, <1>7, <1>8, <1>9, <1>10, <1>11, <1>12, <1>13,
   <1>14 DEF ResetIInv

(* RT publishes a ticket and keeps the epoch. *)
LEMMA TriggerTicketKeeps ==
  ASSUME ResetIInv, Reset!TriggerTicket
  PROVE  ResetIInv'
<1>1. UNCHANGED <<resetPhase, acked, publishers, generation, epoch, mailbox, stop,
                  recovering, alarm, group, token, evidence, call, causal, kind, nc,
                  claimed, authority, presses, incidents, clean, due>>
  BY DEF Reset!TriggerTicket, Reset!mailVars, Reset!motionVars, Reset!callerVars,
     Reset!ncVars, Reset!alarmVars, Reset!Step,
     Reset!Branch
<1>2. /\ word' \in Reset!OwnerWord /\ word'.ticket = word.ticket + 1 /\ word'.safety = word.safety
      /\ own' = word.ticket + 1
  BY NextTicketFacts, FieldTypes DEF ResetIInv, Reset!TypeOK, Reset!TriggerTicket
<1>3. /\ word'.ticket = word.ticket + 1 /\ word.ticket \in Nat
      /\ acked \in Nat /\ acked <= word.ticket /\ own \in Nat /\ own <= word.ticket
  BY <1>2, FieldTypes DEF ResetIInv, Reset!TypeOK, TicketsAreOrdered
<1>4. Reset!TypeOK'
  <2>1. word' \in Reset!OwnerWord
    BY <1>1, <1>2, <1>3 DEF ResetIInv, Reset!TypeOK, Reset!TriggerTicket, Reset!Step,
       Reset!Branch
  <2>2. rt' \in Reset!Applying \cup Reset!Pressing \cup Reset!Triggering \cup Reset!Passing
    BY <1>1, <1>2, <1>3 DEF ResetIInv, Reset!TypeOK, Reset!Applying, Reset!Pressing,
       Reset!Triggering, Reset!Passing,
       Reset!TriggerTicket, Reset!Step, Reset!Branch
  <2>3. own' \in Nat
    <3>1. own' = word.ticket + 1  BY <1>2
    <3> QED BY <1>3, <3>1
  <2>4. own_generation' \in Nat
    BY <1>1, <1>2, <1>3 DEF ResetIInv, Reset!TypeOK, Reset!TriggerTicket, Reset!Step,
       Reset!Branch
  <2>5. interrupted' \in BOOLEAN
    BY <1>1, <1>2, <1>3 DEF ResetIInv, Reset!TypeOK, Reset!TriggerTicket, Reset!Step,
       Reset!Branch
  <2> QED BY <1>1, <2>1, <2>2, <2>3, <2>4, <2>5 DEF ResetIInv, Reset!TypeOK
<1>5. PublishersAreCounted'
  BY <1>1, <1>2, <1>3 DEF ResetIInv, PublishersAreCounted, Publishing, Reset!Pressing,
     Reset!Triggering, Publishes, Reset!TriggerTicket, Reset!Step, Reset!Branch
<1>6. TicketsAreOrdered'
  <2>1. acked' = acked /\ own' = word.ticket + 1  BY <1>1, <1>2
  <2> QED BY <1>3, <2>1 DEF TicketsAreOrdered
<1>7. ApplyIsFenced'
  BY <1>1, <1>2, <1>3 DEF ResetIInv, ApplyIsFenced, Reset!Applying,
     Reset!TriggerTicket, Reset!Step, Reset!Branch
<1>8. CompletedIsPosted'
  BY <1>1, <1>2, <1>3 DEF ResetIInv, CompletedIsPosted, Reset!Applying, Posted,
     Reset!TriggerTicket,
     Reset!Step, Reset!Branch
<1>9. InterruptionIsUnderway'
  BY <1>1, <1>2, <1>3 DEF ResetIInv, InterruptionIsUnderway, Posted, Underway,
     Reset!MailPending, Reset!TriggerTicket, Reset!Step, Reset!Branch
<1>10. PollsKnow'
  BY <1>1, <1>2, <1>3 DEF ResetIInv, PollsKnow, Reset!Polling, Posted, Underway,
     Reset!MailPending,
     Reset!TriggerTicket, Reset!Step, Reset!Branch
<1>11. TriggerIsKnown'
  BY <1>1, <1>2, <1>3 DEF ResetIInv, TriggerIsKnown, Reset!Triggering,
     Reset!TriggerTicket, Reset!Step,
     Reset!Branch
<1>12. MailIsWhole'
  BY <1>1, <1>2, <1>3 DEF ResetIInv, MailIsWhole, Reset!TriggerTicket, Reset!Step,
     Reset!Branch
<1>13. EpochsAreOrdered'
  <2>1. own_generation' = epoch  BY DEF Reset!TriggerTicket
  <2>2. epoch \in Nat /\ 0 < epoch  BY DEF ResetIInv, Reset!TypeOK, EpochsAreOrdered
  <2> QED BY <1>1, <2>1, <2>2 DEF ResetIInv, EpochsAreOrdered
<1>14. OwedIsNew'
  <2>1. own_generation' = epoch  BY DEF Reset!TriggerTicket
  <2>2. epoch \in Nat /\ evidence.from \in Nat /\ evidence.from < epoch
    BY FieldTypes DEF ResetIInv, Reset!TypeOK, EpochsAreOrdered
  <2>3. epoch # evidence.from  BY <2>2
  <2> QED BY <1>1, <2>1, <2>3 DEF ResetIInv, OwedIsNew
<1>15. /\ Reset!EvidenceKept'
  BY <1>1, EvidenceKeptFramed DEF ResetIInv
<1> QED BY <1>4, <1>5, <1>6, <1>7, <1>8, <1>9, <1>10, <1>11, <1>12, <1>13, <1>14,
   <1>15 DEF ResetIInv

(* The alarm is on its way. *)
LEMMA TriggerAlarmKeeps ==
  ASSUME ResetIInv, Reset!TriggerAlarm
  PROVE  ResetIInv'
<1>1. UNCHANGED <<resetPhase, word, acked, publishers, generation, epoch, mailbox, stop,
                  recovering, group, token, evidence, call, causal, kind, nc, own,
                  own_generation, claimed, authority, presses, incidents,
                  interrupted, clean, due>>
  BY DEF Reset!TriggerAlarm, Reset!authorityVars, Reset!mailVars, Reset!motionVars,
     Reset!scratch, Reset!callerVars,
     Reset!ncVars, Reset!Step, Reset!Branch
<1>2. Reset!TypeOK'
  <2>1. alarm' \in {"none", "pending", "raised"}
    BY <1>1 DEF ResetIInv, Reset!TypeOK, Reset!TriggerAlarm, Reset!Step, Reset!Branch
  <2>2. rt' \in Reset!Applying \cup Reset!Pressing \cup Reset!Triggering \cup Reset!Passing
    BY <1>1 DEF ResetIInv, Reset!TypeOK, Reset!Applying, Reset!Pressing,
       Reset!Triggering, Reset!Passing, Reset!TriggerAlarm,
       Reset!Step, Reset!Branch
  <2> QED BY <1>1, <2>1, <2>2 DEF ResetIInv, Reset!TypeOK
<1>3. PublishersAreCounted'
  BY <1>1 DEF ResetIInv, PublishersAreCounted, Publishing, Reset!Pressing, Reset!Triggering,
     Publishes, Reset!TriggerAlarm, Reset!Step, Reset!Branch
<1>4. ApplyIsFenced'
  BY <1>1 DEF ResetIInv, ApplyIsFenced, Reset!Applying, Reset!TriggerAlarm, Reset!Step,
     Reset!Branch
<1>5. CompletedIsPosted'
  BY <1>1 DEF ResetIInv, CompletedIsPosted, Reset!Applying, Posted, Reset!TriggerAlarm,
     Reset!Step, Reset!Branch
<1>6. InterruptionIsUnderway'
  BY <1>1 DEF ResetIInv, InterruptionIsUnderway, Posted, Underway, Reset!MailPending,
     Reset!TriggerAlarm, Reset!Step, Reset!Branch
<1>7. PollsKnow'
  BY <1>1 DEF ResetIInv, PollsKnow, Reset!Polling, Posted, Underway, Reset!MailPending,
     Reset!TriggerAlarm,
     Reset!Step, Reset!Branch
<1>8. TriggerIsKnown'
  BY <1>1 DEF ResetIInv, TriggerIsKnown, Reset!Triggering, Reset!TriggerAlarm,
     Reset!Step, Reset!Branch
<1>9. MailIsWhole'
  BY <1>1 DEF ResetIInv, MailIsWhole, Reset!TriggerAlarm, Reset!Step, Reset!Branch
<1>10. EpochsAreOrdered'
  BY <1>1 DEF ResetIInv, EpochsAreOrdered, Capturing, Reset!Triggering,
     Reset!TriggerAlarm, Reset!Step,
     Reset!Branch
<1>11. OwedIsNew'
  BY <1>1 DEF ResetIInv, OwedIsNew, Reset!TriggerAlarm, Reset!Step, Reset!Branch
<1>12. /\ TicketsAreOrdered' /\ Reset!EvidenceKept'
  BY <1>1, TicketsAreOrderedFramed, EvidenceKeptFramed DEF ResetIInv
<1> QED BY <1>2, <1>3, <1>4, <1>5, <1>6, <1>7, <1>8, <1>9, <1>10, <1>11, <1>12 DEF ResetIInv

(* RT takes motion over, or fails to. *)
LEMMA TriggerTakeKeeps ==
  ASSUME ResetIInv, Reset!TriggerTake
  PROVE  ResetIInv'
<1>1. UNCHANGED <<resetPhase, acked, publishers, generation, mailbox, stop, recovering,
                  alarm, group, token, evidence, call, causal, kind, nc, own,
                  own_generation, claimed, presses, incidents, interrupted, clean,
                  due>>
  BY DEF Reset!TriggerTake, Reset!mailVars, Reset!motionVars, Reset!elsewhere,
     Reset!callerVars, Reset!ncVars,
     Reset!alarmVars, Reset!Step, Reset!Branch
<1>2. /\ word' \in Reset!OwnerWord /\ word'.ticket = word.ticket /\ word'.action = word.action
      /\ word.safety => word'.safety
      /\ epoch' \in Nat /\ epoch <= epoch'
      /\ rt = "trigger take"
      /\ \/ rt' = "trigger claim" /\ authority' = TRUE
         \/ rt' = "trigger post" /\ authority' = FALSE
  <2>1. CASE Reset!TakeSafety /\ Reset!Step("trigger take", "trigger claim") /\ authority' = TRUE
    BY <2>1, TakeSafetyFacts DEF ResetIInv, Reset!Step, Reset!Branch
  <2>2. CASE /\ Reset!Step("trigger take", "trigger post") /\ authority' = FALSE
             /\ UNCHANGED <<word, epoch>>
    <3>1. /\ word \in Reset!OwnerWord /\ epoch \in Nat /\ word' = word /\ epoch' = epoch
      BY <2>2 DEF ResetIInv, Reset!TypeOK
    <3>2. rt = "trigger take" /\ rt' = "trigger post" /\ authority' = FALSE
      BY <2>2 DEF Reset!Step, Reset!Branch
    <3>3. epoch' \in Nat /\ epoch <= epoch'  BY <3>1
    <3>4. word.safety => word'.safety  BY <3>1
    <3> QED BY <3>1, <3>2, <3>3, <3>4
  <2> QED BY <2>1, <2>2 DEF Reset!TriggerTake
<1>3. /\ 0 < epoch' /\ evidence.from < epoch'
      /\ mailbox.epoch <= epoch' /\ claimed.epoch <= epoch'
      /\ \A u \in Reset!Caller : causal[u] <= epoch'
      /\ rt \in Capturing => own_generation # 0 /\ own_generation <= epoch'
  BY <1>2, EpochsGrow DEF ResetIInv
<1>4. Reset!TypeOK'
  <2>1. word' \in Reset!OwnerWord
    BY <1>1, <1>2 DEF ResetIInv, Reset!TypeOK
  <2>2. epoch' \in Nat
    BY <1>1, <1>2 DEF ResetIInv, Reset!TypeOK
  <2>3. rt' \in Reset!Applying \cup Reset!Pressing \cup Reset!Triggering \cup Reset!Passing
    BY <1>1, <1>2 DEF ResetIInv, Reset!TypeOK, Reset!Applying, Reset!Pressing,
       Reset!Triggering, Reset!Passing
  <2>4. authority' \in BOOLEAN
    BY <1>1, <1>2 DEF ResetIInv, Reset!TypeOK
  <2> QED BY <1>1, <2>1, <2>2, <2>3, <2>4 DEF ResetIInv, Reset!TypeOK
<1>5. PublishersAreCounted'
  BY <1>1, <1>2 DEF ResetIInv, PublishersAreCounted, Publishing, Reset!Pressing,
     Reset!Triggering,
     Publishes
<1>6. TicketsAreOrdered'
  BY <1>1, <1>2 DEF ResetIInv, TicketsAreOrdered
<1>7. ApplyIsFenced'
  BY <1>1, <1>2 DEF ResetIInv, ApplyIsFenced, Reset!Applying
<1>8. CompletedIsPosted'
  BY <1>1, <1>2 DEF ResetIInv, CompletedIsPosted, Reset!Applying, Posted
<1>9. InterruptionIsUnderway'
  BY <1>1, <1>2 DEF ResetIInv, InterruptionIsUnderway, Posted, Underway, Reset!MailPending
<1>10. PollsKnow'
  BY <1>1, <1>2 DEF ResetIInv, PollsKnow, Reset!Polling, Posted, Underway, Reset!MailPending
<1>11. TriggerIsKnown'
  BY <1>1, <1>2 DEF ResetIInv, TriggerIsKnown, Reset!Triggering
<1>12. MailIsWhole'
  BY <1>1, <1>2 DEF ResetIInv, MailIsWhole
<1>13. EpochsAreOrdered'
  BY <1>1, <1>2, <1>3 DEF ResetIInv, EpochsAreOrdered, Capturing, Reset!Triggering
<1>14. OwedIsNew'
  BY <1>1, <1>2 DEF ResetIInv, OwedIsNew
<1>15. /\ Reset!EvidenceKept'
  BY <1>1, EvidenceKeptFramed DEF ResetIInv
<1> QED BY <1>4, <1>5, <1>6, <1>7, <1>8, <1>9, <1>10, <1>11, <1>12, <1>13, <1>14,
   <1>15 DEF ResetIInv

(* What the mailbox holds is copied, and evidence stays reserved there. *)
LEMMA TriggerClaimKeeps ==
  ASSUME ResetIInv, Reset!TriggerClaim
  PROVE  ResetIInv'
<1>1. UNCHANGED <<resetPhase, word, acked, publishers, generation, epoch, stop,
                  recovering, alarm, group, token, evidence, call, causal, kind, nc,
                  own, own_generation, authority, presses, incidents, interrupted,
                  clean, due>>
  BY DEF Reset!TriggerClaim, Reset!authorityVars, Reset!motionVars, Reset!elsewhere,
     Reset!callerVars, Reset!ncVars,
     Reset!alarmVars, Reset!Step, Reset!Branch
<1>2. /\ rt = "trigger claim" /\ rt' = "trigger contain" /\ authority' = TRUE
      /\ ~claimed.evidence
  BY <1>1 DEF Reset!TriggerClaim, Reset!Step, Reset!Branch, ResetIInv, Reset!TypeOK,
     MailIsWhole
<1>3. /\ mailbox' \in Reset!Mail /\ claimed' \in Reset!Mail
      /\ mailbox'.evidence = mailbox.evidence /\ claimed'.evidence = mailbox.evidence
      /\ mailbox.evidence => /\ mailbox'.pending /\ claimed'.pending
                             /\ mailbox'.epoch = mailbox.epoch /\ claimed'.epoch = mailbox.epoch
      /\ mailbox'.epoch <= epoch /\ claimed'.epoch <= epoch
  <2>1. mailbox \in Reset!Mail /\ mailbox.epoch <= epoch /\ 0 <= epoch /\ 0 \in Nat
    BY DEF ResetIInv, Reset!TypeOK, EpochsAreOrdered
  <2>2. Reset!Empty \in Reset!Mail /\ Reset!Empty.evidence = FALSE /\ Reset!Empty.epoch = 0
    BY DEF Reset!Empty, Reset!Mail
  <2>3. CASE mailbox.evidence
    <3>1. mailbox.pending  BY <2>3 DEF ResetIInv, MailIsWhole
    <3>2. claimed' = mailbox /\ mailbox' = [mailbox EXCEPT !.reserved = TRUE]
      BY <2>3, <3>1 DEF Reset!TriggerClaim, Reset!ClaimReserved
    <3>3. /\ mailbox' \in Reset!Mail /\ mailbox'.evidence = mailbox.evidence
          /\ mailbox'.epoch = mailbox.epoch /\ mailbox'.pending = mailbox.pending
      BY <2>1, <3>2 DEF Reset!Mail
    <3> QED BY <2>1, <3>1, <3>2, <3>3
  <2>4. CASE ~mailbox.evidence /\ mailbox.pending
    <3>1. claimed' = mailbox /\ mailbox' = Reset!Empty
      BY <2>4 DEF Reset!TriggerClaim, Reset!ClaimReserved
    <3>2. mailbox.evidence = FALSE  BY <2>4, FieldTypes DEF ResetIInv
    <3> QED BY <2>1, <2>2, <3>1, <3>2
  <2>5. CASE ~mailbox.evidence /\ ~mailbox.pending
    <3>1. claimed' = Reset!Empty /\ mailbox' = mailbox
      BY <2>5 DEF Reset!TriggerClaim, Reset!ClaimReserved
    <3>2. mailbox.evidence = FALSE  BY <2>5, FieldTypes DEF ResetIInv
    <3> QED BY <2>1, <2>2, <3>1, <3>2
  <2> QED BY <2>3, <2>4, <2>5
<1>4. Underway => Underway'
  <2>1. alarm # "none"  BY DEF Reset!TriggerClaim, Reset!Step, Reset!Branch, ResetIInv,
  TriggerIsKnown, Reset!Triggering
  <2> QED BY <1>1, <2>1 DEF Underway
<1>5. Reset!TypeOK'
  <2>1. mailbox' \in Reset!Mail
    BY <1>1, <1>2, <1>3 DEF ResetIInv, Reset!TypeOK, Reset!Mail
  <2>2. rt' \in Reset!Applying \cup Reset!Pressing \cup Reset!Triggering \cup Reset!Passing
    BY <1>1, <1>2, <1>3 DEF ResetIInv, Reset!TypeOK, Reset!Applying, Reset!Pressing,
       Reset!Triggering, Reset!Passing
  <2>3. claimed' \in Reset!Mail
    BY <1>1, <1>2, <1>3 DEF ResetIInv, Reset!TypeOK, Reset!Mail
  <2> QED BY <1>1, <2>1, <2>2, <2>3 DEF ResetIInv, Reset!TypeOK
<1>6. PublishersAreCounted'
  BY <1>1, <1>2, <1>3 DEF ResetIInv, PublishersAreCounted, Publishing, Reset!Pressing,
     Reset!Triggering, Publishes
<1>7. ApplyIsFenced'
  BY <1>1, <1>2, <1>3 DEF ResetIInv, ApplyIsFenced, Reset!Applying
<1>8. CompletedIsPosted'
  BY <1>1, <1>2, <1>3 DEF ResetIInv, CompletedIsPosted, Reset!Applying, Posted
<1>9. InterruptionIsUnderway'
  BY <1>1, <1>4 DEF ResetIInv, InterruptionIsUnderway, Posted
<1>10. PollsKnow'
  BY <1>1, <1>4 DEF ResetIInv, PollsKnow, Posted, Reset!Polling
<1>11. TriggerIsKnown'
  BY <1>1, <1>2, <1>3 DEF ResetIInv, TriggerIsKnown, Reset!Triggering
<1>12. MailIsWhole'
  <2>1. /\ mailbox'.evidence = mailbox.evidence /\ claimed'.evidence = mailbox.evidence
        /\ mailbox.evidence => /\ mailbox'.pending /\ claimed'.pending
                               /\ mailbox'.epoch = claimed'.epoch
    BY <1>3
  <2> QED BY <1>2, <2>1 DEF MailIsWhole
<1>13. EpochsAreOrdered'
  <2>1. /\ mailbox'.epoch <= epoch' /\ claimed'.epoch <= epoch'
    BY <1>1, <1>3 DEF ResetIInv, EpochsAreOrdered
  <2>2. rt' \in Capturing => rt \in Capturing
    BY <1>2 DEF Capturing, Reset!Triggering
  <2> QED BY <1>1, <2>1, <2>2 DEF ResetIInv, EpochsAreOrdered
<1>14. OwedIsNew'
  BY <1>1, <1>2, <1>3 DEF ResetIInv, OwedIsNew
<1>15. Reset!EvidenceKept'
  <2>1. \A e \in due : mailbox.evidence /\ mailbox.epoch = e
    BY <1>2 DEF ResetIInv, Reset!EvidenceKept
  <2>2. mailbox.evidence => mailbox'.pending /\ mailbox'.evidence /\ mailbox'.epoch = mailbox.epoch
    BY <1>3
  <2> QED BY <1>1, <2>1, <2>2 DEF Reset!EvidenceKept
<1>16. /\ TicketsAreOrdered'
  BY <1>1, TicketsAreOrderedFramed DEF ResetIInv
<1> QED BY <1>5, <1>6, <1>7, <1>8, <1>9, <1>10, <1>11, <1>12, <1>13, <1>14, <1>15,
   <1>16 DEF ResetIInv

(* The evidence goes into the mailbox unless an earlier one is there. *)
LEMMA TriggerPostKeeps ==
  ASSUME ResetIInv, Reset!TriggerPost
  PROVE  ResetIInv'
<1>1. UNCHANGED <<resetPhase, word, acked, publishers, generation, epoch, stop,
                  recovering, alarm, group, token, evidence, call, causal, kind, nc,
                  own, own_generation, claimed, authority, presses, incidents,
                  interrupted, clean>>
  BY DEF Reset!TriggerPost, Reset!authorityVars, Reset!scratch, Reset!elsewhere,
     Reset!callerVars, Reset!ncVars,
     Reset!alarmVars, Reset!Step, Reset!Branch
<1>2. /\ rt = "trigger post" /\ rt' = "trigger contain"
      /\ ~claimed.evidence
      /\ own_generation \in Nat /\ own_generation # 0 /\ own_generation # evidence.from
      /\ own_generation <= epoch
  BY DEF Reset!TriggerPost, Reset!Step, Reset!Branch, ResetIInv, Reset!TypeOK,
     MailIsWhole, EpochsAreOrdered, Capturing, Reset!Triggering,
         OwedIsNew
<1>3. /\ mailbox' \in Reset!Mail /\ mailbox'.pending /\ mailbox'.evidence /\ mailbox'.epoch <= epoch
      /\ due' \subseteq due \cup {own_generation}
      /\ \A e \in due' : e = mailbox'.epoch
  <2>1. \A e \in due : mailbox.pending /\ mailbox.evidence /\ mailbox.epoch = e
    BY <1>2 DEF ResetIInv, Reset!EvidenceKept
  <2>2. CASE mailbox.evidence
    <3>1. mailbox' = mailbox /\ due' = due  BY <2>2 DEF Reset!TriggerPost
    <3>2. mailbox.pending /\ mailbox \in Reset!Mail /\ mailbox.epoch <= epoch
      BY <2>2 DEF ResetIInv, Reset!TypeOK, MailIsWhole, EpochsAreOrdered
    <3> QED BY <2>1, <2>2, <3>1, <3>2
  <2>3. CASE ~mailbox.evidence
    <3>1. mailbox' = Reset!Request(own_generation, TRUE) /\ due' = due \cup {own_generation}
      BY <2>3 DEF Reset!TriggerPost
    <3>2. /\ mailbox' \in Reset!Mail /\ mailbox'.pending /\ mailbox'.evidence
          /\ mailbox'.epoch = own_generation
      BY <1>2, <3>1 DEF Reset!Request, Reset!Mail
    <3> QED BY <1>2, <2>1, <2>3, <3>1, <3>2
  <2> QED BY <2>2, <2>3
<1>4. Underway => Underway'
  <2>1. alarm # "none"  BY DEF Reset!TriggerPost, Reset!Step, Reset!Branch, ResetIInv,
  TriggerIsKnown, Reset!Triggering
  <2> QED BY <1>1, <2>1 DEF Underway
<1>5. Reset!TypeOK'
  <2>1. mailbox' \in Reset!Mail
    BY <1>1, <1>2, <1>3 DEF ResetIInv, Reset!TypeOK, Reset!Mail
  <2>2. rt' \in Reset!Applying \cup Reset!Pressing \cup Reset!Triggering \cup Reset!Passing
    BY <1>1, <1>2, <1>3 DEF ResetIInv, Reset!TypeOK, Reset!Applying, Reset!Pressing,
       Reset!Triggering, Reset!Passing
  <2>3. due' \subseteq Nat
    BY <1>1, <1>2, <1>3 DEF ResetIInv, Reset!TypeOK
  <2> QED BY <1>1, <2>1, <2>2, <2>3 DEF ResetIInv, Reset!TypeOK
<1>6. PublishersAreCounted'
  BY <1>1, <1>2, <1>3 DEF ResetIInv, PublishersAreCounted, Publishing, Reset!Pressing,
     Reset!Triggering, Publishes
<1>7. ApplyIsFenced'
  BY <1>1, <1>2, <1>3 DEF ResetIInv, ApplyIsFenced, Reset!Applying
<1>8. CompletedIsPosted'
  BY <1>1, <1>2, <1>3 DEF ResetIInv, CompletedIsPosted, Reset!Applying, Posted
<1>9. InterruptionIsUnderway'
  BY <1>1, <1>4 DEF ResetIInv, InterruptionIsUnderway, Posted
<1>10. PollsKnow'
  BY <1>1, <1>4 DEF ResetIInv, PollsKnow, Posted, Reset!Polling
<1>11. TriggerIsKnown'
  BY <1>1, <1>2, <1>3 DEF ResetIInv, TriggerIsKnown, Reset!Triggering
<1>12. MailIsWhole'
  <2>1. mailbox'.pending /\ mailbox'.evidence  BY <1>3
  <2> QED BY <1>1, <1>2, <2>1 DEF ResetIInv, MailIsWhole
<1>13. EpochsAreOrdered'
  <2>1. /\ mailbox'.epoch <= epoch' /\ claimed'.epoch <= epoch'
    BY <1>1, <1>3 DEF ResetIInv, EpochsAreOrdered
  <2>2. rt' \in Capturing => rt \in Capturing
    BY <1>2 DEF Capturing, Reset!Triggering
  <2> QED BY <1>1, <2>1, <2>2 DEF ResetIInv, EpochsAreOrdered
<1>14. OwedIsNew'
  <2>1. due' \subseteq due \cup {own_generation}  BY <1>3
  <2> QED BY <1>1, <1>2, <2>1 DEF ResetIInv, OwedIsNew
<1>15. Reset!EvidenceKept'
  BY <1>3 DEF Reset!EvidenceKept
<1>16. /\ TicketsAreOrdered'
  BY <1>1, TicketsAreOrderedFramed DEF ResetIInv
<1> QED BY <1>5, <1>6, <1>7, <1>8, <1>9, <1>10, <1>11, <1>12, <1>13, <1>14, <1>15,
   <1>16 DEF ResetIInv

(* The mailbox is reserved for the evidence. *)
LEMMA TriggerReserveKeeps ==
  ASSUME ResetIInv, Reset!TriggerReserve
  PROVE  ResetIInv'
<1>1. UNCHANGED <<resetPhase, word, acked, publishers, generation, epoch, stop,
                  recovering, alarm, group, token, evidence, call, causal, kind, nc,
                  own, own_generation, claimed, authority, presses, incidents,
                  interrupted, clean, due>>
  BY DEF Reset!TriggerReserve, Reset!authorityVars, Reset!motionVars, Reset!scratch,
     Reset!elsewhere, Reset!callerVars,
     Reset!ncVars, Reset!alarmVars, Reset!Step, Reset!Branch
<1>2. /\ rt = "trigger post" /\ rt' = "trigger store" /\ ~claimed.evidence
  BY DEF Reset!TriggerReserve, Reset!Step, Reset!Branch, ResetIInv, MailIsWhole
<1>3. /\ mailbox' \in Reset!Mail /\ mailbox'.pending /\ mailbox'.evidence
      /\ mailbox'.epoch = mailbox.epoch /\ due = {}
  <2>1. mailbox \in Reset!Mail  BY DEF ResetIInv, Reset!TypeOK
  <2>2. mailbox' = [mailbox EXCEPT !.pending = TRUE, !.evidence = TRUE, !.reserved = TRUE]
    BY DEF Reset!TriggerReserve
  <2>3. due = {}  BY <1>2 DEF ResetIInv, Reset!EvidenceKept, Reset!TriggerReserve
  <2> QED BY <2>1, <2>2, <2>3 DEF Reset!Mail
<1>4. Underway => Underway'
  <2>1. alarm # "none"  BY DEF Reset!TriggerReserve, Reset!Step, Reset!Branch,
  ResetIInv, TriggerIsKnown, Reset!Triggering
  <2> QED BY <1>1, <2>1 DEF Underway
<1>5. Reset!TypeOK'
  <2>1. mailbox' \in Reset!Mail
    BY <1>1, <1>2, <1>3 DEF ResetIInv, Reset!TypeOK, Reset!Mail
  <2>2. rt' \in Reset!Applying \cup Reset!Pressing \cup Reset!Triggering \cup Reset!Passing
    BY <1>1, <1>2, <1>3 DEF ResetIInv, Reset!TypeOK, Reset!Applying, Reset!Pressing,
       Reset!Triggering, Reset!Passing
  <2> QED BY <1>1, <2>1, <2>2 DEF ResetIInv, Reset!TypeOK
<1>6. PublishersAreCounted'
  BY <1>1, <1>2, <1>3 DEF ResetIInv, PublishersAreCounted, Publishing, Reset!Pressing,
     Reset!Triggering, Publishes
<1>7. ApplyIsFenced'
  BY <1>1, <1>2, <1>3 DEF ResetIInv, ApplyIsFenced, Reset!Applying
<1>8. CompletedIsPosted'
  BY <1>1, <1>2, <1>3 DEF ResetIInv, CompletedIsPosted, Reset!Applying, Posted
<1>9. InterruptionIsUnderway'
  BY <1>1, <1>4 DEF ResetIInv, InterruptionIsUnderway, Posted
<1>10. PollsKnow'
  BY <1>1, <1>4 DEF ResetIInv, PollsKnow, Posted, Reset!Polling
<1>11. TriggerIsKnown'
  BY <1>1, <1>2, <1>3 DEF ResetIInv, TriggerIsKnown, Reset!Triggering
<1>12. MailIsWhole'
  BY <1>1, <1>2, <1>3 DEF ResetIInv, MailIsWhole
<1>13. EpochsAreOrdered'
  <2>1. /\ mailbox'.epoch <= epoch' /\ claimed'.epoch <= epoch'
    BY <1>1, <1>3 DEF ResetIInv, EpochsAreOrdered
  <2>2. rt' \in Capturing => rt \in Capturing
    BY <1>2 DEF Capturing, Reset!Triggering
  <2> QED BY <1>1, <2>1, <2>2 DEF ResetIInv, EpochsAreOrdered
<1>14. OwedIsNew'
  BY <1>1, <1>2, <1>3 DEF ResetIInv, OwedIsNew
<1>15. Reset!EvidenceKept'
  BY <1>1, <1>3 DEF Reset!EvidenceKept
<1>16. /\ TicketsAreOrdered'
  BY <1>1, TicketsAreOrderedFramed DEF ResetIInv
<1> QED BY <1>5, <1>6, <1>7, <1>8, <1>9, <1>10, <1>11, <1>12, <1>13, <1>14, <1>15,
   <1>16 DEF ResetIInv

(* The evidence is stored in the reserved mailbox. *)
LEMMA TriggerStoreKeeps ==
  ASSUME ResetIInv, Reset!TriggerStore
  PROVE  ResetIInv'
<1>1. UNCHANGED <<resetPhase, word, acked, publishers, generation, epoch, stop,
                  recovering, alarm, group, token, evidence, call, causal, kind, nc,
                  own, own_generation, claimed, authority, presses, incidents,
                  interrupted, clean>>
  BY DEF Reset!TriggerStore, Reset!authorityVars, Reset!scratch, Reset!elsewhere,
     Reset!callerVars, Reset!ncVars,
     Reset!alarmVars, Reset!Step, Reset!Branch
<1>2. /\ rt = "trigger store" /\ rt' = "trigger contain"
      /\ ~claimed.evidence
      /\ own_generation \in Nat /\ own_generation # 0 /\ own_generation # evidence.from
      /\ own_generation <= epoch
  BY DEF Reset!TriggerStore, Reset!Step, Reset!Branch, ResetIInv, Reset!TypeOK,
     MailIsWhole, EpochsAreOrdered, Capturing, Reset!Triggering,
         OwedIsNew
<1>3. /\ mailbox' \in Reset!Mail /\ mailbox'.pending /\ mailbox'.evidence /\ mailbox'.epoch <= epoch
      /\ due' \subseteq due \cup {own_generation}
      /\ \A e \in due' : e = mailbox'.epoch
  <2>2. due = {}  BY <1>2 DEF ResetIInv, MailIsWhole
  <2>3. mailbox' = Reset!Request(own_generation, TRUE) /\ due' = due \cup {own_generation}
    BY DEF Reset!TriggerStore
  <2>4. /\ mailbox' \in Reset!Mail /\ mailbox'.pending /\ mailbox'.evidence
        /\ mailbox'.epoch = own_generation
    BY <1>2, <2>3 DEF Reset!Request, Reset!Mail
  <2> QED BY <1>2, <2>2, <2>3, <2>4
<1>4. Underway => Underway'
  <2>1. alarm # "none"  BY DEF Reset!TriggerStore, Reset!Step, Reset!Branch, ResetIInv,
  TriggerIsKnown, Reset!Triggering
  <2> QED BY <1>1, <2>1 DEF Underway
<1>5. Reset!TypeOK'
  <2>1. mailbox' \in Reset!Mail
    BY <1>1, <1>2, <1>3 DEF ResetIInv, Reset!TypeOK, Reset!Mail
  <2>2. rt' \in Reset!Applying \cup Reset!Pressing \cup Reset!Triggering \cup Reset!Passing
    BY <1>1, <1>2, <1>3 DEF ResetIInv, Reset!TypeOK, Reset!Applying, Reset!Pressing,
       Reset!Triggering, Reset!Passing
  <2>3. due' \subseteq Nat
    BY <1>1, <1>2, <1>3 DEF ResetIInv, Reset!TypeOK
  <2> QED BY <1>1, <2>1, <2>2, <2>3 DEF ResetIInv, Reset!TypeOK
<1>6. PublishersAreCounted'
  BY <1>1, <1>2, <1>3 DEF ResetIInv, PublishersAreCounted, Publishing, Reset!Pressing,
     Reset!Triggering, Publishes
<1>7. ApplyIsFenced'
  BY <1>1, <1>2, <1>3 DEF ResetIInv, ApplyIsFenced, Reset!Applying
<1>8. CompletedIsPosted'
  BY <1>1, <1>2, <1>3 DEF ResetIInv, CompletedIsPosted, Reset!Applying, Posted
<1>9. InterruptionIsUnderway'
  BY <1>1, <1>4 DEF ResetIInv, InterruptionIsUnderway, Posted
<1>10. PollsKnow'
  BY <1>1, <1>4 DEF ResetIInv, PollsKnow, Posted, Reset!Polling
<1>11. TriggerIsKnown'
  BY <1>1, <1>2, <1>3 DEF ResetIInv, TriggerIsKnown, Reset!Triggering
<1>12. MailIsWhole'
  <2>1. mailbox'.pending /\ mailbox'.evidence  BY <1>3
  <2> QED BY <1>1, <1>2, <2>1 DEF ResetIInv, MailIsWhole
<1>13. EpochsAreOrdered'
  <2>1. /\ mailbox'.epoch <= epoch' /\ claimed'.epoch <= epoch'
    BY <1>1, <1>3 DEF ResetIInv, EpochsAreOrdered
  <2>2. rt' \in Capturing => rt \in Capturing
    BY <1>2 DEF Capturing, Reset!Triggering
  <2> QED BY <1>1, <2>1, <2>2 DEF ResetIInv, EpochsAreOrdered
<1>14. OwedIsNew'
  <2>1. due' \subseteq due \cup {own_generation}  BY <1>3
  <2> QED BY <1>1, <1>2, <2>1 DEF ResetIInv, OwedIsNew
<1>15. Reset!EvidenceKept'
  BY <1>3 DEF Reset!EvidenceKept
<1>16. /\ TicketsAreOrdered'
  BY <1>1, TicketsAreOrderedFramed DEF ResetIInv
<1> QED BY <1>5, <1>6, <1>7, <1>8, <1>9, <1>10, <1>11, <1>12, <1>13, <1>14, <1>15,
   <1>16 DEF ResetIInv

(* The containment records the epoch RT kept, if it has SAFETY. *)
LEMMA TriggerContainKeeps ==
  ASSUME ResetIInv, Reset!TriggerContain
  PROVE  ResetIInv'
<1>1. UNCHANGED <<acked, publishers, generation, mailbox, stop, recovering, alarm,
                  call, causal, kind, nc, own, own_generation, claimed, authority,
                  presses, incidents, interrupted, clean>>
  BY DEF Reset!TriggerContain, Reset!mailVars, Reset!scratch, Reset!elsewhere,
     Reset!callerVars, Reset!ncVars,
     Reset!alarmVars, Reset!Branch
<1>2. Contained(TRUE, own_generation)
  <2>1. /\ own_generation \in Nat /\ own_generation <= epoch /\ authority \in BOOLEAN
    BY DEF ResetIInv, Reset!TypeOK, EpochsAreOrdered, Reset!TriggerContain,
       Reset!Branch, Capturing, Reset!Triggering
  <2> QED BY <2>1, ContainFacts DEF ResetIInv, Reset!TriggerContain
<1>3. /\ 0 < epoch' /\ evidence.from < epoch'
      /\ mailbox.epoch <= epoch' /\ claimed.epoch <= epoch'
      /\ \A u \in Reset!Caller : causal[u] <= epoch'
      /\ rt \in Capturing => own_generation # 0 /\ own_generation <= epoch'
  BY <1>2, EpochsGrow DEF ResetIInv, Contained
<1>4. Reset!TypeOK'
  <2>1. resetPhase' \in Reset!Phases
    BY <1>1, <1>2 DEF ResetIInv, Reset!TypeOK, Reset!Phases, Contained,
       Reset!TriggerContain, Reset!Branch
  <2>2. word' \in Reset!OwnerWord
    BY <1>1, <1>2 DEF ResetIInv, Reset!TypeOK, Contained, Reset!TriggerContain, Reset!Branch
  <2>3. epoch' \in Nat
    BY <1>1, <1>2 DEF ResetIInv, Reset!TypeOK, Contained, Reset!TriggerContain, Reset!Branch
  <2>4. group' \in {"moving", "stopping", "converging", "still"}
    BY <1>1, <1>2 DEF ResetIInv, Reset!TypeOK, Contained, Reset!TriggerContain, Reset!Branch
  <2>5. token' \in Nat
    BY <1>1, <1>2 DEF ResetIInv, Reset!TypeOK, Contained, Reset!TriggerContain, Reset!Branch
  <2>6. evidence' \in [from : Nat, to : Nat]
    BY <1>1, <1>2 DEF ResetIInv, Reset!TypeOK, Contained, Reset!TriggerContain, Reset!Branch
  <2>7. rt' \in Reset!Applying \cup Reset!Pressing \cup Reset!Triggering \cup Reset!Passing
    BY <1>1, <1>2 DEF ResetIInv, Reset!TypeOK, Reset!Applying, Reset!Pressing,
       Reset!Triggering, Reset!Passing,
       Contained, Reset!TriggerContain, Reset!Branch
  <2>8. due' \subseteq Nat
    BY <1>1, <1>2 DEF ResetIInv, Reset!TypeOK, Contained, Reset!TriggerContain, Reset!Branch
  <2> QED BY <1>1, <2>1, <2>2, <2>3, <2>4, <2>5, <2>6, <2>7, <2>8 DEF ResetIInv,
     Reset!TypeOK
<1>5. PublishersAreCounted'
  BY <1>1, <1>2 DEF ResetIInv, PublishersAreCounted, Publishing, Reset!Pressing,
     Reset!Triggering,
     Publishes, Contained, Reset!TriggerContain, Reset!Branch
<1>6. TicketsAreOrdered'
  BY <1>1, <1>2 DEF ResetIInv, TicketsAreOrdered, Contained, Reset!TriggerContain,
     Reset!Branch
<1>7. ApplyIsFenced'
  BY <1>1, <1>2 DEF ResetIInv, ApplyIsFenced, Reset!Applying, Contained,
     Reset!TriggerContain, Reset!Branch
<1>8. CompletedIsPosted'
  BY <1>1, <1>2 DEF ResetIInv, CompletedIsPosted, Reset!Applying, Posted, Contained,
     Reset!TriggerContain, Reset!Branch
<1>9. InterruptionIsUnderway'
  BY <1>1, <1>2 DEF ResetIInv, InterruptionIsUnderway, Posted, Underway, Reset!MailPending,
     Contained, Reset!TriggerContain, Reset!Branch
<1>10. PollsKnow'
  BY <1>1, <1>2 DEF ResetIInv, PollsKnow, Reset!Polling, Posted, Underway,
     Reset!MailPending,
     Contained, Reset!TriggerContain, Reset!Branch
<1>11. TriggerIsKnown'
  BY <1>1, <1>2 DEF ResetIInv, TriggerIsKnown, Reset!Triggering, Contained,
     Reset!TriggerContain,
     Reset!Branch
<1>12. MailIsWhole'
  BY <1>1, <1>2 DEF ResetIInv, MailIsWhole, Contained, Reset!TriggerContain, Reset!Branch
<1>13. EpochsAreOrdered'
  BY <1>1, <1>2, <1>3 DEF ResetIInv, EpochsAreOrdered, Capturing, Reset!Triggering,
     Contained,
     Reset!TriggerContain, Reset!Branch
<1>14. OwedIsNew'
  BY <1>1, <1>2 DEF ResetIInv, OwedIsNew, Contained, Reset!TriggerContain, Reset!Branch
<1>15. Reset!EvidenceKept'
  BY <1>1, <1>2 DEF ResetIInv, Reset!EvidenceKept, Contained, Reset!TriggerContain,
     Reset!Branch
<1> QED BY <1>4, <1>5, <1>6, <1>7, <1>8, <1>9, <1>10, <1>11, <1>12, <1>13, <1>14,
   <1>15 DEF ResetIInv

(* The reserved evidence is dropped only if it was recorded. *)
LEMMA TriggerFinalizeKeeps ==
  ASSUME ResetIInv, Reset!TriggerFinalize
  PROVE  ResetIInv'
<1>1. UNCHANGED <<resetPhase, word, acked, publishers, generation, epoch, stop,
                  recovering, alarm, group, token, evidence, call, causal, kind, nc,
                  own, own_generation, authority, presses, incidents, interrupted,
                  clean, due>>
  BY DEF Reset!TriggerFinalize, Reset!authorityVars, Reset!motionVars, Reset!elsewhere,
     Reset!callerVars, Reset!ncVars,
     Reset!alarmVars, Reset!Branch
<1>2. /\ rt = "trigger finalize" /\ rt' \in {"trigger end", "trigger action"}
      /\ claimed' = Reset!Empty /\ ~claimed'.evidence /\ claimed'.epoch = 0
  BY DEF Reset!TriggerFinalize, Reset!Branch, Reset!Empty
<1>3. /\ mailbox' \in Reset!Mail /\ (mailbox'.evidence => mailbox'.pending)
      /\ mailbox'.epoch <= epoch
      /\ \A e \in due : mailbox'.pending /\ mailbox'.evidence /\ mailbox'.epoch = e
  <2>1. /\ mailbox \in Reset!Mail /\ claimed \in Reset!Mail
        /\ mailbox.epoch <= epoch /\ claimed.epoch <= epoch /\ 0 <= epoch
        /\ mailbox.evidence => mailbox.pending
        /\ claimed.evidence => claimed.pending
    <3>1. epoch \in Nat /\ mailbox \in Reset!Mail /\ claimed \in Reset!Mail
      BY DEF ResetIInv, Reset!TypeOK
    <3>2. 0 <= epoch  BY <3>1
    <3> QED BY <3>1, <3>2 DEF ResetIInv, EpochsAreOrdered, MailIsWhole
  <2>2. CASE ~claimed.evidence
    <3>1. mailbox' = mailbox  BY <2>2 DEF Reset!TriggerFinalize
    <3> QED BY <2>1, <2>2, <3>1 DEF ResetIInv, Reset!EvidenceKept
  <2>3. CASE claimed.evidence
    <3>1. \A e \in due : e = claimed.epoch
      BY <1>2, <2>3 DEF ResetIInv, Reset!EvidenceKept, MailIsWhole
    <3>2. CASE evidence = [from |-> claimed.epoch, to |-> epoch]
      <4>1. mailbox' = Reset!Empty  BY <2>3, <3>2 DEF Reset!TriggerFinalize
      <4>2. evidence.from = claimed.epoch  BY <3>2
      <4>3. due = {}  BY <3>1, <4>2 DEF ResetIInv, OwedIsNew
      <4>4. Reset!Empty \in Reset!Mail /\ ~Reset!Empty.evidence /\ Reset!Empty.epoch = 0
        BY DEF Reset!Empty, Reset!Mail
      <4> QED BY <2>1, <4>1, <4>3, <4>4
    <3>3. CASE evidence # [from |-> claimed.epoch, to |-> epoch]
      <4>1. mailbox' = claimed  BY <2>3, <3>3 DEF Reset!TriggerFinalize
      <4> QED BY <2>1, <2>3, <3>1, <4>1
    <3> QED BY <3>2, <3>3
  <2> QED BY <2>2, <2>3
<1>4. Underway => Underway'
  <2>1. alarm # "none"  BY DEF Reset!TriggerFinalize, Reset!Branch, ResetIInv,
  TriggerIsKnown, Reset!Triggering
  <2> QED BY <1>1, <2>1 DEF Underway
<1>5. Reset!TypeOK'
  <2>1. mailbox' \in Reset!Mail
    BY <1>1, <1>2, <1>3 DEF ResetIInv, Reset!TypeOK, Reset!Mail, Reset!Empty
  <2>2. rt' \in Reset!Applying \cup Reset!Pressing \cup Reset!Triggering \cup Reset!Passing
    BY <1>1, <1>2, <1>3 DEF ResetIInv, Reset!TypeOK, Reset!Applying, Reset!Pressing,
       Reset!Triggering, Reset!Passing,
       Reset!Empty
  <2>3. claimed' \in Reset!Mail
    BY <1>1, <1>2, <1>3 DEF ResetIInv, Reset!TypeOK, Reset!Mail, Reset!Empty
  <2> QED BY <1>1, <2>1, <2>2, <2>3 DEF ResetIInv, Reset!TypeOK
<1>6. PublishersAreCounted'
  BY <1>1, <1>2, <1>3 DEF ResetIInv, PublishersAreCounted, Publishing, Reset!Pressing,
     Reset!Triggering, Publishes, Reset!Empty
<1>7. ApplyIsFenced'
  BY <1>1, <1>2, <1>3 DEF ResetIInv, ApplyIsFenced, Reset!Applying, Reset!Empty
<1>8. CompletedIsPosted'
  BY <1>1, <1>2, <1>3 DEF ResetIInv, CompletedIsPosted, Reset!Applying, Posted, Reset!Empty
<1>9. InterruptionIsUnderway'
  BY <1>1, <1>4 DEF ResetIInv, InterruptionIsUnderway, Posted
<1>10. PollsKnow'
  BY <1>1, <1>4 DEF ResetIInv, PollsKnow, Posted, Reset!Polling
<1>11. TriggerIsKnown'
  BY <1>1, <1>2, <1>3 DEF ResetIInv, TriggerIsKnown, Reset!Triggering, Reset!Empty
<1>12. MailIsWhole'
  <2>1. mailbox'.evidence => mailbox'.pending  BY <1>3
  <2> QED BY <1>1, <1>2, <2>1 DEF MailIsWhole
<1>13. EpochsAreOrdered'
  <2>1. mailbox'.epoch <= epoch' /\ claimed'.epoch = 0  BY <1>1, <1>2, <1>3
  <2>2. rt' \in Capturing => rt \in Capturing  BY <1>2 DEF Capturing, Reset!Triggering
  <2>3. epoch' \in Nat  BY <1>1 DEF ResetIInv, Reset!TypeOK
  <2> QED BY <1>1, <2>1, <2>2, <2>3 DEF ResetIInv, EpochsAreOrdered
<1>14. OwedIsNew'
  BY <1>1, <1>2, <1>3 DEF ResetIInv, OwedIsNew, Reset!Empty
<1>15. Reset!EvidenceKept'
  BY <1>1, <1>3 DEF Reset!EvidenceKept
<1>16. /\ TicketsAreOrdered'
  BY <1>1, TicketsAreOrderedFramed DEF ResetIInv
<1> QED BY <1>5, <1>6, <1>7, <1>8, <1>9, <1>10, <1>11, <1>12, <1>13, <1>14, <1>15,
   <1>16 DEF ResetIInv

(* The action of a newer producer is left to the mailbox. *)
LEMMA TriggerActionKeeps ==
  ASSUME ResetIInv, Reset!TriggerAction
  PROVE  ResetIInv'
<1>1. UNCHANGED <<resetPhase, acked, publishers, generation, epoch, stop, recovering,
                  alarm, group, token, evidence, call, causal, kind, nc, own,
                  own_generation, claimed, authority, presses, incidents,
                  interrupted, clean, due>>
  BY DEF Reset!TriggerAction, Reset!motionVars, Reset!scratch, Reset!elsewhere,
     Reset!callerVars, Reset!ncVars,
     Reset!alarmVars, Reset!Step, Reset!Branch
<1>2. /\ word' \in Reset!OwnerWord /\ word'.ticket = word.ticket /\ word'.safety = word.safety
      /\ rt = "trigger action" /\ rt' = "trigger end"
  BY CompleteActionFacts DEF ResetIInv, Reset!TriggerAction, Reset!Step, Reset!Branch
<1>3. /\ mailbox' \in Reset!Mail /\ mailbox'.epoch <= epoch
      /\ mailbox'.evidence = mailbox.evidence
      /\ mailbox.evidence => mailbox' = mailbox
  <2>1. mailbox \in Reset!Mail /\ mailbox.epoch <= epoch /\ epoch \in Nat
    BY DEF ResetIInv, Reset!TypeOK, EpochsAreOrdered
  <2>2. CASE mailbox' = mailbox
    BY <2>1, <2>2
  <2>3. CASE ~mailbox.pending /\ mailbox' = Reset!Request(epoch, FALSE)
    <3>1. mailbox.evidence = FALSE  BY <2>3, FieldTypes DEF ResetIInv, MailIsWhole
    <3>2. mailbox' \in Reset!Mail /\ mailbox'.evidence = FALSE /\ mailbox'.epoch = epoch
      BY <2>1, <2>3 DEF Reset!Request, Reset!Mail
    <3>3. mailbox'.epoch <= epoch  BY <2>1, <3>2
    <3> QED BY <3>1, <3>2, <3>3
  <2> QED BY <2>2, <2>3 DEF Reset!TriggerAction
<1>4. Underway => Underway'
  <2>1. alarm # "none"  BY DEF Reset!TriggerAction, Reset!Step, Reset!Branch,
  ResetIInv, TriggerIsKnown, Reset!Triggering
  <2> QED BY <1>1, <2>1 DEF Underway
<1>5. Reset!TypeOK'
  <2>1. word' \in Reset!OwnerWord
    BY <1>1, <1>2, <1>3 DEF ResetIInv, Reset!TypeOK
  <2>2. mailbox' \in Reset!Mail
    BY <1>1, <1>2, <1>3 DEF ResetIInv, Reset!TypeOK, Reset!Mail
  <2>3. rt' \in Reset!Applying \cup Reset!Pressing \cup Reset!Triggering \cup Reset!Passing
    BY <1>1, <1>2, <1>3 DEF ResetIInv, Reset!TypeOK, Reset!Applying, Reset!Pressing,
       Reset!Triggering, Reset!Passing
  <2> QED BY <1>1, <2>1, <2>2, <2>3 DEF ResetIInv, Reset!TypeOK
<1>6. PublishersAreCounted'
  BY <1>1, <1>2, <1>3 DEF ResetIInv, PublishersAreCounted, Publishing, Reset!Pressing,
     Reset!Triggering, Publishes
<1>7. TicketsAreOrdered'
  BY <1>1, <1>2, <1>3 DEF ResetIInv, TicketsAreOrdered
<1>8. ApplyIsFenced'
  BY <1>1, <1>2, <1>3 DEF ResetIInv, ApplyIsFenced, Reset!Applying
<1>9. CompletedIsPosted'
  BY <1>1, <1>2, <1>3 DEF ResetIInv, CompletedIsPosted, Reset!Applying, Posted
<1>10. InterruptionIsUnderway'
  BY <1>1, <1>4 DEF ResetIInv, InterruptionIsUnderway, Posted
<1>11. PollsKnow'
  BY <1>1, <1>4 DEF ResetIInv, PollsKnow, Posted, Reset!Polling
<1>12. TriggerIsKnown'
  BY <1>1, <1>2, <1>3 DEF ResetIInv, TriggerIsKnown, Reset!Triggering
<1>13. MailIsWhole'
  <2>1. /\ mailbox'.evidence = mailbox.evidence /\ (mailbox.evidence => mailbox' = mailbox)
    BY <1>3
  <2> QED BY <1>1, <1>2, <2>1 DEF ResetIInv, MailIsWhole
<1>14. EpochsAreOrdered'
  <2>1. mailbox'.epoch <= epoch'  BY <1>1, <1>3
  <2>2. rt' \in Capturing => rt \in Capturing  BY <1>2 DEF Capturing, Reset!Triggering
  <2> QED BY <1>1, <2>1, <2>2 DEF ResetIInv, EpochsAreOrdered
<1>15. OwedIsNew'
  BY <1>1, <1>2, <1>3 DEF ResetIInv, OwedIsNew
<1>16. Reset!EvidenceKept'
  <2>1. mailbox.evidence => mailbox' = mailbox  BY <1>3
  <2> QED BY <1>1, <2>1 DEF ResetIInv, Reset!EvidenceKept
<1> QED BY <1>5, <1>6, <1>7, <1>8, <1>9, <1>10, <1>11, <1>12, <1>13, <1>14, <1>15,
   <1>16 DEF ResetIInv

(* RT is no longer counted as a publisher. *)
LEMMA TriggerEndKeeps ==
  ASSUME ResetIInv, Reset!TriggerEnd
  PROVE  ResetIInv'
<1>1. UNCHANGED <<resetPhase, word, acked, generation, epoch, mailbox, stop, recovering,
                  alarm, group, token, evidence, call, causal, kind, nc, own, claimed,
                  presses, incidents, interrupted, clean, due>>
  BY DEF Reset!TriggerEnd, Reset!mailVars, Reset!motionVars, Reset!elsewhere,
     Reset!callerVars, Reset!ncVars, Reset!alarmVars,
     Reset!Step, Reset!Branch
<1>2. /\ rt = "trigger end" /\ rt \in Reset!Pressing \cup Reset!Triggering
      /\ rt' = "trigger ack" /\ rt' \notin Reset!Pressing \cup Reset!Triggering
      /\ own_generation' = 0 /\ authority' = FALSE
  BY DEF Reset!TriggerEnd, Reset!Step, Reset!Branch, Reset!Pressing, Reset!Triggering
<1>3. /\ publishers' = publishers - 1 /\ Cardinality(Publishing) \in Nat
      /\ publishers = Cardinality(Publishing) + 1
  <2>1. IsFiniteSet(Publishing) /\ Cardinality(Publishing) \in Nat
    BY NobodyCounted DEF ResetIInv, PublishersAreCounted
  <2>2. publishers = Cardinality(Publishing) + 1
    BY <1>2, NobodyCounted DEF ResetIInv
  <2> QED BY <2>1, <2>2 DEF Reset!TriggerEnd
<1>4. Reset!TypeOK'
  <2>1. publishers' \in Nat
    BY <1>3
  <2>2. rt' \in Reset!Applying \cup Reset!Pressing \cup Reset!Triggering \cup Reset!Passing
    BY <1>1, <1>2, <1>3 DEF ResetIInv, Reset!TypeOK, Reset!Applying, Reset!Pressing,
       Reset!Triggering, Reset!Passing
  <2>3. own_generation' \in Nat
    BY <1>1, <1>2, <1>3 DEF ResetIInv, Reset!TypeOK
  <2>4. authority' \in BOOLEAN
    BY <1>1, <1>2, <1>3 DEF ResetIInv, Reset!TypeOK
  <2> QED BY <1>1, <2>1, <2>2, <2>3, <2>4 DEF ResetIInv, Reset!TypeOK
<1>5. PublishersAreCounted'
  <2>1. Publishing' = Publishing  BY <1>1 DEF Publishing, Publishes
  <2>2. IsFiniteSet(Publishing)  BY DEF ResetIInv, PublishersAreCounted
  <2>3. publishers' = Cardinality(Publishing)  BY <1>3
  <2>4. Cardinality(Publishing) \in Nat  BY <1>3
  <2>5. (IF rt' \in Reset!Pressing \cup Reset!Triggering THEN 1 ELSE 0) = 0  BY <1>2
  <2>6. publishers' = Cardinality(Publishing) + 0  BY <2>3, <2>4
  <2> QED BY <2>1, <2>2, <2>5, <2>6 DEF PublishersAreCounted
<1>6. ApplyIsFenced'
  BY <1>1, <1>2, <1>3 DEF ResetIInv, ApplyIsFenced, Reset!Applying
<1>7. CompletedIsPosted'
  BY <1>1, <1>2, <1>3 DEF ResetIInv, CompletedIsPosted, Reset!Applying, Posted
<1>8. InterruptionIsUnderway'
  BY <1>1, <1>2, <1>3 DEF ResetIInv, InterruptionIsUnderway, Posted, Underway,
     Reset!MailPending
<1>9. PollsKnow'
  BY <1>1, <1>2, <1>3 DEF ResetIInv, PollsKnow, Reset!Polling, Posted, Underway,
     Reset!MailPending
<1>10. TriggerIsKnown'
  BY <1>1, <1>2, <1>3 DEF ResetIInv, TriggerIsKnown, Reset!Triggering
<1>11. MailIsWhole'
  BY <1>1, <1>2, <1>3 DEF ResetIInv, MailIsWhole
<1>12. EpochsAreOrdered'
  BY <1>1, <1>2, <1>3 DEF ResetIInv, EpochsAreOrdered, Capturing, Reset!Triggering
<1>13. OwedIsNew'
  BY <1>1, <1>2, <1>3 DEF ResetIInv, OwedIsNew
<1>14. /\ TicketsAreOrdered' /\ Reset!EvidenceKept'
  BY <1>1, TicketsAreOrderedFramed, EvidenceKeptFramed DEF ResetIInv
<1> QED BY <1>4, <1>5, <1>6, <1>7, <1>8, <1>9, <1>10, <1>11, <1>12, <1>13,
   <1>14 DEF ResetIInv

(* RT acknowledges what is applied. *)
LEMMA RtAcknowledgeKeeps ==
  ASSUME ResetIInv, Reset!RtAcknowledge
  PROVE  ResetIInv'
<1>1. UNCHANGED <<resetPhase, publishers, generation, epoch, mailbox, stop, recovering,
                  alarm, group, token, evidence, call, causal, kind, nc,
                  own_generation, claimed, authority, presses, incidents,
                  interrupted, clean, due>>
  BY DEF Reset!RtAcknowledge, Reset!mailVars, Reset!motionVars, Reset!scratch,
     Reset!elsewhere, Reset!callerVars,
     Reset!ncVars, Reset!alarmVars, Reset!Step, Reset!Branch
<1>2. /\ word' \in Reset!OwnerWord /\ word'.ticket = word.ticket /\ word'.safety = word.safety
      /\ acked' \in Nat /\ acked' <= word.ticket /\ own' = 0
  BY AcknowledgeFacts DEF ResetIInv, Reset!RtAcknowledge
<1>3. \/ rt = "apply ack" /\ rt' = "press"
      \/ rt = "own ack" /\ rt' = "own complete"
      \/ rt = "activate ack" /\ rt' = "help"
      \/ rt = "help ack" /\ rt' = "motion"
      \/ rt = "settled ack" /\ rt' = "settled"
      \/ rt = "trigger ack" /\ rt' = "apply"
  BY DEF Reset!RtAcknowledge, Reset!Step, Reset!Branch
<1>4. Reset!TypeOK'
  <2>1. word' \in Reset!OwnerWord
    BY <1>1, <1>2, <1>3 DEF ResetIInv, Reset!TypeOK
  <2>2. acked' \in Nat
    BY <1>1, <1>2, <1>3 DEF ResetIInv, Reset!TypeOK
  <2>3. rt' \in Reset!Applying \cup Reset!Pressing \cup Reset!Triggering \cup Reset!Passing
    BY <1>1, <1>2, <1>3 DEF ResetIInv, Reset!TypeOK, Reset!Applying, Reset!Pressing,
       Reset!Triggering, Reset!Passing
  <2>4. own' \in Nat
    BY <1>1, <1>2, <1>3 DEF ResetIInv, Reset!TypeOK
  <2> QED BY <1>1, <2>1, <2>2, <2>3, <2>4 DEF ResetIInv, Reset!TypeOK
<1>5. PublishersAreCounted'
  BY <1>1, <1>2, <1>3 DEF ResetIInv, PublishersAreCounted, Publishing, Reset!Pressing,
     Reset!Triggering, Publishes
<1>6. TicketsAreOrdered'
  <2>1. acked' <= word'.ticket /\ own' = 0 /\ word'.ticket \in Nat
    BY <1>2, FieldTypes DEF ResetIInv
  <2> QED BY <2>1 DEF TicketsAreOrdered
<1>7. ApplyIsFenced'
  BY <1>1, <1>2, <1>3 DEF ResetIInv, ApplyIsFenced, Reset!Applying
<1>8. CompletedIsPosted'
  BY <1>1, <1>2, <1>3 DEF ResetIInv, CompletedIsPosted, Reset!Applying, Posted
<1>9. InterruptionIsUnderway'
  BY <1>1, <1>2, <1>3 DEF ResetIInv, InterruptionIsUnderway, Posted, Underway,
     Reset!MailPending
<1>10. PollsKnow'
  BY <1>1, <1>2, <1>3 DEF ResetIInv, PollsKnow, Reset!Polling, Posted, Underway,
     Reset!MailPending
<1>11. TriggerIsKnown'
  BY <1>1, <1>2, <1>3 DEF ResetIInv, TriggerIsKnown, Reset!Triggering
<1>12. MailIsWhole'
  BY <1>1, <1>2, <1>3 DEF ResetIInv, MailIsWhole
<1>13. EpochsAreOrdered'
  BY <1>1, <1>2, <1>3 DEF ResetIInv, EpochsAreOrdered, Capturing, Reset!Triggering
<1>14. OwedIsNew'
  BY <1>1, <1>2, <1>3 DEF ResetIInv, OwedIsNew
<1>15. /\ Reset!EvidenceKept'
  BY <1>1, EvidenceKeptFramed DEF ResetIInv
<1> QED BY <1>4, <1>5, <1>6, <1>7, <1>8, <1>9, <1>10, <1>11, <1>12, <1>13, <1>14,
   <1>15 DEF ResetIInv

(* RT takes motion over for a ticket that has no mailbox. *)
LEMMA HelpKeeps ==
  ASSUME ResetIInv, Reset!Help
  PROVE  ResetIInv'
<1>1. UNCHANGED <<resetPhase, acked, publishers, generation, mailbox, stop, recovering,
                  alarm, group, token, evidence, call, causal, kind, nc, own,
                  own_generation, claimed, authority, presses, incidents,
                  interrupted, clean, due>>
  BY DEF Reset!Help, Reset!mailVars, Reset!motionVars, Reset!scratch, Reset!elsewhere,
     Reset!callerVars, Reset!ncVars,
     Reset!alarmVars, Reset!Branch
<1>2. /\ word' \in Reset!OwnerWord /\ word'.ticket = word.ticket /\ word'.action = word.action
      /\ word.safety => word'.safety
      /\ epoch' \in Nat /\ epoch <= epoch'
  <2>1. CASE Reset!TakeSafety
    BY <2>1, TakeSafetyFacts DEF ResetIInv
  <2>2. CASE UNCHANGED <<word, epoch>>
    BY <2>2, FieldTypes DEF ResetIInv, Reset!TypeOK
  <2> QED BY <2>1, <2>2 DEF Reset!Help
<1>3. /\ 0 < epoch' /\ evidence.from < epoch'
      /\ mailbox.epoch <= epoch' /\ claimed.epoch <= epoch'
      /\ \A u \in Reset!Caller : causal[u] <= epoch'
      /\ rt \in Capturing => own_generation # 0 /\ own_generation <= epoch'
  BY <1>2, EpochsGrow DEF ResetIInv
<1>4. Reset!TypeOK'
  <2>1. word' \in Reset!OwnerWord
    BY <1>1, <1>2 DEF ResetIInv, Reset!TypeOK, Reset!Help, Reset!Branch
  <2>2. epoch' \in Nat
    BY <1>1, <1>2 DEF ResetIInv, Reset!TypeOK, Reset!Help, Reset!Branch
  <2>3. rt' \in Reset!Applying \cup Reset!Pressing \cup Reset!Triggering \cup Reset!Passing
    BY <1>1, <1>2 DEF ResetIInv, Reset!TypeOK, Reset!Applying, Reset!Pressing,
       Reset!Triggering, Reset!Passing, Reset!Help,
       Reset!Branch
  <2> QED BY <1>1, <2>1, <2>2, <2>3 DEF ResetIInv, Reset!TypeOK
<1>5. PublishersAreCounted'
  BY <1>1, <1>2 DEF ResetIInv, PublishersAreCounted, Publishing, Reset!Pressing,
     Reset!Triggering,
     Publishes, Reset!Help, Reset!Branch
<1>6. TicketsAreOrdered'
  BY <1>1, <1>2 DEF ResetIInv, TicketsAreOrdered, Reset!Help, Reset!Branch
<1>7. ApplyIsFenced'
  BY <1>1, <1>2 DEF ResetIInv, ApplyIsFenced, Reset!Applying, Reset!Help, Reset!Branch
<1>8. CompletedIsPosted'
  BY <1>1, <1>2 DEF ResetIInv, CompletedIsPosted, Reset!Applying, Posted, Reset!Help,
     Reset!Branch
<1>9. InterruptionIsUnderway'
  BY <1>1, <1>2 DEF ResetIInv, InterruptionIsUnderway, Posted, Underway, Reset!MailPending,
     Reset!Help, Reset!Branch
<1>10. PollsKnow'
  BY <1>1, <1>2 DEF ResetIInv, PollsKnow, Reset!Polling, Posted, Underway,
     Reset!MailPending, Reset!Help,
     Reset!Branch
<1>11. TriggerIsKnown'
  BY <1>1, <1>2 DEF ResetIInv, TriggerIsKnown, Reset!Triggering, Reset!Help, Reset!Branch
<1>12. MailIsWhole'
  BY <1>1, <1>2 DEF ResetIInv, MailIsWhole, Reset!Help, Reset!Branch
<1>13. EpochsAreOrdered'
  BY <1>1, <1>2, <1>3 DEF ResetIInv, EpochsAreOrdered, Capturing, Reset!Triggering,
     Reset!Help, Reset!Branch
<1>14. OwedIsNew'
  BY <1>1, <1>2 DEF ResetIInv, OwedIsNew, Reset!Help, Reset!Branch
<1>15. /\ Reset!EvidenceKept'
  BY <1>1, EvidenceKeptFramed DEF ResetIInv
<1> QED BY <1>4, <1>5, <1>6, <1>7, <1>8, <1>9, <1>10, <1>11, <1>12, <1>13, <1>14,
   <1>15 DEF ResetIInv

(* A stop that lost its authority is contained. *)
LEMMA LoseStopKeeps ==
  ASSUME ResetIInv, Reset!LoseStop
  PROVE  ResetIInv'
<1>1. UNCHANGED <<acked, publishers, generation, mailbox, stop, recovering, alarm,
                  call, causal, kind, nc, own, own_generation, claimed, authority,
                  presses, incidents, interrupted, clean>>
  BY DEF Reset!LoseStop, Reset!mailVars, Reset!scratch, Reset!elsewhere,
     Reset!callerVars, Reset!ncVars, Reset!alarmVars,
     Reset!Step, Reset!Branch
<1>2. Contained(FALSE, 0)
  <2>1. 0 \in Nat /\ 0 <= epoch  BY DEF ResetIInv, Reset!TypeOK
  <2>2. Reset!Contain(FALSE, 0, TRUE)  BY DEF Reset!LoseStop
  <2> QED BY <2>1, <2>2, ContainFacts DEF ResetIInv
<1>3. /\ 0 < epoch' /\ evidence.from < epoch'
      /\ mailbox.epoch <= epoch' /\ claimed.epoch <= epoch'
      /\ \A u \in Reset!Caller : causal[u] <= epoch'
      /\ rt \in Capturing => own_generation # 0 /\ own_generation <= epoch'
  BY <1>2, EpochsGrow DEF ResetIInv, Contained
<1>4. Reset!TypeOK'
  <2>1. resetPhase' \in Reset!Phases
    BY <1>1, <1>2 DEF ResetIInv, Reset!TypeOK, Reset!Phases, Contained, Reset!LoseStop,
       Reset!Step, Reset!Branch
  <2>2. word' \in Reset!OwnerWord
    BY <1>1, <1>2 DEF ResetIInv, Reset!TypeOK, Contained, Reset!LoseStop, Reset!Step,
       Reset!Branch
  <2>3. epoch' \in Nat
    BY <1>1, <1>2 DEF ResetIInv, Reset!TypeOK, Contained, Reset!LoseStop, Reset!Step,
       Reset!Branch
  <2>4. group' \in {"moving", "stopping", "converging", "still"}
    BY <1>1, <1>2 DEF ResetIInv, Reset!TypeOK, Contained, Reset!LoseStop, Reset!Step,
       Reset!Branch
  <2>5. token' \in Nat
    BY <1>1, <1>2 DEF ResetIInv, Reset!TypeOK, Contained, Reset!LoseStop, Reset!Step,
       Reset!Branch
  <2>6. evidence' \in [from : Nat, to : Nat]
    BY <1>1, <1>2 DEF ResetIInv, Reset!TypeOK, Contained, Reset!LoseStop, Reset!Step,
       Reset!Branch
  <2>7. rt' \in Reset!Applying \cup Reset!Pressing \cup Reset!Triggering \cup Reset!Passing
    BY <1>1, <1>2 DEF ResetIInv, Reset!TypeOK, Reset!Applying, Reset!Pressing,
       Reset!Triggering, Reset!Passing,
       Contained, Reset!LoseStop, Reset!Step, Reset!Branch
  <2>8. due' \subseteq Nat
    BY <1>1, <1>2 DEF ResetIInv, Reset!TypeOK, Contained, Reset!LoseStop, Reset!Step,
       Reset!Branch
  <2> QED BY <1>1, <2>1, <2>2, <2>3, <2>4, <2>5, <2>6, <2>7, <2>8 DEF ResetIInv,
     Reset!TypeOK
<1>5. PublishersAreCounted'
  BY <1>1, <1>2 DEF ResetIInv, PublishersAreCounted, Publishing, Reset!Pressing,
     Reset!Triggering,
     Publishes, Contained, Reset!LoseStop, Reset!Step, Reset!Branch
<1>6. TicketsAreOrdered'
  BY <1>1, <1>2 DEF ResetIInv, TicketsAreOrdered, Contained, Reset!LoseStop,
     Reset!Step, Reset!Branch
<1>7. ApplyIsFenced'
  BY <1>1, <1>2 DEF ResetIInv, ApplyIsFenced, Reset!Applying, Contained,
     Reset!LoseStop, Reset!Step, Reset!Branch
<1>8. CompletedIsPosted'
  BY <1>1, <1>2 DEF ResetIInv, CompletedIsPosted, Reset!Applying, Posted, Contained,
     Reset!LoseStop,
     Reset!Step, Reset!Branch
<1>9. InterruptionIsUnderway'
  BY <1>1, <1>2 DEF ResetIInv, InterruptionIsUnderway, Posted, Underway, Reset!MailPending,
     Contained, Reset!LoseStop, Reset!Step, Reset!Branch
<1>10. PollsKnow'
  BY <1>1, <1>2 DEF ResetIInv, PollsKnow, Reset!Polling, Posted, Underway,
     Reset!MailPending,
     Contained, Reset!LoseStop, Reset!Step, Reset!Branch
<1>11. TriggerIsKnown'
  BY <1>1, <1>2 DEF ResetIInv, TriggerIsKnown, Reset!Triggering, Contained,
     Reset!LoseStop, Reset!Step,
     Reset!Branch
<1>12. MailIsWhole'
  BY <1>1, <1>2 DEF ResetIInv, MailIsWhole, Contained, Reset!LoseStop, Reset!Step,
     Reset!Branch
<1>13. EpochsAreOrdered'
  <2>1. rt' \notin Capturing  BY DEF Reset!LoseStop, Reset!Step, Reset!Branch,
  Capturing, Reset!Triggering
  <2>2. evidence'.from < epoch'  BY <1>2 DEF Contained
  <2> QED BY <1>1, <1>3, <2>1, <2>2 DEF EpochsAreOrdered
<1>14. OwedIsNew'
  BY <1>1, <1>2 DEF ResetIInv, OwedIsNew, Contained, Reset!LoseStop, Reset!Step,
     Reset!Branch
<1>15. Reset!EvidenceKept'
  BY <1>1, <1>2 DEF ResetIInv, Reset!EvidenceKept, Contained, Reset!LoseStop,
     Reset!Step, Reset!Branch
<1> QED BY <1>4, <1>5, <1>6, <1>7, <1>8, <1>9, <1>10, <1>11, <1>12, <1>13, <1>14,
   <1>15 DEF ResetIInv

(* The group brakes. *)
LEMMA BrakeKeeps ==
  ASSUME ResetIInv, Reset!Brake
  PROVE  ResetIInv'
<1>1. UNCHANGED <<resetPhase, word, acked, publishers, generation, epoch, mailbox, stop,
                  recovering, alarm, token, evidence, call, causal, kind, nc, own,
                  own_generation, claimed, authority, presses, incidents,
                  interrupted, clean, due>>
  BY DEF Reset!Brake, Reset!authorityVars, Reset!mailVars, Reset!scratch,
     Reset!elsewhere, Reset!callerVars, Reset!ncVars,
     Reset!alarmVars, Reset!Step, Reset!Branch
<1>2. Reset!TypeOK'
  <2>1. group' \in {"moving", "stopping", "converging", "still"}
    BY <1>1 DEF ResetIInv, Reset!TypeOK, Reset!Brake, Reset!Step, Reset!Authorized,
       Reset!MailPending, Reset!Branch
  <2>2. rt' \in Reset!Applying \cup Reset!Pressing \cup Reset!Triggering \cup Reset!Passing
    BY <1>1 DEF ResetIInv, Reset!TypeOK, Reset!Applying, Reset!Pressing,
       Reset!Triggering, Reset!Passing, Reset!Brake, Reset!Step,
       Reset!Authorized, Reset!MailPending, Reset!Branch
  <2> QED BY <1>1, <2>1, <2>2 DEF ResetIInv, Reset!TypeOK
<1>3. PublishersAreCounted'
  BY <1>1 DEF ResetIInv, PublishersAreCounted, Publishing, Reset!Pressing, Reset!Triggering,
     Publishes, Reset!Brake, Reset!Step, Reset!Authorized, Reset!MailPending, Reset!Branch
<1>4. ApplyIsFenced'
  BY <1>1 DEF ResetIInv, ApplyIsFenced, Reset!Applying, Reset!Brake, Reset!Step,
     Reset!Authorized, Reset!MailPending,
     Reset!Branch
<1>5. CompletedIsPosted'
  BY <1>1 DEF ResetIInv, CompletedIsPosted, Reset!Applying, Posted, Reset!Brake,
     Reset!Step, Reset!Authorized,
     Reset!MailPending, Reset!Branch
<1>6. InterruptionIsUnderway'
  BY <1>1 DEF ResetIInv, InterruptionIsUnderway, Posted, Underway, Reset!MailPending,
     Reset!Brake,
     Reset!Step, Reset!Authorized, Reset!Branch
<1>7. PollsKnow'
  BY <1>1 DEF ResetIInv, PollsKnow, Reset!Polling, Posted, Underway, Reset!MailPending,
     Reset!Brake, Reset!Step,
     Reset!Authorized, Reset!Branch
<1>8. TriggerIsKnown'
  BY <1>1 DEF ResetIInv, TriggerIsKnown, Reset!Triggering, Reset!Brake, Reset!Step,
     Reset!Authorized,
     Reset!MailPending, Reset!Branch
<1>9. MailIsWhole'
  BY <1>1 DEF ResetIInv, MailIsWhole, Reset!Brake, Reset!Step, Reset!Authorized,
     Reset!MailPending, Reset!Branch
<1>10. EpochsAreOrdered'
  BY <1>1 DEF ResetIInv, EpochsAreOrdered, Capturing, Reset!Triggering, Reset!Brake,
     Reset!Step,
     Reset!Authorized, Reset!MailPending, Reset!Branch
<1>11. OwedIsNew'
  BY <1>1 DEF ResetIInv, OwedIsNew, Reset!Brake, Reset!Step, Reset!Authorized,
     Reset!MailPending, Reset!Branch
<1>12. /\ TicketsAreOrdered' /\ Reset!EvidenceKept'
  BY <1>1, TicketsAreOrderedFramed, EvidenceKeptFramed DEF ResetIInv
<1> QED BY <1>2, <1>3, <1>4, <1>5, <1>6, <1>7, <1>8, <1>9, <1>10, <1>11, <1>12 DEF ResetIInv

(* The group has come to rest. *)
LEMMA SettleKeeps ==
  ASSUME ResetIInv, Reset!Settle
  PROVE  ResetIInv'
<1>1. UNCHANGED <<resetPhase, word, acked, publishers, generation, epoch, mailbox, stop,
                  recovering, alarm, evidence, call, causal, kind, nc, own,
                  own_generation, claimed, authority, presses, incidents,
                  interrupted, clean, due>>
  BY DEF Reset!Settle, Reset!authorityVars, Reset!mailVars, Reset!scratch,
     Reset!elsewhere, Reset!callerVars, Reset!ncVars,
     Reset!alarmVars, Reset!Step, Reset!Branch
<1>2. Reset!TypeOK'
  <2>1. group' \in {"moving", "stopping", "converging", "still"}
    BY <1>1 DEF ResetIInv, Reset!TypeOK, Reset!Settle, Reset!Step, Reset!Authorized,
       Reset!MailPending, Reset!Branch
  <2>2. token' \in Nat
    BY <1>1 DEF ResetIInv, Reset!TypeOK, Reset!Settle, Reset!Step, Reset!Authorized,
       Reset!MailPending, Reset!Branch
  <2>3. rt' \in Reset!Applying \cup Reset!Pressing \cup Reset!Triggering \cup Reset!Passing
    BY <1>1 DEF ResetIInv, Reset!TypeOK, Reset!Applying, Reset!Pressing,
       Reset!Triggering, Reset!Passing, Reset!Settle, Reset!Step,
       Reset!Authorized, Reset!MailPending, Reset!Branch
  <2> QED BY <1>1, <2>1, <2>2, <2>3 DEF ResetIInv, Reset!TypeOK
<1>3. PublishersAreCounted'
  BY <1>1 DEF ResetIInv, PublishersAreCounted, Publishing, Reset!Pressing, Reset!Triggering,
     Publishes, Reset!Settle, Reset!Step, Reset!Authorized, Reset!MailPending, Reset!Branch
<1>4. ApplyIsFenced'
  BY <1>1 DEF ResetIInv, ApplyIsFenced, Reset!Applying, Reset!Settle, Reset!Step,
     Reset!Authorized, Reset!MailPending,
     Reset!Branch
<1>5. CompletedIsPosted'
  BY <1>1 DEF ResetIInv, CompletedIsPosted, Reset!Applying, Posted, Reset!Settle,
     Reset!Step, Reset!Authorized,
     Reset!MailPending, Reset!Branch
<1>6. InterruptionIsUnderway'
  BY <1>1 DEF ResetIInv, InterruptionIsUnderway, Posted, Underway, Reset!MailPending,
     Reset!Settle,
     Reset!Step, Reset!Authorized, Reset!Branch
<1>7. PollsKnow'
  BY <1>1 DEF ResetIInv, PollsKnow, Reset!Polling, Posted, Underway, Reset!MailPending,
     Reset!Settle, Reset!Step,
     Reset!Authorized, Reset!Branch
<1>8. TriggerIsKnown'
  BY <1>1 DEF ResetIInv, TriggerIsKnown, Reset!Triggering, Reset!Settle, Reset!Step,
     Reset!Authorized,
     Reset!MailPending, Reset!Branch
<1>9. MailIsWhole'
  BY <1>1 DEF ResetIInv, MailIsWhole, Reset!Settle, Reset!Step, Reset!Authorized,
     Reset!MailPending, Reset!Branch
<1>10. EpochsAreOrdered'
  BY <1>1 DEF ResetIInv, EpochsAreOrdered, Capturing, Reset!Triggering, Reset!Settle,
     Reset!Step,
     Reset!Authorized, Reset!MailPending, Reset!Branch
<1>11. OwedIsNew'
  BY <1>1 DEF ResetIInv, OwedIsNew, Reset!Settle, Reset!Step, Reset!Authorized,
     Reset!MailPending, Reset!Branch
<1>12. /\ TicketsAreOrdered' /\ Reset!EvidenceKept'
  BY <1>1, TicketsAreOrderedFramed, EvidenceKeptFramed DEF ResetIInv
<1> QED BY <1>2, <1>3, <1>4, <1>5, <1>6, <1>7, <1>8, <1>9, <1>10, <1>11, <1>12 DEF ResetIInv

(* The group moves on, or comes to its end. *)
LEMMA MoveKeeps ==
  ASSUME ResetIInv, Reset!Move
  PROVE  ResetIInv'
<1>1. UNCHANGED <<resetPhase, word, acked, publishers, generation, epoch, mailbox, stop,
                  recovering, alarm, token, evidence, call, causal, kind, nc, own,
                  own_generation, claimed, authority, presses, incidents,
                  interrupted, clean, due>>
  BY DEF Reset!Move, Reset!authorityVars, Reset!mailVars, Reset!scratch,
     Reset!elsewhere, Reset!callerVars, Reset!ncVars,
     Reset!alarmVars, Reset!Step, Reset!Branch
<1>2. Reset!TypeOK'
  <2>1. group' \in {"moving", "stopping", "converging", "still"}
    BY <1>1 DEF ResetIInv, Reset!TypeOK, Reset!Move, Reset!Step, Reset!Unacknowledged,
       Reset!Branch
  <2>2. rt' \in Reset!Applying \cup Reset!Pressing \cup Reset!Triggering \cup Reset!Passing
    BY <1>1 DEF ResetIInv, Reset!TypeOK, Reset!Applying, Reset!Pressing,
       Reset!Triggering, Reset!Passing, Reset!Move, Reset!Step,
       Reset!Unacknowledged, Reset!Branch
  <2> QED BY <1>1, <2>1, <2>2 DEF ResetIInv, Reset!TypeOK
<1>3. PublishersAreCounted'
  BY <1>1 DEF ResetIInv, PublishersAreCounted, Publishing, Reset!Pressing, Reset!Triggering,
     Publishes, Reset!Move, Reset!Step, Reset!Unacknowledged, Reset!Branch
<1>4. ApplyIsFenced'
  BY <1>1 DEF ResetIInv, ApplyIsFenced, Reset!Applying, Reset!Move, Reset!Step,
     Reset!Unacknowledged, Reset!Branch
<1>5. CompletedIsPosted'
  BY <1>1 DEF ResetIInv, CompletedIsPosted, Reset!Applying, Posted, Reset!Move,
     Reset!Step, Reset!Unacknowledged,
     Reset!Branch
<1>6. InterruptionIsUnderway'
  BY <1>1 DEF ResetIInv, InterruptionIsUnderway, Posted, Underway, Reset!MailPending,
     Reset!Move,
     Reset!Step, Reset!Unacknowledged, Reset!Branch
<1>7. PollsKnow'
  BY <1>1 DEF ResetIInv, PollsKnow, Reset!Polling, Posted, Underway, Reset!MailPending,
     Reset!Move, Reset!Step,
     Reset!Unacknowledged, Reset!Branch
<1>8. TriggerIsKnown'
  BY <1>1 DEF ResetIInv, TriggerIsKnown, Reset!Triggering, Reset!Move, Reset!Step,
     Reset!Unacknowledged, Reset!Branch
<1>9. MailIsWhole'
  BY <1>1 DEF ResetIInv, MailIsWhole, Reset!Move, Reset!Step, Reset!Unacknowledged,
     Reset!Branch
<1>10. EpochsAreOrdered'
  BY <1>1 DEF ResetIInv, EpochsAreOrdered, Capturing, Reset!Triggering, Reset!Move,
     Reset!Step,
     Reset!Unacknowledged, Reset!Branch
<1>11. OwedIsNew'
  BY <1>1 DEF ResetIInv, OwedIsNew, Reset!Move, Reset!Step, Reset!Unacknowledged,
     Reset!Branch
<1>12. /\ TicketsAreOrdered' /\ Reset!EvidenceKept'
  BY <1>1, TicketsAreOrderedFramed, EvidenceKeptFramed DEF ResetIInv
<1> QED BY <1>2, <1>3, <1>4, <1>5, <1>6, <1>7, <1>8, <1>9, <1>10, <1>11, <1>12 DEF ResetIInv

(* A caller is counted as a publisher and keeps the epoch. *)
LEMMA CallBeginKeeps ==
  ASSUME ResetIInv, NEW t \in Reset!Caller, Reset!CallBegin(t)
  PROVE  ResetIInv'
<1>1. UNCHANGED <<resetPhase, word, acked, epoch, mailbox, stop, recovering, alarm, group,
                  token, evidence, kind, nc, rt, own, own_generation, claimed,
                  authority, presses, incidents, interrupted, clean, due>>
  BY DEF Reset!CallBegin, Reset!mailVars, Reset!motionVars, Reset!ncVars, Reset!rtVars,
     Reset!alarmVars
<1>2. /\ call[t] = "begin" /\ call' = [call EXCEPT ![t] = "ticket"]
      /\ publishers' = publishers + 1 /\ generation' = generation + 1
      /\ causal' = [causal EXCEPT ![t] = epoch]
  BY DEF Reset!CallBegin, Reset!At, Reset!Goto
<1>3. Posted' = Posted
  BY <1>1, <1>2 DEF ResetIInv, Reset!TypeOK, Posted
<1>4. Reset!TypeOK'
  <2>1. publishers' \in Nat
    BY <1>1, <1>2, <1>3 DEF ResetIInv, Reset!TypeOK
  <2>2. generation' \in Nat
    BY <1>1, <1>2, <1>3 DEF ResetIInv, Reset!TypeOK
  <2>3. call' \in [Reset!Caller -> Reset!CallLabel]
    BY <1>1, <1>2, <1>3 DEF ResetIInv, Reset!TypeOK, Reset!CallLabel
  <2>4. causal' \in [Reset!Caller -> Nat]
    BY <1>1, <1>2, <1>3 DEF ResetIInv, Reset!TypeOK
  <2> QED BY <1>1, <2>1, <2>2, <2>3, <2>4 DEF ResetIInv, Reset!TypeOK
<1>5. PublishersAreCounted'
  <2>1. Publishing' = Publishing \cup {t} /\ t \notin Publishing
    BY <1>1, <1>2 DEF ResetIInv, Reset!TypeOK, Publishing, Publishes
  <2>2. /\ IsFiniteSet(Publishing) /\ Cardinality(Publishing) \in Nat /\ rt' = rt
        /\ publishers = Cardinality(Publishing)
                        + (IF rt \in Reset!Pressing \cup Reset!Triggering THEN 1 ELSE 0)
    BY <1>1, NobodyCounted DEF ResetIInv, PublishersAreCounted
  <2>3. IsFiniteSet(Publishing') /\ Cardinality(Publishing') = Cardinality(Publishing) + 1
    BY <2>1, <2>2, OneMore
  <2>4. publishers' = publishers + 1  BY <1>2
  <2> QED BY <2>2, <2>3, <2>4 DEF PublishersAreCounted
<1>6. CompletedIsPosted'
  BY <1>1, <1>2, <1>3 DEF ResetIInv, CompletedIsPosted, Reset!Applying
<1>7. InterruptionIsUnderway'
  BY <1>1, <1>2, <1>3 DEF ResetIInv, InterruptionIsUnderway, Underway, Reset!MailPending
<1>8. PollsKnow'
  BY <1>1, <1>2, <1>3 DEF ResetIInv, PollsKnow, Reset!Polling, Underway, Reset!MailPending
<1>9. EpochsAreOrdered'
  <2>1. \A u \in Reset!Caller : causal'[u] = causal[u] \/ causal'[u] = epoch
    BY <1>2 DEF ResetIInv, Reset!TypeOK
  <2>2. epoch \in Nat  BY DEF ResetIInv, Reset!TypeOK
  <2>3. \A u \in Reset!Caller : causal'[u] <= epoch  BY <2>1, <2>2 DEF ResetIInv,
  EpochsAreOrdered
  <2> QED BY <1>1, <2>3 DEF ResetIInv, EpochsAreOrdered, Capturing
<1>10. /\ TicketsAreOrdered' /\ ApplyIsFenced' /\ TriggerIsKnown' /\ MailIsWhole'
       /\ OwedIsNew' /\ Reset!EvidenceKept'
  BY <1>1, TicketsAreOrderedFramed, ApplyIsFencedFramed, TriggerIsKnownFramed,
     MailIsWholeFramed, OwedIsNewFramed, EvidenceKeptFramed DEF
     ResetIInv
<1> QED BY <1>4, <1>5, <1>6, <1>7, <1>8, <1>9, <1>10 DEF ResetIInv

(* A caller publishes its ticket; its mailbox is still to write. *)
LEMMA CallTicketKeeps ==
  ASSUME ResetIInv, NEW t \in Reset!Caller, Reset!CallTicket(t)
  PROVE  ResetIInv'
<1>1. UNCHANGED <<resetPhase, acked, publishers, generation, epoch, mailbox, stop,
                  recovering, alarm, group, token, evidence, causal, kind, nc, rt,
                  own, own_generation, claimed, authority, presses, incidents, clean,
                  due>>
  BY DEF Reset!CallTicket, Reset!mailVars, Reset!motionVars, Reset!ncVars,
     Reset!rtVars, Reset!alarmVars
<1>2. /\ word' \in Reset!OwnerWord /\ word'.ticket = word.ticket + 1 /\ word'.safety = word.safety
      /\ call[t] = "ticket"
      /\ \E l \in {"stop", "post"} : call' = [call EXCEPT ![t] = l]
      /\ interrupted' = (interrupted \/ Reset!Waiting)
  BY NextTicketFacts, FieldTypes DEF ResetIInv, Reset!TypeOK, Reset!CallTicket,
     Reset!At, Reset!Goto
<1>3. /\ word'.ticket = word.ticket + 1 /\ word.ticket \in Nat
      /\ acked \in Nat /\ acked <= word.ticket /\ own \in Nat /\ own <= word.ticket
  BY <1>2, FieldTypes DEF ResetIInv, Reset!TypeOK, TicketsAreOrdered
<1>4. ~Posted' /\ (Posted' => Posted)
  BY <1>1, <1>2 DEF ResetIInv, Reset!TypeOK, Posted
<1>5. Reset!TypeOK'
  <2>1. word' \in Reset!OwnerWord
    BY <1>1, <1>2, <1>3, <1>4 DEF ResetIInv, Reset!TypeOK
  <2>2. call' \in [Reset!Caller -> Reset!CallLabel]
    BY <1>1, <1>2, <1>3, <1>4 DEF ResetIInv, Reset!TypeOK, Reset!CallLabel
  <2>3. interrupted' \in BOOLEAN
    BY <1>1, <1>2, <1>3, <1>4 DEF ResetIInv, Reset!TypeOK
  <2> QED BY <1>1, <2>1, <2>2, <2>3 DEF ResetIInv, Reset!TypeOK
<1>6. PublishersAreCounted'
  <2>1. Publishing' = Publishing
    BY <1>1, <1>2 DEF ResetIInv, Reset!TypeOK, Publishing, Publishes
  <2> QED BY <1>1, <2>1 DEF ResetIInv, PublishersAreCounted
<1>7. TicketsAreOrdered'
  <2>1. acked' = acked /\ own' = own  BY <1>1
  <2> QED BY <1>3, <2>1 DEF TicketsAreOrdered
<1>8. ApplyIsFenced'
  <2>1. word'.ticket # acked  BY <1>3
  <2> QED BY <1>1, <1>2, <2>1 DEF ResetIInv, ApplyIsFenced
<1>9. CompletedIsPosted'
  <2>1. word'.ticket # own  BY <1>3
  <2> QED BY <1>1, <2>1 DEF ResetIInv, CompletedIsPosted
<1>10. InterruptionIsUnderway'
  BY <1>1, <1>2, <1>3, <1>4 DEF ResetIInv, InterruptionIsUnderway, Underway,
     Reset!MailPending
<1>11. PollsKnow'
  BY <1>1, <1>2, <1>3, <1>4 DEF ResetIInv, PollsKnow, Reset!Polling, Underway,
     Reset!MailPending
<1>12. /\ TriggerIsKnown' /\ MailIsWhole' /\ EpochsAreOrdered' /\ OwedIsNew'
       /\ Reset!EvidenceKept'
  BY <1>1, TriggerIsKnownFramed, MailIsWholeFramed, EpochsAreOrderedFramed,
     OwedIsNewFramed, EvidenceKeptFramed DEF
     ResetIInv
<1> QED BY <1>5, <1>6, <1>7, <1>8, <1>9, <1>10, <1>11, <1>12 DEF ResetIInv

(* A caller leaves its group stop. *)
LEMMA PostStopKeeps ==
  ASSUME ResetIInv, NEW t \in Reset!Caller, Reset!PostStop(t)
  PROVE  ResetIInv'
<1>1. UNCHANGED <<resetPhase, word, acked, publishers, generation, epoch, mailbox,
                  recovering, alarm, group, token, evidence, causal, kind, nc, rt,
                  own, own_generation, claimed, authority, presses, incidents,
                  interrupted, clean, due>>
  BY DEF Reset!PostStop, Reset!authorityVars, Reset!motionVars, Reset!ncVars,
     Reset!rtVars, Reset!alarmVars
<1>2. /\ call[t] = "stop" /\ call' = [call EXCEPT ![t] = "take"]
      /\ stop' = TRUE
  BY DEF Reset!PostStop, Reset!At, Reset!Goto
<1>3. Reset!MailPending' /\ Underway' /\ ~Posted /\ (Posted => Posted')
  <2>1. t \in Reset!Caller /\ call[t] \in {"post", "stop"}  BY <1>2
  <2>2. ~Posted  BY <2>1 DEF Posted
  <2>3. Reset!MailPending'  BY <1>1, <1>2, FieldTypes DEF ResetIInv, Reset!TypeOK,
  Reset!MailPending, Reset!Mail, Reset!Request
  <2> QED BY <2>2, <2>3 DEF Underway
<1>4. Reset!TypeOK'
  <2>1. stop' \in BOOLEAN
    BY <1>1, <1>2, <1>3 DEF ResetIInv, Reset!TypeOK
  <2>2. call' \in [Reset!Caller -> Reset!CallLabel]
    BY <1>1, <1>2, <1>3 DEF ResetIInv, Reset!TypeOK, Reset!CallLabel
  <2> QED BY <1>1, <2>1, <2>2 DEF ResetIInv, Reset!TypeOK
<1>5. PublishersAreCounted'
  <2>1. Publishing' = Publishing
    BY <1>1, <1>2 DEF ResetIInv, Reset!TypeOK, Publishing, Publishes
  <2> QED BY <1>1, <2>1 DEF ResetIInv, PublishersAreCounted
<1>6. CompletedIsPosted'
  BY <1>1, <1>2, <1>3 DEF ResetIInv, CompletedIsPosted, Reset!Applying
<1>7. InterruptionIsUnderway'
  BY <1>1, <1>2, <1>3 DEF ResetIInv, InterruptionIsUnderway, Underway, Reset!MailPending
<1>8. PollsKnow'
  BY <1>1, <1>2, <1>3 DEF ResetIInv, PollsKnow, Reset!Polling, Underway, Reset!MailPending
<1>9. /\ TicketsAreOrdered' /\ ApplyIsFenced' /\ TriggerIsKnown' /\ MailIsWhole'
      /\ EpochsAreOrdered' /\ OwedIsNew' /\ Reset!EvidenceKept'
  BY <1>1, TicketsAreOrderedFramed, ApplyIsFencedFramed, TriggerIsKnownFramed,
     MailIsWholeFramed, EpochsAreOrderedFramed, OwedIsNewFramed, EvidenceKeptFramed DEF
     ResetIInv
<1> QED BY <1>4, <1>5, <1>6, <1>7, <1>8, <1>9 DEF ResetIInv

(* A caller leaves its emergency stop; evidence stays what it is. *)
LEMMA PostKeeps ==
  ASSUME ResetIInv, NEW t \in Reset!Caller, Reset!Post(t)
  PROVE  ResetIInv'
<1>1. UNCHANGED <<resetPhase, word, acked, publishers, generation, epoch, stop,
                  recovering, alarm, group, token, evidence, causal, kind, nc, rt,
                  own, own_generation, claimed, authority, presses, incidents,
                  interrupted, clean, due>>
  BY DEF Reset!Post, Reset!authorityVars, Reset!motionVars, Reset!ncVars, Reset!rtVars,
     Reset!alarmVars
<1>2. /\ call[t] = "post" /\ call' = [call EXCEPT ![t] = "take"]
      /\ mailbox' \in Reset!Mail /\ mailbox'.pending /\ mailbox'.evidence = mailbox.evidence
      /\ mailbox.evidence => mailbox'.epoch = mailbox.epoch
      /\ mailbox'.epoch <= epoch
  <2>1. call[t] = "post" /\ call' = [call EXCEPT ![t] = "take"]  BY DEF Reset!Post,
  Reset!At, Reset!Goto
  <2>2. /\ mailbox \in Reset!Mail /\ mailbox.epoch <= epoch
        /\ causal[t] \in Nat /\ causal[t] <= epoch
    BY DEF ResetIInv, Reset!TypeOK, EpochsAreOrdered
  <2>3. CASE mailbox.pending
    <3>1. mailbox' = mailbox  BY <2>3 DEF Reset!Post
    <3> QED BY <2>1, <2>2, <2>3, <3>1
  <2>4. CASE ~mailbox.pending
    <3>1. mailbox' = Reset!Request(causal[t], FALSE)  BY <2>4 DEF Reset!Post
    <3>2. mailbox.evidence = FALSE  BY <2>4, FieldTypes DEF ResetIInv, MailIsWhole
    <3>3. /\ mailbox' \in Reset!Mail /\ mailbox'.pending /\ mailbox'.evidence = FALSE
          /\ mailbox'.epoch = causal[t]
      BY <2>2, <3>1 DEF Reset!Request, Reset!Mail
    <3> QED BY <2>1, <2>2, <3>2, <3>3
  <2> QED BY <2>3, <2>4
<1>3. Reset!MailPending' /\ Underway' /\ ~Posted /\ (Posted => Posted')
  <2>1. t \in Reset!Caller /\ call[t] \in {"post", "stop"}  BY <1>2
  <2>2. ~Posted  BY <2>1 DEF Posted
  <2>3. Reset!MailPending'  BY <1>2 DEF Reset!MailPending
  <2> QED BY <2>2, <2>3 DEF Underway
<1>4. Reset!TypeOK'
  <2>1. mailbox' \in Reset!Mail
    BY <1>1, <1>2, <1>3 DEF ResetIInv, Reset!TypeOK, Reset!Mail
  <2>2. call' \in [Reset!Caller -> Reset!CallLabel]
    BY <1>1, <1>2, <1>3 DEF ResetIInv, Reset!TypeOK, Reset!CallLabel
  <2> QED BY <1>1, <2>1, <2>2 DEF ResetIInv, Reset!TypeOK
<1>5. PublishersAreCounted'
  <2>1. Publishing' = Publishing
    BY <1>1, <1>2 DEF ResetIInv, Reset!TypeOK, Publishing, Publishes
  <2> QED BY <1>1, <2>1 DEF ResetIInv, PublishersAreCounted
<1>6. CompletedIsPosted'
  BY <1>1, <1>2, <1>3 DEF ResetIInv, CompletedIsPosted, Reset!Applying
<1>7. InterruptionIsUnderway'
  BY <1>1, <1>2, <1>3 DEF ResetIInv, InterruptionIsUnderway, Underway, Reset!MailPending
<1>8. PollsKnow'
  BY <1>1, <1>2, <1>3 DEF ResetIInv, PollsKnow, Reset!Polling, Underway, Reset!MailPending
<1>9. MailIsWhole'
  <2>1. /\ rt' = rt /\ claimed' = claimed /\ due' = due /\ authority' = authority
    BY <1>1
  <2>2. /\ mailbox'.pending /\ mailbox'.evidence = mailbox.evidence
        /\ mailbox.evidence => mailbox'.epoch = mailbox.epoch
    BY <1>2
  <2> QED BY <2>1, <2>2 DEF ResetIInv, MailIsWhole
<1>10. EpochsAreOrdered'
  <2>1. mailbox'.epoch <= epoch'  BY <1>1, <1>2
  <2> QED BY <1>1, <2>1 DEF ResetIInv, EpochsAreOrdered, Capturing
<1>11. Reset!EvidenceKept'
  <2>1. claimed' = claimed /\ due' = due  BY <1>1
  <2>2. /\ mailbox'.pending /\ mailbox'.evidence = mailbox.evidence
        /\ mailbox.evidence => mailbox'.epoch = mailbox.epoch
    BY <1>2
  <2> QED BY <2>1, <2>2 DEF ResetIInv, Reset!EvidenceKept
<1>12. /\ TicketsAreOrdered' /\ ApplyIsFenced' /\ TriggerIsKnown' /\ OwedIsNew'
  BY <1>1, TicketsAreOrderedFramed, ApplyIsFencedFramed, TriggerIsKnownFramed,
     OwedIsNewFramed DEF
     ResetIInv
<1> QED BY <1>4, <1>5, <1>6, <1>7, <1>8, <1>9, <1>10, <1>11, <1>12 DEF ResetIInv

(* The same with the pending bit alone. *)
LEMMA PostFallbackKeeps ==
  ASSUME ResetIInv, NEW t \in Reset!Caller, Reset!PostFallback(t)
  PROVE  ResetIInv'
<1>1. UNCHANGED <<resetPhase, word, acked, publishers, generation, epoch, stop,
                  recovering, alarm, group, token, evidence, causal, kind, nc, rt,
                  own, own_generation, claimed, authority, presses, incidents,
                  interrupted, clean, due>>
  BY DEF Reset!PostFallback, Reset!authorityVars, Reset!motionVars, Reset!ncVars,
     Reset!rtVars, Reset!alarmVars
<1>2. /\ call[t] = "post" /\ call' = [call EXCEPT ![t] = "take"]
      /\ mailbox' \in Reset!Mail /\ mailbox'.pending /\ mailbox'.evidence = mailbox.evidence
      /\ mailbox.evidence => mailbox'.epoch = mailbox.epoch
      /\ mailbox'.epoch <= epoch
  <2>1. call[t] = "post" /\ call' = [call EXCEPT ![t] = "take"]
    BY DEF Reset!PostFallback, Reset!At, Reset!Goto
  <2>2. mailbox \in Reset!Mail /\ mailbox.epoch <= epoch  BY DEF ResetIInv,
  Reset!TypeOK, EpochsAreOrdered
  <2>3. mailbox' = [mailbox EXCEPT !.pending = TRUE]  BY DEF Reset!PostFallback,
  Reset!Flagged
  <2>4. /\ mailbox' \in Reset!Mail /\ mailbox'.pending /\ mailbox'.evidence = mailbox.evidence
        /\ mailbox'.epoch = mailbox.epoch
    BY <2>2, <2>3 DEF Reset!Mail
  <2> QED BY <2>1, <2>2, <2>4
<1>3. Reset!MailPending' /\ Underway' /\ ~Posted /\ (Posted => Posted')
  <2>1. t \in Reset!Caller /\ call[t] \in {"post", "stop"}  BY <1>2
  <2>2. ~Posted  BY <2>1 DEF Posted
  <2>3. Reset!MailPending'  BY <1>2 DEF Reset!MailPending
  <2> QED BY <2>2, <2>3 DEF Underway
<1>4. Reset!TypeOK'
  <2>1. mailbox' \in Reset!Mail
    BY <1>1, <1>2, <1>3 DEF ResetIInv, Reset!TypeOK, Reset!Mail
  <2>2. call' \in [Reset!Caller -> Reset!CallLabel]
    BY <1>1, <1>2, <1>3 DEF ResetIInv, Reset!TypeOK, Reset!CallLabel
  <2> QED BY <1>1, <2>1, <2>2 DEF ResetIInv, Reset!TypeOK
<1>5. PublishersAreCounted'
  <2>1. Publishing' = Publishing
    BY <1>1, <1>2 DEF ResetIInv, Reset!TypeOK, Publishing, Publishes
  <2> QED BY <1>1, <2>1 DEF ResetIInv, PublishersAreCounted
<1>6. CompletedIsPosted'
  BY <1>1, <1>2, <1>3 DEF ResetIInv, CompletedIsPosted, Reset!Applying
<1>7. InterruptionIsUnderway'
  BY <1>1, <1>2, <1>3 DEF ResetIInv, InterruptionIsUnderway, Underway, Reset!MailPending
<1>8. PollsKnow'
  BY <1>1, <1>2, <1>3 DEF ResetIInv, PollsKnow, Reset!Polling, Underway, Reset!MailPending
<1>9. MailIsWhole'
  <2>1. /\ rt' = rt /\ claimed' = claimed /\ due' = due /\ authority' = authority
    BY <1>1
  <2>2. /\ mailbox'.pending /\ mailbox'.evidence = mailbox.evidence
        /\ mailbox.evidence => mailbox'.epoch = mailbox.epoch
    BY <1>2
  <2> QED BY <2>1, <2>2 DEF ResetIInv, MailIsWhole
<1>10. EpochsAreOrdered'
  <2>1. mailbox'.epoch <= epoch'  BY <1>1, <1>2
  <2> QED BY <1>1, <2>1 DEF ResetIInv, EpochsAreOrdered, Capturing
<1>11. Reset!EvidenceKept'
  <2>1. claimed' = claimed /\ due' = due  BY <1>1
  <2>2. /\ mailbox'.pending /\ mailbox'.evidence = mailbox.evidence
        /\ mailbox.evidence => mailbox'.epoch = mailbox.epoch
    BY <1>2
  <2> QED BY <2>1, <2>2 DEF ResetIInv, Reset!EvidenceKept
<1>12. /\ TicketsAreOrdered' /\ ApplyIsFenced' /\ TriggerIsKnown' /\ OwedIsNew'
  BY <1>1, TicketsAreOrderedFramed, ApplyIsFencedFramed, TriggerIsKnownFramed,
     OwedIsNewFramed DEF
     ResetIInv
<1> QED BY <1>4, <1>5, <1>6, <1>7, <1>8, <1>9, <1>10, <1>11, <1>12 DEF ResetIInv

(* A caller takes motion over. *)
LEMMA CallTakeKeeps ==
  ASSUME ResetIInv, NEW t \in Reset!Caller, Reset!CallTake(t)
  PROVE  ResetIInv'
<1>1. UNCHANGED <<resetPhase, acked, publishers, generation, mailbox, stop, recovering,
                  alarm, group, token, evidence, causal, kind, nc, rt, own,
                  own_generation, claimed, authority, presses, incidents,
                  interrupted, clean, due>>
  BY DEF Reset!CallTake, Reset!mailVars, Reset!motionVars, Reset!ncVars, Reset!rtVars,
     Reset!alarmVars
<1>2. /\ word' \in Reset!OwnerWord /\ word'.ticket = word.ticket /\ word'.action = word.action
      /\ word.safety => word'.safety
      /\ epoch' \in Nat /\ epoch <= epoch'
      /\ call[t] = "take" /\ call' = [call EXCEPT ![t] = "end"]
  BY TakeSafetyFacts DEF ResetIInv, Reset!CallTake, Reset!At, Reset!Goto
<1>3. Posted' = Posted
  BY <1>1, <1>2 DEF ResetIInv, Reset!TypeOK, Posted
<1>4. /\ 0 < epoch' /\ evidence.from < epoch'
      /\ mailbox.epoch <= epoch' /\ claimed.epoch <= epoch'
      /\ \A u \in Reset!Caller : causal[u] <= epoch'
      /\ rt \in Capturing => own_generation # 0 /\ own_generation <= epoch'
  BY <1>2, EpochsGrow DEF ResetIInv
<1>5. Reset!TypeOK'
  <2>1. word' \in Reset!OwnerWord
    BY <1>1, <1>2, <1>3 DEF ResetIInv, Reset!TypeOK
  <2>2. epoch' \in Nat
    BY <1>1, <1>2, <1>3 DEF ResetIInv, Reset!TypeOK
  <2>3. call' \in [Reset!Caller -> Reset!CallLabel]
    BY <1>1, <1>2, <1>3 DEF ResetIInv, Reset!TypeOK, Reset!CallLabel
  <2> QED BY <1>1, <2>1, <2>2, <2>3 DEF ResetIInv, Reset!TypeOK
<1>6. PublishersAreCounted'
  <2>1. Publishing' = Publishing
    BY <1>1, <1>2 DEF ResetIInv, Reset!TypeOK, Publishing, Publishes
  <2> QED BY <1>1, <2>1 DEF ResetIInv, PublishersAreCounted
<1>7. TicketsAreOrdered'
  BY <1>1, <1>2, <1>3 DEF ResetIInv, TicketsAreOrdered
<1>8. ApplyIsFenced'
  BY <1>1, <1>2, <1>3 DEF ResetIInv, ApplyIsFenced, Reset!Applying
<1>9. CompletedIsPosted'
  BY <1>1, <1>2, <1>3 DEF ResetIInv, CompletedIsPosted, Reset!Applying
<1>10. InterruptionIsUnderway'
  BY <1>1, <1>2, <1>3 DEF ResetIInv, InterruptionIsUnderway, Underway, Reset!MailPending
<1>11. PollsKnow'
  BY <1>1, <1>2, <1>3 DEF ResetIInv, PollsKnow, Reset!Polling, Underway, Reset!MailPending
<1>12. EpochsAreOrdered'
  BY <1>1, <1>2, <1>3, <1>4 DEF ResetIInv, EpochsAreOrdered, Capturing, Reset!Triggering
<1>13. /\ TriggerIsKnown' /\ MailIsWhole' /\ OwedIsNew' /\ Reset!EvidenceKept'
  BY <1>1, TriggerIsKnownFramed, MailIsWholeFramed, OwedIsNewFramed, EvidenceKeptFramed DEF
     ResetIInv
<1> QED BY <1>5, <1>6, <1>7, <1>8, <1>9, <1>10, <1>11, <1>12, <1>13 DEF ResetIInv

(* A caller is no longer counted. *)
LEMMA CallEndKeeps ==
  ASSUME ResetIInv, NEW t \in Reset!Caller, Reset!CallEnd(t)
  PROVE  ResetIInv'
<1>1. UNCHANGED <<resetPhase, word, acked, generation, epoch, mailbox, stop, recovering,
                  alarm, group, token, evidence, kind, nc, rt, own, own_generation,
                  claimed, authority, presses, incidents, interrupted, clean, due>>
  BY DEF Reset!CallEnd, Reset!mailVars, Reset!motionVars, Reset!ncVars, Reset!rtVars,
     Reset!alarmVars
<1>2. /\ call[t] = "end" /\ \E l \in {"idle", "done"} : call' = [call EXCEPT ![t] = l]
      /\ publishers' = publishers - 1 /\ causal' = [causal EXCEPT ![t] = 0]
  BY DEF Reset!CallEnd, Reset!At, Reset!Goto
<1>3. Posted' = Posted
  BY <1>1, <1>2 DEF ResetIInv, Reset!TypeOK, Posted
<1>4. Reset!TypeOK'
  <2>1. publishers' \in Nat
    <3>1. t \in Publishing  BY <1>2 DEF Publishing, Publishes
    <3>2. IsFiniteSet(Publishing) /\ Cardinality(Publishing) \in Nat /\ publishers \in Nat
      BY NobodyCounted DEF ResetIInv, PublishersAreCounted
    <3>3. publishers # 0  BY <3>1, NobodyCounted DEF ResetIInv
    <3> QED BY <1>2, <3>2, <3>3
  <2>2. call' \in [Reset!Caller -> Reset!CallLabel]
    BY <1>1, <1>2, <1>3 DEF ResetIInv, Reset!TypeOK, Reset!CallLabel
  <2>3. causal' \in [Reset!Caller -> Nat]
    BY <1>1, <1>2, <1>3 DEF ResetIInv, Reset!TypeOK
  <2> QED BY <1>1, <2>1, <2>2, <2>3 DEF ResetIInv, Reset!TypeOK
<1>5. PublishersAreCounted'
  <2>1. Publishing' = Publishing \ {t} /\ t \in Publishing
    BY <1>1, <1>2 DEF ResetIInv, Reset!TypeOK, Publishing, Publishes
  <2>2. /\ IsFiniteSet(Publishing) /\ Cardinality(Publishing) \in Nat /\ rt' = rt
        /\ publishers = Cardinality(Publishing)
                        + (IF rt \in Reset!Pressing \cup Reset!Triggering THEN 1 ELSE 0)
    BY <1>1, NobodyCounted DEF ResetIInv, PublishersAreCounted
  <2>3. IsFiniteSet(Publishing') /\ Cardinality(Publishing') = Cardinality(Publishing) - 1
    BY <2>1, <2>2, OneLess
  <2>4. publishers' = publishers - 1  BY <1>2
  <2> QED BY <2>2, <2>3, <2>4 DEF PublishersAreCounted
<1>6. CompletedIsPosted'
  BY <1>1, <1>2, <1>3 DEF ResetIInv, CompletedIsPosted, Reset!Applying
<1>7. InterruptionIsUnderway'
  BY <1>1, <1>2, <1>3 DEF ResetIInv, InterruptionIsUnderway, Underway, Reset!MailPending
<1>8. PollsKnow'
  BY <1>1, <1>2, <1>3 DEF ResetIInv, PollsKnow, Reset!Polling, Underway, Reset!MailPending
<1>9. EpochsAreOrdered'
  <2>1. \A u \in Reset!Caller : causal'[u] = causal[u] \/ causal'[u] = 0
    BY <1>2 DEF ResetIInv, Reset!TypeOK
  <2>2. epoch \in Nat  BY DEF ResetIInv, Reset!TypeOK
  <2>3. \A u \in Reset!Caller : causal'[u] <= epoch  BY <2>1, <2>2 DEF ResetIInv,
  EpochsAreOrdered
  <2> QED BY <1>1, <2>3 DEF ResetIInv, EpochsAreOrdered, Capturing
<1>10. /\ TicketsAreOrdered' /\ ApplyIsFenced' /\ TriggerIsKnown' /\ MailIsWhole'
       /\ OwedIsNew' /\ Reset!EvidenceKept'
  BY <1>1, TicketsAreOrderedFramed, ApplyIsFencedFramed, TriggerIsKnownFramed,
     MailIsWholeFramed, OwedIsNewFramed, EvidenceKeptFramed DEF
     ResetIInv
<1> QED BY <1>4, <1>5, <1>6, <1>7, <1>8, <1>9, <1>10 DEF ResetIInv

(* The NC sees a phase that is no longer in progress. *)
LEMMA PollPhaseKeeps ==
  ASSUME ResetIInv, Reset!PollPhase
  PROVE  ResetIInv'
<1>1. UNCHANGED <<resetPhase, word, acked, publishers, generation, epoch, mailbox, stop,
                  recovering, alarm, group, token, evidence, call, causal, kind, rt,
                  own, own_generation, claimed, authority, presses, incidents,
                  interrupted, due>>
  BY DEF Reset!PollPhase, Reset!aside, Reset!authorityVars, Reset!mailVars,
     Reset!motionVars, Reset!callerVars, Reset!rtVars,
     Reset!alarmVars, Reset!Poll
<1>2. Reset!TypeOK'
  <2>1. nc' \in Reset!Polling \cup {"run", "waiting", "blocked", "alarm", "batch"}
    BY <1>1 DEF ResetIInv, Reset!TypeOK, Reset!Polling, Reset!PollPhase, Reset!Poll
  <2>2. clean' \in BOOLEAN
    BY <1>1 DEF ResetIInv, Reset!TypeOK, Reset!PollPhase, Reset!Poll
  <2> QED BY <1>1, <2>1, <2>2 DEF ResetIInv, Reset!TypeOK
<1>3. PollsKnow'
  <2>1. /\ nc' = "poll publishers" /\ resetPhase \notin {"PENDING", "APPLYING", "ACTIVE"}
        /\ clean' = ~interrupted
    BY DEF Reset!PollPhase, Reset!Poll
  <2>2. Posted' = Posted /\ Underway' = Underway
    BY <1>1 DEF Posted, Underway, Reset!MailPending
  <2>3. resetPhase = "COMPLETED" /\ ~clean' => ~Posted \/ Underway
    BY <2>1 DEF ResetIInv, InterruptionIsUnderway
  <2> QED BY <1>1, <2>1, <2>2, <2>3 DEF PollsKnow
<1>4. /\ PublishersAreCounted' /\ TicketsAreOrdered' /\ ApplyIsFenced'
      /\ CompletedIsPosted' /\ InterruptionIsUnderway' /\ TriggerIsKnown'
      /\ MailIsWhole' /\ EpochsAreOrdered' /\ OwedIsNew' /\ Reset!EvidenceKept'
  BY <1>1, PublishersAreCountedFramed, TicketsAreOrderedFramed, ApplyIsFencedFramed,
     CompletedIsPostedFramed, InterruptionIsUnderwayFramed, TriggerIsKnownFramed,
     MailIsWholeFramed, EpochsAreOrderedFramed, OwedIsNewFramed, EvidenceKeptFramed DEF
     ResetIInv
<1> QED BY <1>2, <1>3, <1>4 DEF ResetIInv

(* It saw nobody publish: an interruption has left its request. *)
LEMMA PollPublishersKeeps ==
  ASSUME ResetIInv, Reset!PollPublishers
  PROVE  ResetIInv'
<1>1. UNCHANGED <<resetPhase, word, acked, publishers, generation, epoch, mailbox, stop,
                  recovering, alarm, group, token, evidence, call, causal, kind, rt,
                  own, own_generation, claimed, authority, presses, incidents,
                  interrupted, clean, due>>
  BY DEF Reset!PollPublishers, Reset!aside, Reset!authorityVars, Reset!mailVars,
     Reset!motionVars, Reset!callerVars,
     Reset!rtVars, Reset!alarmVars, Reset!Poll
<1>2. Reset!TypeOK'
  <2>1. nc' \in Reset!Polling \cup {"run", "waiting", "blocked", "alarm", "batch"}
    BY <1>1 DEF ResetIInv, Reset!TypeOK, Reset!Polling, Reset!PollPublishers, Reset!Poll
  <2> QED BY <1>1, <2>1 DEF ResetIInv, Reset!TypeOK
<1>3. PollsKnow'
  <2>1. /\ nc = "poll publishers" /\ nc' \in {"poll word", "waiting"}
        /\ nc' = "poll word" => publishers = 0
    BY DEF Reset!PollPublishers, Reset!Poll
  <2>2. Underway => Underway'  BY <1>1 DEF Underway, Reset!MailPending
  <2>3. publishers = 0 => Posted  BY NobodyCounted DEF ResetIInv
  <2>4. resetPhase \notin {"PENDING", "APPLYING", "ACTIVE"}
    BY <2>1 DEF ResetIInv, PollsKnow, Reset!Polling
  <2>5. resetPhase = "COMPLETED" /\ ~clean => ~Posted \/ Underway
    BY <2>1 DEF ResetIInv, PollsKnow
  <2>6. (~clean' => ~clean) /\ resetPhase' = resetPhase /\ alarm' = alarm  BY <1>1
  <2> QED BY <2>1, <2>2, <2>3, <2>4, <2>5, <2>6 DEF PollsKnow
<1>4. /\ PublishersAreCounted' /\ TicketsAreOrdered' /\ ApplyIsFenced'
      /\ CompletedIsPosted' /\ InterruptionIsUnderway' /\ TriggerIsKnown'
      /\ MailIsWhole' /\ EpochsAreOrdered' /\ OwedIsNew' /\ Reset!EvidenceKept'
  BY <1>1, PublishersAreCountedFramed, TicketsAreOrderedFramed, ApplyIsFencedFramed,
     CompletedIsPostedFramed, InterruptionIsUnderwayFramed, TriggerIsKnownFramed,
     MailIsWholeFramed, EpochsAreOrderedFramed, OwedIsNewFramed, EvidenceKeptFramed DEF
     ResetIInv
<1> QED BY <1>2, <1>3, <1>4 DEF ResetIInv

(* It saw every ticket acknowledged. *)
LEMMA PollWordKeeps ==
  ASSUME ResetIInv, Reset!PollWord
  PROVE  ResetIInv'
<1>1. UNCHANGED <<resetPhase, word, acked, publishers, generation, epoch, mailbox, stop,
                  recovering, alarm, group, token, evidence, call, causal, kind, rt,
                  own, own_generation, claimed, authority, presses, incidents,
                  interrupted, clean, due>>
  BY DEF Reset!PollWord, Reset!aside, Reset!authorityVars, Reset!mailVars,
     Reset!motionVars, Reset!callerVars, Reset!rtVars,
     Reset!alarmVars, Reset!Poll
<1>2. Reset!TypeOK'
  <2>1. nc' \in Reset!Polling \cup {"run", "waiting", "blocked", "alarm", "batch"}
    BY <1>1 DEF ResetIInv, Reset!TypeOK, Reset!Polling, Reset!PollWord, Reset!Poll,
       Reset!Unacknowledged
  <2> QED BY <1>1, <2>1 DEF ResetIInv, Reset!TypeOK
<1>3. PollsKnow'
  <2>1. nc = "poll word" /\ nc' \in {"poll mail", "waiting"}
    BY DEF Reset!PollWord, Reset!Poll
  <2>2. Underway => Underway'  BY <1>1 DEF Underway, Reset!MailPending
  <2>3. resetPhase \notin {"PENDING", "APPLYING", "ACTIVE"}
    BY <2>1 DEF ResetIInv, PollsKnow, Reset!Polling
  <2>4. resetPhase = "COMPLETED" /\ ~clean => Underway
    BY <2>1 DEF ResetIInv, PollsKnow
  <2>5. (~clean' => ~clean) /\ resetPhase' = resetPhase /\ alarm' = alarm  BY <1>1
  <2> QED BY <2>1, <2>2, <2>3, <2>4, <2>5 DEF PollsKnow
<1>4. /\ PublishersAreCounted' /\ TicketsAreOrdered' /\ ApplyIsFenced'
      /\ CompletedIsPosted' /\ InterruptionIsUnderway' /\ TriggerIsKnown'
      /\ MailIsWhole' /\ EpochsAreOrdered' /\ OwedIsNew' /\ Reset!EvidenceKept'
  BY <1>1, PublishersAreCountedFramed, TicketsAreOrderedFramed, ApplyIsFencedFramed,
     CompletedIsPostedFramed, InterruptionIsUnderwayFramed, TriggerIsKnownFramed,
     MailIsWholeFramed, EpochsAreOrderedFramed, OwedIsNewFramed, EvidenceKeptFramed DEF
     ResetIInv
<1> QED BY <1>2, <1>3, <1>4 DEF ResetIInv

(* It saw no request: an interruption has raised its alarm. *)
LEMMA PollMailKeeps ==
  ASSUME ResetIInv, Reset!PollMail
  PROVE  ResetIInv'
<1>1. UNCHANGED <<resetPhase, word, acked, publishers, generation, epoch, mailbox, stop,
                  recovering, alarm, group, token, evidence, call, causal, kind, rt,
                  own, own_generation, claimed, authority, presses, incidents,
                  interrupted, clean, due>>
  BY DEF Reset!PollMail, Reset!aside, Reset!authorityVars, Reset!mailVars,
     Reset!motionVars, Reset!callerVars, Reset!rtVars,
     Reset!alarmVars, Reset!Poll
<1>2. Reset!TypeOK'
  <2>1. nc' \in Reset!Polling \cup {"run", "waiting", "blocked", "alarm", "batch"}
    BY <1>1 DEF ResetIInv, Reset!TypeOK, Reset!Polling, Reset!PollMail, Reset!Poll,
       Reset!MailPending
  <2> QED BY <1>1, <2>1 DEF ResetIInv, Reset!TypeOK
<1>3. PollsKnow'
  <2>1. nc = "poll mail" /\ nc' \in {"consume", "waiting"}
    BY DEF Reset!PollMail, Reset!Poll
  <2>2. nc' = "consume" => ~recovering /\ ~Reset!MailPending /\ alarm # "pending"
    BY DEF Reset!PollMail, Reset!Poll
  <2>3. nc' = "consume" /\ Underway /\ resetPhase = "COMPLETED" => alarm = "raised"
    <3>1. rt = "apply discard" => recovering  BY DEF ResetIInv, ApplyIsFenced,
    Reset!Applying
    <3>2. rt = "trigger alarm" => resetPhase # "COMPLETED"
      BY DEF ResetIInv, TriggerIsKnown, Reset!Triggering
    <3>3. alarm \in {"none", "pending", "raised"}  BY DEF ResetIInv, Reset!TypeOK
    <3> QED BY <2>2, <3>1, <3>2, <3>3 DEF Underway
  <2>4. resetPhase \notin {"PENDING", "APPLYING", "ACTIVE"}
    BY <2>1 DEF ResetIInv, PollsKnow, Reset!Polling
  <2>5. resetPhase = "COMPLETED" /\ ~clean => Underway
    BY <2>1 DEF ResetIInv, PollsKnow
  <2>6. (~clean' => ~clean) /\ resetPhase' = resetPhase /\ alarm' = alarm  BY <1>1
  <2> QED BY <2>1, <2>3, <2>4, <2>5, <2>6 DEF PollsKnow
<1>4. /\ PublishersAreCounted' /\ TicketsAreOrdered' /\ ApplyIsFenced'
      /\ CompletedIsPosted' /\ InterruptionIsUnderway' /\ TriggerIsKnown'
      /\ MailIsWhole' /\ EpochsAreOrdered' /\ OwedIsNew' /\ Reset!EvidenceKept'
  BY <1>1, PublishersAreCountedFramed, TicketsAreOrderedFramed, ApplyIsFencedFramed,
     CompletedIsPostedFramed, InterruptionIsUnderwayFramed, TriggerIsKnownFramed,
     MailIsWholeFramed, EpochsAreOrderedFramed, OwedIsNewFramed, EvidenceKeptFramed DEF
     ResetIInv
<1> QED BY <1>2, <1>3, <1>4 DEF ResetIInv

(* The NC takes the stop back, or blocks. *)
LEMMA ConsumeKeeps ==
  ASSUME ResetIInv, Reset!Consume
  PROVE  ResetIInv'
<1>1. UNCHANGED <<word, acked, publishers, generation, epoch, mailbox, stop,
                  recovering, alarm, group, token, evidence, call, causal, kind, rt,
                  own, own_generation, claimed, authority, presses, incidents, due>>
  BY DEF Reset!Consume, Reset!aside, Reset!authorityVars, Reset!mailVars,
     Reset!motionVars, Reset!callerVars, Reset!rtVars,
     Reset!alarmVars
<1>2. Reset!TypeOK'
  <2>1. resetPhase' \in Reset!Phases
    BY <1>1 DEF ResetIInv, Reset!TypeOK, Reset!Phases, Reset!Consume
  <2>2. nc' \in Reset!Polling \cup {"run", "waiting", "blocked", "alarm", "batch"}
    BY <1>1 DEF ResetIInv, Reset!TypeOK, Reset!Polling, Reset!Consume
  <2>3. interrupted' \in BOOLEAN
    BY <1>1 DEF ResetIInv, Reset!TypeOK, Reset!Consume
  <2>4. clean' \in BOOLEAN
    BY <1>1 DEF ResetIInv, Reset!TypeOK, Reset!Consume
  <2> QED BY <1>1, <2>1, <2>2, <2>3, <2>4 DEF ResetIInv, Reset!TypeOK
<1>3. InterruptionIsUnderway'
  BY <1>1 DEF ResetIInv, InterruptionIsUnderway, Posted, Underway, Reset!MailPending,
     Reset!Consume
<1>4. PollsKnow'
  BY <1>1 DEF ResetIInv, PollsKnow, Reset!Polling, Posted, Underway, Reset!MailPending,
     Reset!Consume
<1>5. TriggerIsKnown'
  BY <1>1 DEF ResetIInv, TriggerIsKnown, Reset!Triggering, Reset!Consume
<1>6. /\ PublishersAreCounted' /\ TicketsAreOrdered' /\ ApplyIsFenced'
      /\ CompletedIsPosted' /\ MailIsWhole' /\ EpochsAreOrdered' /\ OwedIsNew'
      /\ Reset!EvidenceKept'
  BY <1>1, PublishersAreCountedFramed, TicketsAreOrderedFramed, ApplyIsFencedFramed,
     CompletedIsPostedFramed, MailIsWholeFramed, EpochsAreOrderedFramed,
     OwedIsNewFramed, EvidenceKeptFramed DEF
     ResetIInv
<1> QED BY <1>2, <1>3, <1>4, <1>5, <1>6 DEF ResetIInv

(* The NC finds an alarm and stops everything. *)
LEMMA AlarmScanKeeps ==
  ASSUME ResetIInv, Reset!AlarmScan
  PROVE  ResetIInv'
<1>1. UNCHANGED <<word, acked, publishers, generation, epoch, mailbox, stop,
                  recovering, alarm, group, token, evidence, causal, kind, rt, own,
                  own_generation, claimed, authority, presses, incidents, clean,
                  due>>
  BY DEF Reset!AlarmScan, Reset!authorityVars, Reset!mailVars, Reset!motionVars,
     Reset!rtVars, Reset!alarmVars
<1>2. /\ call[Nc] = "idle" /\ call' = [call EXCEPT ![Nc] = "begin"]
      /\ nc' = "alarm" /\ Reset!Supersede /\ interrupted' = FALSE
  BY DEF Reset!AlarmScan, Reset!At, Reset!Goto
<1>3. Posted' = Posted
  BY <1>1, <1>2 DEF ResetIInv, Reset!TypeOK, Posted
<1>4. Reset!TypeOK'
  <2>1. resetPhase' \in Reset!Phases
    BY <1>1, <1>2, <1>3 DEF ResetIInv, Reset!TypeOK, Reset!Phases, Reset!Supersede
  <2>2. call' \in [Reset!Caller -> Reset!CallLabel]
    BY <1>1, <1>2, <1>3 DEF ResetIInv, Reset!TypeOK, Reset!CallLabel, Reset!Supersede
  <2>3. nc' \in Reset!Polling \cup {"run", "waiting", "blocked", "alarm", "batch"}
    BY <1>1, <1>2, <1>3 DEF ResetIInv, Reset!TypeOK, Reset!Polling, Reset!Supersede
  <2>4. interrupted' \in BOOLEAN
    BY <1>1, <1>2, <1>3 DEF ResetIInv, Reset!TypeOK, Reset!Supersede
  <2> QED BY <1>1, <2>1, <2>2, <2>3, <2>4 DEF ResetIInv, Reset!TypeOK
<1>5. PublishersAreCounted'
  <2>1. Publishing' = Publishing
    BY <1>1, <1>2 DEF ResetIInv, Reset!TypeOK, Publishing, Publishes
  <2> QED BY <1>1, <2>1 DEF ResetIInv, PublishersAreCounted
<1>6. CompletedIsPosted'
  BY <1>1, <1>2, <1>3 DEF ResetIInv, CompletedIsPosted, Reset!Applying, Reset!Supersede
<1>7. InterruptionIsUnderway'
  BY <1>1, <1>2, <1>3 DEF ResetIInv, InterruptionIsUnderway, Underway, Reset!MailPending,
     Reset!Supersede
<1>8. PollsKnow'
  BY <1>1, <1>2, <1>3 DEF ResetIInv, PollsKnow, Reset!Polling, Underway,
     Reset!MailPending, Reset!Supersede
<1>9. TriggerIsKnown'
  BY <1>1, <1>2, <1>3 DEF ResetIInv, TriggerIsKnown, Reset!Triggering, Reset!Supersede
<1>10. /\ TicketsAreOrdered' /\ ApplyIsFenced' /\ MailIsWhole' /\ EpochsAreOrdered'
       /\ OwedIsNew' /\ Reset!EvidenceKept'
  BY <1>1, TicketsAreOrderedFramed, ApplyIsFencedFramed, MailIsWholeFramed,
     EpochsAreOrderedFramed, OwedIsNewFramed, EvidenceKeptFramed DEF
     ResetIInv
<1> QED BY <1>4, <1>5, <1>6, <1>7, <1>8, <1>9, <1>10 DEF ResetIInv

(* The mapping alarm reaches the alarm manager. *)
LEMMA MaterializeKeeps ==
  ASSUME ResetIInv, Reset!Materialize
  PROVE  ResetIInv'
<1>1. UNCHANGED <<resetPhase, word, acked, publishers, generation, epoch, mailbox, stop,
                  recovering, group, token, evidence, call, causal, kind, nc, rt, own,
                  own_generation, claimed, authority, presses, incidents,
                  interrupted, clean, due>>
  BY DEF Reset!Materialize, Reset!aside, Reset!authorityVars, Reset!mailVars,
     Reset!motionVars, Reset!callerVars,
     Reset!rtVars, Reset!ncVars
<1>2. Reset!TypeOK'
  <2>1. alarm' \in {"none", "pending", "raised"}
    BY <1>1 DEF ResetIInv, Reset!TypeOK, Reset!Materialize
  <2> QED BY <1>1, <2>1 DEF ResetIInv, Reset!TypeOK
<1>3. InterruptionIsUnderway'
  BY <1>1 DEF ResetIInv, InterruptionIsUnderway, Posted, Underway, Reset!MailPending,
     Reset!Materialize
<1>4. PollsKnow'
  BY <1>1 DEF ResetIInv, PollsKnow, Reset!Polling, Posted, Underway, Reset!MailPending,
     Reset!Materialize
<1>5. TriggerIsKnown'
  BY <1>1 DEF ResetIInv, TriggerIsKnown, Reset!Triggering, Reset!Materialize
<1>6. /\ PublishersAreCounted' /\ TicketsAreOrdered' /\ ApplyIsFenced'
      /\ CompletedIsPosted' /\ MailIsWhole' /\ EpochsAreOrdered' /\ OwedIsNew'
      /\ Reset!EvidenceKept'
  BY <1>1, PublishersAreCountedFramed, TicketsAreOrderedFramed, ApplyIsFencedFramed,
     CompletedIsPostedFramed, MailIsWholeFramed, EpochsAreOrderedFramed,
     OwedIsNewFramed, EvidenceKeptFramed DEF
     ResetIInv
<1> QED BY <1>2, <1>3, <1>4, <1>5, <1>6 DEF ResetIInv

(* The operator presses RESET. *)
LEMMA PressKeeps ==
  ASSUME ResetIInv, Reset!Press
  PROVE  ResetIInv'
<1>1. UNCHANGED <<word, acked, publishers, generation, epoch, mailbox, stop,
                  recovering, alarm, group, token, evidence, call, causal, kind, rt,
                  own, own_generation, claimed, authority, incidents, clean, due>>
  BY DEF Reset!Press, Reset!aside, Reset!authorityVars, Reset!mailVars,
     Reset!motionVars, Reset!callerVars, Reset!rtVars,
     Reset!alarmVars
<1>2. Reset!TypeOK'
  <2>1. resetPhase' \in Reset!Phases
    BY <1>1 DEF ResetIInv, Reset!TypeOK, Reset!Phases, Reset!Press, Reset!At
  <2>2. nc' \in Reset!Polling \cup {"run", "waiting", "blocked", "alarm", "batch"}
    BY <1>1 DEF ResetIInv, Reset!TypeOK, Reset!Polling, Reset!Press, Reset!At
  <2>3. interrupted' \in BOOLEAN
    BY <1>1 DEF ResetIInv, Reset!TypeOK, Reset!Press, Reset!At
  <2> QED BY <1>1, <2>1, <2>2, <2>3 DEF ResetIInv, Reset!TypeOK
<1>3. InterruptionIsUnderway'
  BY <1>1 DEF ResetIInv, InterruptionIsUnderway, Posted, Underway, Reset!MailPending,
     Reset!Press, Reset!At
<1>4. PollsKnow'
  BY <1>1 DEF ResetIInv, PollsKnow, Reset!Polling, Posted, Underway, Reset!MailPending,
     Reset!Press, Reset!At
<1>5. TriggerIsKnown'
  BY <1>1 DEF ResetIInv, TriggerIsKnown, Reset!Triggering, Reset!Press, Reset!At
<1>6. /\ PublishersAreCounted' /\ TicketsAreOrdered' /\ ApplyIsFenced'
      /\ CompletedIsPosted' /\ MailIsWhole' /\ EpochsAreOrdered' /\ OwedIsNew'
      /\ Reset!EvidenceKept'
  BY <1>1, PublishersAreCountedFramed, TicketsAreOrderedFramed, ApplyIsFencedFramed,
     CompletedIsPostedFramed, MailIsWholeFramed, EpochsAreOrderedFramed,
     OwedIsNewFramed, EvidenceKeptFramed DEF
     ResetIInv
<1> QED BY <1>2, <1>3, <1>4, <1>5, <1>6 DEF ResetIInv

(* The operator presses again after a block. *)
LEMMA PressAgainKeeps ==
  ASSUME ResetIInv, Reset!PressAgain
  PROVE  ResetIInv'
<1>1. UNCHANGED <<word, acked, publishers, generation, epoch, mailbox, stop,
                  recovering, alarm, group, token, evidence, call, causal, kind, rt,
                  own, own_generation, claimed, authority, presses, incidents,
                  interrupted, clean, due>>
  BY DEF Reset!PressAgain, Reset!aside, Reset!authorityVars, Reset!mailVars,
     Reset!motionVars, Reset!callerVars, Reset!rtVars,
     Reset!alarmVars
<1>2. Reset!TypeOK'
  <2>1. resetPhase' \in Reset!Phases
    BY <1>1 DEF ResetIInv, Reset!TypeOK, Reset!Phases, Reset!PressAgain, Reset!At
  <2>2. nc' \in Reset!Polling \cup {"run", "waiting", "blocked", "alarm", "batch"}
    BY <1>1 DEF ResetIInv, Reset!TypeOK, Reset!Polling, Reset!PressAgain, Reset!At
  <2> QED BY <1>1, <2>1, <2>2 DEF ResetIInv, Reset!TypeOK
<1>3. InterruptionIsUnderway'
  <2>1. resetPhase' = resetPhase \/ resetPhase' = "IDLE"  BY DEF Reset!PressAgain
  <2>2. Posted' = Posted /\ Underway' = Underway
    BY <1>1 DEF Posted, Underway, Reset!MailPending
  <2> QED BY <1>1, <2>1, <2>2 DEF ResetIInv, InterruptionIsUnderway
<1>4. PollsKnow'
  BY <1>1 DEF ResetIInv, PollsKnow, Reset!Polling, Posted, Underway, Reset!MailPending,
     Reset!PressAgain, Reset!At
<1>5. TriggerIsKnown'
  BY <1>1 DEF ResetIInv, TriggerIsKnown, Reset!Triggering, Reset!PressAgain, Reset!At
<1>6. /\ PublishersAreCounted' /\ TicketsAreOrdered' /\ ApplyIsFenced'
      /\ CompletedIsPosted' /\ MailIsWhole' /\ EpochsAreOrdered' /\ OwedIsNew'
      /\ Reset!EvidenceKept'
  BY <1>1, PublishersAreCountedFramed, TicketsAreOrderedFramed, ApplyIsFencedFramed,
     CompletedIsPostedFramed, MailIsWholeFramed, EpochsAreOrderedFramed,
     OwedIsNewFramed, EvidenceKeptFramed DEF
     ResetIInv
<1> QED BY <1>2, <1>3, <1>4, <1>5, <1>6 DEF ResetIInv

(* The press goes to the batch at once. *)
LEMMA PressDirectlyKeeps ==
  ASSUME ResetIInv, Reset!PressDirectly
  PROVE  ResetIInv'
<1>1. UNCHANGED <<resetPhase, word, acked, publishers, generation, epoch, mailbox, stop,
                  recovering, alarm, group, token, evidence, call, causal, kind, rt,
                  own, own_generation, claimed, authority, presses, incidents,
                  interrupted, clean, due>>
  BY DEF Reset!PressDirectly, Reset!aside, Reset!authorityVars, Reset!mailVars,
     Reset!motionVars, Reset!callerVars,
     Reset!rtVars, Reset!alarmVars
<1>2. Reset!TypeOK'
  <2>1. nc' \in Reset!Polling \cup {"run", "waiting", "blocked", "alarm", "batch"}
    BY <1>1 DEF ResetIInv, Reset!TypeOK, Reset!Polling, Reset!PressDirectly, Reset!At
  <2> QED BY <1>1, <2>1 DEF ResetIInv, Reset!TypeOK
<1>3. PollsKnow'
  BY <1>1 DEF ResetIInv, PollsKnow, Reset!Polling, Posted, Underway, Reset!MailPending,
     Reset!PressDirectly, Reset!At
<1>4. /\ PublishersAreCounted' /\ TicketsAreOrdered' /\ ApplyIsFenced'
      /\ CompletedIsPosted' /\ InterruptionIsUnderway' /\ TriggerIsKnown'
      /\ MailIsWhole' /\ EpochsAreOrdered' /\ OwedIsNew' /\ Reset!EvidenceKept'
  BY <1>1, PublishersAreCountedFramed, TicketsAreOrderedFramed, ApplyIsFencedFramed,
     CompletedIsPostedFramed, InterruptionIsUnderwayFramed, TriggerIsKnownFramed,
     MailIsWholeFramed, EpochsAreOrderedFramed, OwedIsNewFramed, EvidenceKeptFramed DEF
     ResetIInv
<1> QED BY <1>2, <1>3, <1>4 DEF ResetIInv

(* The batch runs, and the next program starts, when nobody publishes. *)
LEMMA BatchKeeps ==
  ASSUME ResetIInv, Reset!Batch
  PROVE  ResetIInv'
<1>1. UNCHANGED <<acked, publishers, generation, epoch, mailbox, stop, recovering,
                  token, evidence, call, causal, kind, rt, own, own_generation,
                  claimed, authority, presses, incidents, interrupted, clean, due>>
  BY DEF Reset!Batch, Reset!mailVars, Reset!callerVars, Reset!rtVars
<1>2. /\ nc = "batch" /\ nc' = "run" /\ alarm' = "none" /\ group' = "moving"
      /\ resetPhase' \in {"IDLE", "SUPERSEDED"}
      /\ ~recovering /\ publishers = 0
  BY DEF Reset!Batch, Reset!Intent, Reset!Supersede
<1>3. word' \in Reset!OwnerWord /\ word'.ticket = word.ticket
  <2>1. word' = [word EXCEPT !.safety = FALSE] /\ word \in Reset!OwnerWord
    BY DEF Reset!Batch, ResetIInv, Reset!TypeOK
  <2> QED BY <2>1 DEF Reset!OwnerWord
<1>4. Posted /\ rt \notin Reset!Pressing \cup Reset!Triggering
  BY <1>2, NobodyCounted DEF ResetIInv
<1>5. Reset!TypeOK'
  <2>1. resetPhase' \in Reset!Phases
    BY <1>1, <1>2, <1>3, <1>4 DEF ResetIInv, Reset!TypeOK, Reset!Phases
  <2>2. word' \in Reset!OwnerWord
    BY <1>1, <1>2, <1>3, <1>4 DEF ResetIInv, Reset!TypeOK
  <2>3. alarm' \in {"none", "pending", "raised"}
    BY <1>1, <1>2, <1>3, <1>4 DEF ResetIInv, Reset!TypeOK
  <2>4. group' \in {"moving", "stopping", "converging", "still"}
    BY <1>1, <1>2, <1>3, <1>4 DEF ResetIInv, Reset!TypeOK
  <2>5. nc' \in Reset!Polling \cup {"run", "waiting", "blocked", "alarm", "batch"}
    BY <1>1, <1>2, <1>3, <1>4 DEF ResetIInv, Reset!TypeOK, Reset!Polling
  <2> QED BY <1>1, <2>1, <2>2, <2>3, <2>4, <2>5 DEF ResetIInv, Reset!TypeOK
<1>6. TicketsAreOrdered'
  BY <1>1, <1>2, <1>3, <1>4 DEF ResetIInv, TicketsAreOrdered
<1>7. ApplyIsFenced'
  BY <1>1, <1>2, <1>3, <1>4 DEF ResetIInv, ApplyIsFenced, Reset!Applying
<1>8. CompletedIsPosted'
  <2>1. Posted' = Posted  BY <1>1 DEF Posted
  <2> QED BY <1>4, <2>1 DEF CompletedIsPosted
<1>9. InterruptionIsUnderway'
  BY <1>1, <1>2, <1>3, <1>4 DEF ResetIInv, InterruptionIsUnderway, Posted, Underway,
     Reset!MailPending
<1>10. PollsKnow'
  BY <1>1, <1>2, <1>3, <1>4 DEF ResetIInv, PollsKnow, Reset!Polling, Posted, Underway,
     Reset!MailPending
<1>11. TriggerIsKnown'
  BY <1>1, <1>2, <1>4 DEF TriggerIsKnown
<1>12. /\ PublishersAreCounted' /\ MailIsWhole' /\ EpochsAreOrdered' /\ OwedIsNew'
       /\ Reset!EvidenceKept'
  BY <1>1, PublishersAreCountedFramed, MailIsWholeFramed, EpochsAreOrderedFramed,
     OwedIsNewFramed, EvidenceKeptFramed DEF
     ResetIInv
<1> QED BY <1>5, <1>6, <1>7, <1>8, <1>9, <1>10, <1>11, <1>12 DEF ResetIInv

(* An alarm is raised. *)
LEMMA RaiseAlarmKeeps ==
  ASSUME ResetIInv, Reset!RaiseAlarm
  PROVE  ResetIInv'
<1>1. UNCHANGED <<resetPhase, word, acked, publishers, generation, epoch, mailbox, stop,
                  recovering, group, token, evidence, call, causal, kind, nc, rt, own,
                  own_generation, claimed, authority, presses, interrupted, clean,
                  due>>
  BY DEF Reset!RaiseAlarm, Reset!aside, Reset!authorityVars, Reset!mailVars,
     Reset!motionVars, Reset!callerVars, Reset!rtVars,
     Reset!ncVars
<1>2. Reset!TypeOK'
  <2>1. alarm' \in {"none", "pending", "raised"}
    BY <1>1 DEF ResetIInv, Reset!TypeOK, Reset!RaiseAlarm
  <2> QED BY <1>1, <2>1 DEF ResetIInv, Reset!TypeOK
<1>3. InterruptionIsUnderway'
  BY <1>1 DEF ResetIInv, InterruptionIsUnderway, Posted, Underway, Reset!MailPending,
     Reset!RaiseAlarm
<1>4. PollsKnow'
  BY <1>1 DEF ResetIInv, PollsKnow, Reset!Polling, Posted, Underway, Reset!MailPending,
     Reset!RaiseAlarm
<1>5. TriggerIsKnown'
  BY <1>1 DEF ResetIInv, TriggerIsKnown, Reset!Triggering, Reset!RaiseAlarm
<1>6. /\ PublishersAreCounted' /\ TicketsAreOrdered' /\ ApplyIsFenced'
      /\ CompletedIsPosted' /\ MailIsWhole' /\ EpochsAreOrdered' /\ OwedIsNew'
      /\ Reset!EvidenceKept'
  BY <1>1, PublishersAreCountedFramed, TicketsAreOrderedFramed, ApplyIsFencedFramed,
     CompletedIsPostedFramed, MailIsWholeFramed, EpochsAreOrderedFramed,
     OwedIsNewFramed, EvidenceKeptFramed DEF
     ResetIInv
<1> QED BY <1>2, <1>3, <1>4, <1>5, <1>6 DEF ResetIInv

(* A caller supersedes the press and sets out. *)
LEMMA CallKeeps ==
  ASSUME ResetIInv, NEW t \in Reset!Caller, Reset!Call(t)
  PROVE  ResetIInv'
<1>1. UNCHANGED <<word, acked, publishers, generation, epoch, mailbox, stop,
                  recovering, alarm, group, token, evidence, causal, kind, nc, rt,
                  own, own_generation, claimed, authority, presses, incidents,
                  interrupted, clean, due>>
  BY DEF Reset!Call, Reset!authorityVars, Reset!mailVars, Reset!motionVars,
     Reset!ncVars, Reset!rtVars, Reset!alarmVars
<1>2. /\ call[t] = "idle" /\ call' = [call EXCEPT ![t] = "begin"]
      /\ Reset!Supersede
  BY DEF Reset!Call, Reset!At, Reset!Goto
<1>3. Posted' = Posted
  BY <1>1, <1>2 DEF ResetIInv, Reset!TypeOK, Posted
<1>4. Reset!TypeOK'
  <2>1. resetPhase' \in Reset!Phases
    BY <1>1, <1>2, <1>3 DEF ResetIInv, Reset!TypeOK, Reset!Phases, Reset!Supersede
  <2>2. call' \in [Reset!Caller -> Reset!CallLabel]
    BY <1>1, <1>2, <1>3 DEF ResetIInv, Reset!TypeOK, Reset!CallLabel, Reset!Supersede
  <2> QED BY <1>1, <2>1, <2>2 DEF ResetIInv, Reset!TypeOK
<1>5. PublishersAreCounted'
  <2>1. Publishing' = Publishing
    BY <1>1, <1>2 DEF ResetIInv, Reset!TypeOK, Publishing, Publishes
  <2> QED BY <1>1, <2>1 DEF ResetIInv, PublishersAreCounted
<1>6. CompletedIsPosted'
  BY <1>1, <1>2, <1>3 DEF ResetIInv, CompletedIsPosted, Reset!Applying, Reset!Supersede
<1>7. InterruptionIsUnderway'
  BY <1>1, <1>2, <1>3 DEF ResetIInv, InterruptionIsUnderway, Underway, Reset!MailPending,
     Reset!Supersede
<1>8. PollsKnow'
  BY <1>1, <1>2, <1>3 DEF ResetIInv, PollsKnow, Reset!Polling, Underway,
     Reset!MailPending, Reset!Supersede
<1>9. TriggerIsKnown'
  BY <1>1, <1>2, <1>3 DEF ResetIInv, TriggerIsKnown, Reset!Triggering, Reset!Supersede
<1>10. /\ TicketsAreOrdered' /\ ApplyIsFenced' /\ MailIsWhole' /\ EpochsAreOrdered'
       /\ OwedIsNew' /\ Reset!EvidenceKept'
  BY <1>1, TicketsAreOrderedFramed, ApplyIsFencedFramed, MailIsWholeFramed,
     EpochsAreOrderedFramed, OwedIsNewFramed, EvidenceKeptFramed DEF
     ResetIInv
<1> QED BY <1>4, <1>5, <1>6, <1>7, <1>8, <1>9, <1>10 DEF ResetIInv

(* It holds at the start. *)
LEMMA InitKeeps ==
  ASSUME Reset!Init
  PROVE  ResetIInv
<1>1. Reset!TypeOK
  <2>1. word \in Reset!OwnerWord /\ mailbox \in Reset!Mail /\ claimed \in Reset!Mail
    BY DEF Reset!Init, Reset!OwnerWord, Reset!Mail, Reset!Empty
  <2>2. evidence \in [from : Nat, to : Nat]  BY DEF Reset!Init
  <2>3. /\ resetPhase \in Reset!Phases
        /\ nc \in Reset!Polling \cup {"run", "waiting", "blocked", "alarm", "batch"}
        /\ rt \in Reset!Applying \cup Reset!Pressing \cup Reset!Triggering \cup Reset!Passing
    BY DEF Reset!Init, Reset!Phases, Reset!Passing
  <2> QED BY <2>1, <2>2, <2>3 DEF Reset!Init, Reset!TypeOK, Reset!CallLabel
<1>2. PublishersAreCounted
  <2>1. Publishing = {}  BY DEF Reset!Init, Publishing, Publishes
  <2>2. IsFiniteSet({}) /\ Cardinality({}) = 0  BY FS_EmptySet
  <2> QED BY <2>1, <2>2 DEF Reset!Init, PublishersAreCounted, Reset!Pressing,
     Reset!Triggering
<1>3. Posted  BY DEF Reset!Init, Posted
<1>4. /\ TicketsAreOrdered /\ ApplyIsFenced /\ CompletedIsPosted
      /\ InterruptionIsUnderway /\ PollsKnow /\ TriggerIsKnown
  BY <1>3 DEF Reset!Init, TicketsAreOrdered, ApplyIsFenced, CompletedIsPosted,
     InterruptionIsUnderway,
     PollsKnow, TriggerIsKnown, Reset!Applying, Reset!Polling, Reset!Triggering
<1>5. MailIsWhole /\ EpochsAreOrdered /\ OwedIsNew /\ Reset!EvidenceKept
  BY DEF Reset!Init, MailIsWhole, EpochsAreOrdered, OwedIsNew, Reset!EvidenceKept,
     Reset!Empty, Capturing, Reset!Triggering
<1> QED BY <1>1, <1>2, <1>4, <1>5 DEF ResetIInv

(* A step that changes nothing keeps it. *)
LEMMA StutterKeeps ==
  ASSUME ResetIInv, UNCHANGED Reset!vars
  PROVE  ResetIInv'
<1>1. UNCHANGED <<resetPhase, word, acked, publishers, generation, epoch, mailbox, stop, recovering,
                  alarm, group, token, evidence, call, causal, kind, nc, rt, own,
                  own_generation, claimed, authority, presses, incidents, interrupted,
                  clean, due>>
  BY DEF Reset!vars, Reset!authorityVars, Reset!mailVars, Reset!motionVars,
     Reset!callerVars, Reset!ncVars, Reset!rtVars, Reset!alarmVars
<1>2. Reset!TypeOK'  BY <1>1 DEF ResetIInv, Reset!TypeOK
<1> QED BY <1>1, <1>2, PublishersAreCountedFramed, TicketsAreOrderedFramed,
           ApplyIsFencedFramed, CompletedIsPostedFramed,
           InterruptionIsUnderwayFramed, PollsKnowFramed, TriggerIsKnownFramed,
           MailIsWholeFramed, EpochsAreOrderedFramed, OwedIsNewFramed,
           EvidenceKeptFramed DEF ResetIInv

(* Every step keeps it. *)
LEMMA StepKeeps ==
  ASSUME ResetIInv, Reset!Next
  PROVE  ResetIInv'
<1>1. CASE Reset!ApplyEnter
  BY <1>1, ApplyEnterKeeps
<1>2. CASE Reset!ApplyTicket
  BY <1>2, ApplyTicketKeeps
<1>3. CASE Reset!ApplyTake
  BY <1>3, ApplyTakeKeeps
<1>4. CASE Reset!ApplyGuard
  BY <1>4, ApplyGuardKeeps
<1>5. CASE Reset!ApplyAction
  BY <1>5, ApplyActionKeeps
<1>6. CASE Reset!ApplyClaim
  BY <1>6, ApplyClaimKeeps
<1>7. CASE Reset!ApplyDiscard
  BY <1>7, ApplyDiscardKeeps
<1>8. CASE Reset!ApplyContain
  BY <1>8, ApplyContainKeeps
<1>9. CASE Reset!ApplyStop
  BY <1>9, ApplyStopKeeps
<1>10. CASE Reset!ApplyGroup
  BY <1>10, ApplyGroupKeeps
<1>11. CASE Reset!Applied
  BY <1>11, AppliedKeeps
<1>12. CASE Reset!PressClaim
  BY <1>12, PressClaimKeeps
<1>13. CASE Reset!PressJudge
  BY <1>13, PressJudgeKeeps
<1>14. CASE Reset!PressBegin
  BY <1>14, PressBeginKeeps
<1>15. CASE Reset!PressCapture
  BY <1>15, PressCaptureKeeps
<1>16. CASE Reset!PressTicket
  BY <1>16, PressTicketKeeps
<1>17. CASE Reset!PressEnsure
  BY <1>17, PressEnsureKeeps
<1>18. CASE Reset!PressTake
  BY <1>18, PressTakeKeeps
<1>19. CASE Reset!PressExact
  BY <1>19, PressExactKeeps
<1>20. CASE Reset!PressStop
  BY <1>20, PressStopKeeps
<1>21. CASE Reset!PressRecheck
  BY <1>21, PressRecheckKeeps
<1>22. CASE Reset!PressAction
  BY <1>22, PressActionKeeps
<1>23. CASE Reset!PressEnd
  BY <1>23, PressEndKeeps
<1>24. CASE Reset!PressContain
  BY <1>24, PressContainKeeps
<1>25. CASE Reset!PressComplete
  BY <1>25, PressCompleteKeeps
<1>26. CASE Reset!PressAuthorize
  BY <1>26, PressAuthorizeKeeps
<1>27. CASE Reset!PressActivate
  BY <1>27, PressActivateKeeps
<1>28. CASE Reset!Trigger
  BY <1>28, TriggerKeeps
<1>29. CASE Reset!TriggerBegin
  BY <1>29, TriggerBeginKeeps
<1>30. CASE Reset!TriggerTicket
  BY <1>30, TriggerTicketKeeps
<1>31. CASE Reset!TriggerAlarm
  BY <1>31, TriggerAlarmKeeps
<1>32. CASE Reset!TriggerTake
  BY <1>32, TriggerTakeKeeps
<1>33. CASE Reset!TriggerClaim
  BY <1>33, TriggerClaimKeeps
<1>34. CASE Reset!TriggerPost
  BY <1>34, TriggerPostKeeps
<1>35. CASE Reset!TriggerReserve
  BY <1>35, TriggerReserveKeeps
<1>36. CASE Reset!TriggerStore
  BY <1>36, TriggerStoreKeeps
<1>37. CASE Reset!TriggerContain
  BY <1>37, TriggerContainKeeps
<1>38. CASE Reset!TriggerFinalize
  BY <1>38, TriggerFinalizeKeeps
<1>39. CASE Reset!TriggerAction
  BY <1>39, TriggerActionKeeps
<1>40. CASE Reset!TriggerEnd
  BY <1>40, TriggerEndKeeps
<1>41. CASE Reset!RtAcknowledge
  BY <1>41, RtAcknowledgeKeeps
<1>42. CASE Reset!Help
  BY <1>42, HelpKeeps
<1>43. CASE Reset!LoseStop
  BY <1>43, LoseStopKeeps
<1>44. CASE Reset!Brake
  BY <1>44, BrakeKeeps
<1>45. CASE Reset!Settle
  BY <1>45, SettleKeeps
<1>46. CASE Reset!Move
  BY <1>46, MoveKeeps
<1>47. ASSUME NEW t \in Reset!Caller, Reset!CallBegin(t)
      PROVE  ResetIInv'
  BY <1>47, CallBeginKeeps
<1>48. ASSUME NEW t \in Reset!Caller, Reset!CallTicket(t)
      PROVE  ResetIInv'
  BY <1>48, CallTicketKeeps
<1>49. ASSUME NEW t \in Reset!Caller, Reset!PostStop(t)
      PROVE  ResetIInv'
  BY <1>49, PostStopKeeps
<1>50. ASSUME NEW t \in Reset!Caller, Reset!Post(t)
      PROVE  ResetIInv'
  BY <1>50, PostKeeps
<1>51. ASSUME NEW t \in Reset!Caller, Reset!PostFallback(t)
      PROVE  ResetIInv'
  BY <1>51, PostFallbackKeeps
<1>52. ASSUME NEW t \in Reset!Caller, Reset!CallTake(t)
      PROVE  ResetIInv'
  BY <1>52, CallTakeKeeps
<1>53. ASSUME NEW t \in Reset!Caller, Reset!CallEnd(t)
      PROVE  ResetIInv'
  BY <1>53, CallEndKeeps
<1>54. CASE Reset!PollPhase
  BY <1>54, PollPhaseKeeps
<1>55. CASE Reset!PollPublishers
  BY <1>55, PollPublishersKeeps
<1>56. CASE Reset!PollWord
  BY <1>56, PollWordKeeps
<1>57. CASE Reset!PollMail
  BY <1>57, PollMailKeeps
<1>58. CASE Reset!Consume
  BY <1>58, ConsumeKeeps
<1>59. CASE Reset!AlarmScan
  BY <1>59, AlarmScanKeeps
<1>60. CASE Reset!Materialize
  BY <1>60, MaterializeKeeps
<1>61. CASE Reset!Press
  BY <1>61, PressKeeps
<1>62. CASE Reset!PressAgain
  BY <1>62, PressAgainKeeps
<1>63. CASE Reset!PressDirectly
  BY <1>63, PressDirectlyKeeps
<1>64. CASE Reset!Batch
  BY <1>64, BatchKeeps
<1>65. CASE Reset!RaiseAlarm
  BY <1>65, RaiseAlarmKeeps
<1>66. ASSUME NEW t \in Reset!Caller, Reset!Call(t)
      PROVE  ResetIInv'
  BY <1>66, CallKeeps
<1>67. CASE Reset!PressRetire
  BY <1>67, PressRetireKeeps
<1> QED
  BY <1>1, <1>2, <1>3, <1>4, <1>5, <1>6, <1>7, <1>8, <1>9, <1>10, <1>11, <1>12,
     <1>13, <1>14, <1>15, <1>16, <1>17, <1>18, <1>19, <1>20, <1>21, <1>22, <1>23,
     <1>24, <1>25, <1>26, <1>27, <1>28, <1>29, <1>30, <1>31, <1>32, <1>33, <1>34,
     <1>35, <1>36, <1>37, <1>38, <1>39, <1>40, <1>41, <1>42, <1>43, <1>44, <1>45,
     <1>46, <1>47, <1>48, <1>49, <1>50, <1>51, <1>52, <1>53, <1>54, <1>55, <1>56,
     <1>57, <1>58, <1>59, <1>60, <1>61, <1>62, <1>63, <1>64, <1>65, <1>66, <1>67
  DEF Reset!Next, Reset!RtStep, Reset!ApplyStep, Reset!PressStep, Reset!TriggerStep,
  Reset!NcStep, Reset!NcPoll, Reset!CallStep

(* Only the NC takes a completed stop back, and it knows that none was asked for since. *)
LEMMA OnlyConsumedClean ==
  ASSUME ResetIInv, Reset!Next
  PROVE  resetPhase = "COMPLETED" /\ resetPhase' = "IDLE" => clean
<1>1. CASE Reset!ApplyEnter
  BY <1>1 DEF Reset!ApplyEnter
<1>2. CASE Reset!ApplyTicket
  BY <1>2 DEF Reset!ApplyTicket
<1>3. CASE Reset!ApplyTake
  BY <1>3 DEF Reset!ApplyTake
<1>4. CASE Reset!ApplyGuard
  BY <1>4 DEF Reset!ApplyGuard
<1>5. CASE Reset!ApplyAction
  BY <1>5 DEF Reset!ApplyAction
<1>6. CASE Reset!ApplyClaim
  BY <1>6 DEF Reset!ApplyClaim
<1>7. CASE Reset!ApplyDiscard
  BY <1>7 DEF Reset!ApplyDiscard, Reset!Step, Reset!Supersede, Reset!Branch
<1>8. CASE Reset!ApplyContain
  BY <1>8 DEF Reset!ApplyContain, Reset!Step, Reset!Contain, Reset!Supersede, Reset!Branch
<1>9. CASE Reset!ApplyStop
  BY <1>9 DEF Reset!ApplyStop, Reset!Branch, Reset!Supersede
<1>10. CASE Reset!ApplyGroup
  BY <1>10 DEF Reset!ApplyGroup, Reset!Step, Reset!StopGroup, Reset!Supersede,
     Reset!Contain, Reset!Branch
<1>11. CASE Reset!Applied
  BY <1>11 DEF Reset!Applied
<1>12. CASE Reset!PressClaim
  BY <1>12 DEF Reset!PressClaim, Reset!Branch
<1>13. CASE Reset!PressJudge
  BY <1>13 DEF Reset!PressJudge, Reset!Branch, Reset!Supersede
<1>14. CASE Reset!PressBegin
  BY <1>14 DEF Reset!PressBegin
<1>15. CASE Reset!PressCapture
  BY <1>15 DEF Reset!PressCapture
<1>16. CASE Reset!PressTicket
  BY <1>16 DEF Reset!PressTicket
<1>17. CASE Reset!PressEnsure
  BY <1>17 DEF Reset!PressEnsure
<1>18. CASE Reset!PressTake
  BY <1>18 DEF Reset!PressTake
<1>19. CASE Reset!PressExact
  BY <1>19 DEF Reset!PressExact, Reset!Branch, Reset!Supersede
<1>20. CASE Reset!PressStop
  BY <1>20 DEF Reset!PressStop, Reset!Step, Reset!StopGroup, Reset!Supersede,
     Reset!Contain, Reset!Branch
<1>21. CASE Reset!PressRecheck
  BY <1>21 DEF Reset!PressRecheck
<1>22. CASE Reset!PressAction
  BY <1>22 DEF Reset!PressAction
<1>23. CASE Reset!PressEnd
  BY <1>23 DEF Reset!PressEnd
<1>24. CASE Reset!PressContain
  BY <1>24 DEF Reset!PressContain, Reset!Step, Reset!Contain, Reset!Supersede, Reset!Branch
<1>25. CASE Reset!PressComplete
  BY <1>25 DEF Reset!PressComplete, Reset!Step, Reset!Completed, Reset!Branch
<1>26. CASE Reset!PressAuthorize
  BY <1>26 DEF Reset!PressAuthorize, Reset!Branch, Reset!Supersede
<1>27. CASE Reset!PressActivate
  BY <1>27 DEF Reset!PressActivate, Reset!Step, Reset!Branch
<1>28. CASE Reset!Trigger
  BY <1>28 DEF Reset!Trigger, Reset!Step, Reset!Supersede, Reset!Branch
<1>29. CASE Reset!TriggerBegin
  BY <1>29 DEF Reset!TriggerBegin
<1>30. CASE Reset!TriggerTicket
  BY <1>30 DEF Reset!TriggerTicket
<1>31. CASE Reset!TriggerAlarm
  BY <1>31 DEF Reset!TriggerAlarm
<1>32. CASE Reset!TriggerTake
  BY <1>32 DEF Reset!TriggerTake
<1>33. CASE Reset!TriggerClaim
  BY <1>33 DEF Reset!TriggerClaim
<1>34. CASE Reset!TriggerPost
  BY <1>34 DEF Reset!TriggerPost
<1>35. CASE Reset!TriggerReserve
  BY <1>35 DEF Reset!TriggerReserve
<1>36. CASE Reset!TriggerStore
  BY <1>36 DEF Reset!TriggerStore
<1>37. CASE Reset!TriggerContain
  BY <1>37 DEF Reset!TriggerContain, Reset!Branch, Reset!Contain, Reset!Supersede
<1>38. CASE Reset!TriggerFinalize
  BY <1>38 DEF Reset!TriggerFinalize
<1>39. CASE Reset!TriggerAction
  BY <1>39 DEF Reset!TriggerAction
<1>40. CASE Reset!TriggerEnd
  BY <1>40 DEF Reset!TriggerEnd
<1>41. CASE Reset!RtAcknowledge
  BY <1>41 DEF Reset!RtAcknowledge
<1>42. CASE Reset!Help
  BY <1>42 DEF Reset!Help
<1>43. CASE Reset!LoseStop
  BY <1>43 DEF Reset!LoseStop, Reset!Step, Reset!Contain, Reset!Supersede, Reset!Branch
<1>44. CASE Reset!Brake
  BY <1>44 DEF Reset!Brake
<1>45. CASE Reset!Settle
  BY <1>45 DEF Reset!Settle
<1>46. CASE Reset!Move
  BY <1>46 DEF Reset!Move
<1>47. ASSUME NEW t \in Reset!Caller, Reset!CallBegin(t)
      PROVE  resetPhase = "COMPLETED" /\ resetPhase' = "IDLE" => clean
  BY <1>47 DEF Reset!CallBegin
<1>48. ASSUME NEW t \in Reset!Caller, Reset!CallTicket(t)
      PROVE  resetPhase = "COMPLETED" /\ resetPhase' = "IDLE" => clean
  BY <1>48 DEF Reset!CallTicket
<1>49. ASSUME NEW t \in Reset!Caller, Reset!PostStop(t)
      PROVE  resetPhase = "COMPLETED" /\ resetPhase' = "IDLE" => clean
  BY <1>49 DEF Reset!PostStop
<1>50. ASSUME NEW t \in Reset!Caller, Reset!Post(t)
      PROVE  resetPhase = "COMPLETED" /\ resetPhase' = "IDLE" => clean
  BY <1>50 DEF Reset!Post
<1>51. ASSUME NEW t \in Reset!Caller, Reset!PostFallback(t)
      PROVE  resetPhase = "COMPLETED" /\ resetPhase' = "IDLE" => clean
  BY <1>51 DEF Reset!PostFallback
<1>52. ASSUME NEW t \in Reset!Caller, Reset!CallTake(t)
      PROVE  resetPhase = "COMPLETED" /\ resetPhase' = "IDLE" => clean
  BY <1>52 DEF Reset!CallTake
<1>53. ASSUME NEW t \in Reset!Caller, Reset!CallEnd(t)
      PROVE  resetPhase = "COMPLETED" /\ resetPhase' = "IDLE" => clean
  BY <1>53 DEF Reset!CallEnd
<1>54. CASE Reset!PollPhase
  BY <1>54 DEF Reset!PollPhase, Reset!Poll
<1>55. CASE Reset!PollPublishers
  BY <1>55 DEF Reset!PollPublishers, Reset!Poll
<1>56. CASE Reset!PollWord
  BY <1>56 DEF Reset!PollWord, Reset!Poll
<1>57. CASE Reset!PollMail
  BY <1>57 DEF Reset!PollMail, Reset!Poll
<1>58. CASE Reset!Consume
  <2>1. (nc = "consume" /\ alarm # "raised") \/ resetPhase' = resetPhase
    BY <1>58 DEF Reset!Consume
  <2> QED BY <2>1 DEF ResetIInv, PollsKnow
<1>59. CASE Reset!AlarmScan
  BY <1>59 DEF Reset!AlarmScan, Reset!Supersede
<1>60. CASE Reset!Materialize
  BY <1>60 DEF Reset!Materialize
<1>61. CASE Reset!Press
  BY <1>61 DEF Reset!Press
<1>62. CASE Reset!PressAgain
  BY <1>62 DEF Reset!PressAgain
<1>63. CASE Reset!PressDirectly
  BY <1>63 DEF Reset!PressDirectly
<1>64. CASE Reset!Batch
  BY <1>64 DEF Reset!Batch, Reset!Supersede
<1>65. CASE Reset!RaiseAlarm
  BY <1>65 DEF Reset!RaiseAlarm
<1>66. ASSUME NEW t \in Reset!Caller, Reset!Call(t)
      PROVE  resetPhase = "COMPLETED" /\ resetPhase' = "IDLE" => clean
  BY <1>66 DEF Reset!Call, Reset!Supersede
<1>67. CASE Reset!PressRetire
  BY <1>67 DEF Reset!PressRetire, Reset!Step, Reset!Supersede, Reset!Branch
<1> QED
  BY <1>1, <1>2, <1>3, <1>4, <1>5, <1>6, <1>7, <1>8, <1>9, <1>10, <1>11, <1>12,
     <1>13, <1>14, <1>15, <1>16, <1>17, <1>18, <1>19, <1>20, <1>21, <1>22, <1>23,
     <1>24, <1>25, <1>26, <1>27, <1>28, <1>29, <1>30, <1>31, <1>32, <1>33, <1>34,
     <1>35, <1>36, <1>37, <1>38, <1>39, <1>40, <1>41, <1>42, <1>43, <1>44, <1>45,
     <1>46, <1>47, <1>48, <1>49, <1>50, <1>51, <1>52, <1>53, <1>54, <1>55, <1>56,
     <1>57, <1>58, <1>59, <1>60, <1>61, <1>62, <1>63, <1>64, <1>65, <1>66, <1>67
  DEF Reset!Next, Reset!RtStep, Reset!ApplyStep, Reset!PressStep, Reset!TriggerStep,
  Reset!NcStep, Reset!NcPoll, Reset!CallStep

(* A containment, and a stop of the group, leave the flag of the action.    *)
LEMMA KeepsAction ==
  ASSUME Reset!TypeOK, NEW force, NEW cause, NEW takes,
         Reset!Contain(force, cause, takes) \/ Reset!StopGroup
  PROVE  word'.action = word.action
<1>1. ASSUME NEW f, NEW c, NEW s, Reset!Contain(f, c, s)
      PROVE  word'.action = word.action
  <2>1. \E safety \in BOOLEAN : word' = [word EXCEPT !.safety = safety]
    BY <1>1, FieldTypes DEF Reset!Contain
  <2> QED BY <2>1 DEF Reset!TypeOK, Reset!OwnerWord
<1> QED BY <1>1 DEF Reset!StopGroup

(* The flag is taken down only when nobody has a mailbox still to write. *)
LEMMA ClearedWhenPosted ==
  ASSUME ResetIInv, Reset!Next
  PROVE  word.action /\ ~word'.action /\ rt # "trigger action" => Posted
<1>1. CASE Reset!ApplyEnter
  <2>1. word' = word  BY <1>1 DEF Reset!ApplyEnter, Reset!mailVars, Reset!motionVars,
  Reset!scratch, Reset!elsewhere, Reset!callerVars, Reset!ncVars, Reset!alarmVars
  <2> QED BY <2>1
<1>2. CASE Reset!ApplyTicket
  <2>1. CASE word' = word  BY <2>1
  <2>2. CASE Reset!NextTicket(FALSE)  BY <2>2, NextTicketFacts DEF ResetIInv
  <2> QED BY <1>2, <2>1, <2>2 DEF Reset!ApplyTicket
<1>3. CASE Reset!ApplyTake
  <2>1. word'.action = word.action  BY <1>3, TakeSafetyFacts DEF ResetIInv, Reset!ApplyTake
  <2> QED BY <2>1
<1>4. CASE Reset!ApplyGuard
  <2>1. word' = word  BY <1>4 DEF Reset!ApplyGuard, Reset!mailVars, Reset!motionVars,
  Reset!scratch, Reset!elsewhere, Reset!callerVars, Reset!ncVars, Reset!alarmVars
  <2> QED BY <2>1
<1>5. CASE Reset!ApplyAction
  <2>1. rt = "apply action"  BY <1>5 DEF Reset!ApplyAction, Reset!Step, Reset!Branch
  <2>2. word.ticket # own => word' = word  BY <1>5, CompleteActionFacts DEF ResetIInv,
  Reset!ApplyAction
  <2>3. word.ticket = own => Posted  BY <2>1 DEF ResetIInv, CompletedIsPosted,
  Reset!Applying
  <2> QED BY <2>2, <2>3
<1>6. CASE Reset!ApplyClaim
  <2>1. word' = word  BY <1>6 DEF Reset!ApplyClaim, Reset!authorityVars,
  Reset!motionVars, Reset!elsewhere, Reset!callerVars, Reset!ncVars, Reset!alarmVars
  <2> QED BY <2>1
<1>7. CASE Reset!ApplyDiscard
  <2>1. word' = word  BY <1>7 DEF Reset!ApplyDiscard, Reset!authorityVars,
  Reset!motionVars, Reset!scratch, Reset!elsewhere, Reset!callerVars, Reset!ncVars,
  Reset!alarmVars
  <2> QED BY <2>1
<1>8. CASE Reset!ApplyContain
  <2>1. word'.action = word.action  BY <1>8, KeepsAction DEF ResetIInv, Reset!ApplyContain
  <2> QED BY <2>1
<1>9. CASE Reset!ApplyStop
  <2>1. word' = word  BY <1>9 DEF Reset!ApplyStop, Reset!authorityVars,
  Reset!motionVars, Reset!scratch, Reset!elsewhere, Reset!callerVars, Reset!ncVars,
  Reset!alarmVars
  <2> QED BY <2>1
<1>10. CASE Reset!ApplyGroup
  <2>1. word'.action = word.action  BY <1>10, KeepsAction DEF ResetIInv, Reset!ApplyGroup
  <2> QED BY <2>1
<1>11. CASE Reset!Applied
  <2>1. rt = "applied"  BY <1>11 DEF Reset!Applied, Reset!Step, Reset!Branch
  <2>2. word.ticket # own => word' = word  BY <1>11, CompleteActionFacts DEF ResetIInv,
  Reset!Applied
  <2>3. word.ticket = own => Posted  BY <2>1 DEF ResetIInv, CompletedIsPosted,
  Reset!Applying
  <2> QED BY <2>2, <2>3
<1>12. CASE Reset!PressClaim
  <2>1. word' = word  BY <1>12 DEF Reset!PressClaim, Reset!authorityVars,
  Reset!mailVars, Reset!motionVars, Reset!scratch, Reset!elsewhere, Reset!callerVars,
  Reset!ncVars, Reset!alarmVars
  <2> QED BY <2>1
<1>13. CASE Reset!PressJudge
  <2>1. word' = word  BY <1>13 DEF Reset!PressJudge, Reset!authorityVars,
  Reset!mailVars, Reset!motionVars, Reset!scratch, Reset!elsewhere, Reset!callerVars,
  Reset!ncVars, Reset!alarmVars
  <2> QED BY <2>1
<1>14. CASE Reset!PressBegin
  <2>1. word' = word  BY <1>14 DEF Reset!PressBegin, Reset!mailVars, Reset!motionVars,
  Reset!scratch, Reset!elsewhere, Reset!callerVars, Reset!ncVars, Reset!alarmVars
  <2> QED BY <2>1
<1>15. CASE Reset!PressCapture
  <2>1. word' = word  BY <1>15 DEF Reset!PressCapture, Reset!authorityVars,
  Reset!mailVars, Reset!motionVars, Reset!elsewhere, Reset!callerVars, Reset!ncVars,
  Reset!alarmVars
  <2> QED BY <2>1
<1>16. CASE Reset!PressTicket
  BY <1>16, NextTicketFacts DEF ResetIInv, Reset!PressTicket
<1>17. CASE Reset!PressEnsure
  <2>1. word' = word  BY <1>17 DEF Reset!PressEnsure, Reset!authorityVars,
  Reset!mailVars, Reset!motionVars, Reset!scratch, Reset!elsewhere, Reset!callerVars,
  Reset!ncVars, Reset!alarmVars
  <2> QED BY <2>1
<1>18. CASE Reset!PressTake
  <2>1. word'.action = word.action  BY <1>18, TakeSafetyFacts DEF ResetIInv, Reset!PressTake
  <2> QED BY <2>1
<1>19. CASE Reset!PressExact
  <2>1. word' = word  BY <1>19 DEF Reset!PressExact, Reset!mailVars, Reset!motionVars,
  Reset!scratch, Reset!elsewhere, Reset!callerVars, Reset!ncVars, Reset!alarmVars
  <2> QED BY <2>1
<1>20. CASE Reset!PressStop
  <2>1. word'.action = word.action  BY <1>20, KeepsAction DEF ResetIInv, Reset!PressStop
  <2> QED BY <2>1
<1>21. CASE Reset!PressRecheck
  <2>1. word' = word  BY <1>21 DEF Reset!PressRecheck, Reset!authorityVars,
  Reset!mailVars, Reset!motionVars, Reset!scratch, Reset!elsewhere, Reset!callerVars,
  Reset!ncVars, Reset!alarmVars
  <2> QED BY <2>1
<1>22. CASE Reset!PressAction
  <2>1. rt = "own action"  BY <1>22 DEF Reset!PressAction, Reset!Step, Reset!Branch
  <2>2. word.ticket # own => word' = word  BY <1>22, CompleteActionFacts DEF ResetIInv,
  Reset!PressAction
  <2>3. word.ticket = own => Posted  BY <2>1 DEF ResetIInv, CompletedIsPosted,
  Reset!Applying
  <2> QED BY <2>2, <2>3
<1>23. CASE Reset!PressEnd
  <2>1. word' = word  BY <1>23 DEF Reset!PressEnd, Reset!mailVars, Reset!motionVars,
  Reset!elsewhere, Reset!callerVars, Reset!ncVars, Reset!alarmVars
  <2> QED BY <2>1
<1>24. CASE Reset!PressContain
  <2>1. word'.action = word.action  BY <1>24, KeepsAction DEF ResetIInv, Reset!PressContain
  <2> QED BY <2>1
<1>25. CASE Reset!PressComplete
  <2>1. word' = word  BY <1>25 DEF Reset!PressComplete, Reset!authorityVars,
  Reset!mailVars, Reset!motionVars, Reset!scratch, Reset!elsewhere, Reset!callerVars,
  Reset!ncVars, Reset!alarmVars
  <2> QED BY <2>1
<1>26. CASE Reset!PressAuthorize
  <2>1. word' = word  BY <1>26 DEF Reset!PressAuthorize, Reset!authorityVars,
  Reset!mailVars, Reset!motionVars, Reset!scratch, Reset!elsewhere, Reset!callerVars,
  Reset!ncVars, Reset!alarmVars
  <2> QED BY <2>1
<1>27. CASE Reset!PressActivate
  <2>1. word' = word  BY <1>27 DEF Reset!PressActivate, Reset!authorityVars,
  Reset!mailVars, Reset!motionVars, Reset!scratch, Reset!elsewhere, Reset!callerVars,
  Reset!ncVars, Reset!alarmVars
  <2> QED BY <2>1
<1>28. CASE Reset!Trigger
  <2>1. word' = word  BY <1>28 DEF Reset!Trigger, Reset!authorityVars, Reset!mailVars,
  Reset!motionVars, Reset!scratch, Reset!callerVars, Reset!ncVars
  <2> QED BY <2>1
<1>29. CASE Reset!TriggerBegin
  <2>1. word' = word  BY <1>29 DEF Reset!TriggerBegin, Reset!mailVars,
  Reset!motionVars, Reset!scratch, Reset!elsewhere, Reset!callerVars, Reset!ncVars,
  Reset!alarmVars
  <2> QED BY <2>1
<1>30. CASE Reset!TriggerTicket
  BY <1>30, NextTicketFacts DEF ResetIInv, Reset!TriggerTicket
<1>31. CASE Reset!TriggerAlarm
  <2>1. word' = word  BY <1>31 DEF Reset!TriggerAlarm, Reset!authorityVars,
  Reset!mailVars, Reset!motionVars, Reset!scratch, Reset!callerVars, Reset!ncVars
  <2> QED BY <2>1
<1>32. CASE Reset!TriggerTake
  <2>1. word'.action = word.action  BY <1>32, TakeSafetyFacts DEF ResetIInv,
  Reset!TriggerTake
  <2> QED BY <2>1
<1>33. CASE Reset!TriggerClaim
  <2>1. word' = word  BY <1>33 DEF Reset!TriggerClaim, Reset!authorityVars,
  Reset!motionVars, Reset!elsewhere, Reset!callerVars, Reset!ncVars, Reset!alarmVars
  <2> QED BY <2>1
<1>34. CASE Reset!TriggerPost
  <2>1. word' = word  BY <1>34 DEF Reset!TriggerPost, Reset!authorityVars,
  Reset!scratch, Reset!elsewhere, Reset!callerVars, Reset!ncVars, Reset!alarmVars
  <2> QED BY <2>1
<1>35. CASE Reset!TriggerReserve
  <2>1. word' = word  BY <1>35 DEF Reset!TriggerReserve, Reset!authorityVars,
  Reset!motionVars, Reset!scratch, Reset!elsewhere, Reset!callerVars, Reset!ncVars,
  Reset!alarmVars
  <2> QED BY <2>1
<1>36. CASE Reset!TriggerStore
  <2>1. word' = word  BY <1>36 DEF Reset!TriggerStore, Reset!authorityVars,
  Reset!scratch, Reset!elsewhere, Reset!callerVars, Reset!ncVars, Reset!alarmVars
  <2> QED BY <2>1
<1>37. CASE Reset!TriggerContain
  <2>1. word'.action = word.action  BY <1>37, KeepsAction DEF ResetIInv,
  Reset!TriggerContain
  <2> QED BY <2>1
<1>38. CASE Reset!TriggerFinalize
  <2>1. word' = word  BY <1>38 DEF Reset!TriggerFinalize, Reset!authorityVars,
  Reset!motionVars, Reset!elsewhere, Reset!callerVars, Reset!ncVars, Reset!alarmVars
  <2> QED BY <2>1
<1>39. CASE Reset!TriggerAction
  BY <1>39 DEF Reset!TriggerAction, Reset!Step, Reset!Branch
<1>40. CASE Reset!TriggerEnd
  <2>1. word' = word  BY <1>40 DEF Reset!TriggerEnd, Reset!mailVars, Reset!motionVars,
  Reset!elsewhere, Reset!callerVars, Reset!ncVars, Reset!alarmVars
  <2> QED BY <2>1
<1>41. CASE Reset!RtAcknowledge
  <2>1. publishers # 0 => word' = word  BY <1>41, AcknowledgeFacts DEF ResetIInv,
  Reset!RtAcknowledge
  <2>2. publishers = 0 => Posted  BY NobodyCounted DEF ResetIInv
  <2> QED BY <2>1, <2>2
<1>42. CASE Reset!Help
  <2>1. word'.action = word.action  BY <1>42, TakeSafetyFacts DEF ResetIInv, Reset!Help
  <2> QED BY <2>1
<1>43. CASE Reset!LoseStop
  <2>1. word'.action = word.action  BY <1>43, KeepsAction DEF ResetIInv, Reset!LoseStop
  <2> QED BY <2>1
<1>44. CASE Reset!Brake
  <2>1. word' = word  BY <1>44 DEF Reset!Brake, Reset!authorityVars, Reset!mailVars,
  Reset!scratch, Reset!elsewhere, Reset!callerVars, Reset!ncVars, Reset!alarmVars
  <2> QED BY <2>1
<1>45. CASE Reset!Settle
  <2>1. word' = word  BY <1>45 DEF Reset!Settle, Reset!authorityVars, Reset!mailVars,
  Reset!scratch, Reset!elsewhere, Reset!callerVars, Reset!ncVars, Reset!alarmVars
  <2> QED BY <2>1
<1>46. CASE Reset!Move
  <2>1. word' = word  BY <1>46 DEF Reset!Move, Reset!authorityVars, Reset!mailVars,
  Reset!scratch, Reset!elsewhere, Reset!callerVars, Reset!ncVars, Reset!alarmVars
  <2> QED BY <2>1
<1>47. ASSUME NEW t \in Reset!Caller, Reset!CallBegin(t)
      PROVE  word.action /\ ~word'.action /\ rt # "trigger action" => Posted
  <2>1. word' = word  BY <1>47 DEF Reset!CallBegin, Reset!mailVars, Reset!motionVars,
  Reset!ncVars, Reset!rtVars, Reset!alarmVars
  <2> QED BY <2>1
<1>48. ASSUME NEW t \in Reset!Caller, Reset!CallTicket(t)
      PROVE  word.action /\ ~word'.action /\ rt # "trigger action" => Posted
  BY <1>48, NextTicketFacts DEF ResetIInv, Reset!CallTicket
<1>49. ASSUME NEW t \in Reset!Caller, Reset!PostStop(t)
      PROVE  word.action /\ ~word'.action /\ rt # "trigger action" => Posted
  <2>1. word' = word  BY <1>49 DEF Reset!PostStop, Reset!authorityVars,
  Reset!motionVars, Reset!ncVars, Reset!rtVars, Reset!alarmVars
  <2> QED BY <2>1
<1>50. ASSUME NEW t \in Reset!Caller, Reset!Post(t)
      PROVE  word.action /\ ~word'.action /\ rt # "trigger action" => Posted
  <2>1. word' = word  BY <1>50 DEF Reset!Post, Reset!authorityVars, Reset!motionVars,
  Reset!ncVars, Reset!rtVars, Reset!alarmVars
  <2> QED BY <2>1
<1>51. ASSUME NEW t \in Reset!Caller, Reset!PostFallback(t)
      PROVE  word.action /\ ~word'.action /\ rt # "trigger action" => Posted
  <2>1. word' = word  BY <1>51 DEF Reset!PostFallback, Reset!authorityVars,
  Reset!motionVars, Reset!ncVars, Reset!rtVars, Reset!alarmVars
  <2> QED BY <2>1
<1>52. ASSUME NEW t \in Reset!Caller, Reset!CallTake(t)
      PROVE  word.action /\ ~word'.action /\ rt # "trigger action" => Posted
  <2>1. word'.action = word.action  BY <1>52, TakeSafetyFacts DEF ResetIInv, Reset!CallTake
  <2> QED BY <2>1
<1>53. ASSUME NEW t \in Reset!Caller, Reset!CallEnd(t)
      PROVE  word.action /\ ~word'.action /\ rt # "trigger action" => Posted
  <2>1. word' = word  BY <1>53 DEF Reset!CallEnd, Reset!mailVars, Reset!motionVars,
  Reset!ncVars, Reset!rtVars, Reset!alarmVars
  <2> QED BY <2>1
<1>54. CASE Reset!PollPhase
  <2>1. word' = word  BY <1>54 DEF Reset!PollPhase, Reset!aside, Reset!authorityVars,
  Reset!mailVars, Reset!motionVars, Reset!callerVars, Reset!rtVars, Reset!alarmVars,
  Reset!Poll
  <2> QED BY <2>1
<1>55. CASE Reset!PollPublishers
  <2>1. word' = word  BY <1>55 DEF Reset!PollPublishers, Reset!aside,
  Reset!authorityVars, Reset!mailVars, Reset!motionVars, Reset!callerVars,
  Reset!rtVars, Reset!alarmVars, Reset!Poll
  <2> QED BY <2>1
<1>56. CASE Reset!PollWord
  <2>1. word' = word  BY <1>56 DEF Reset!PollWord, Reset!aside, Reset!authorityVars,
  Reset!mailVars, Reset!motionVars, Reset!callerVars, Reset!rtVars, Reset!alarmVars,
  Reset!Poll
  <2> QED BY <2>1
<1>57. CASE Reset!PollMail
  <2>1. word' = word  BY <1>57 DEF Reset!PollMail, Reset!aside, Reset!authorityVars,
  Reset!mailVars, Reset!motionVars, Reset!callerVars, Reset!rtVars, Reset!alarmVars,
  Reset!Poll
  <2> QED BY <2>1
<1>58. CASE Reset!Consume
  <2>1. word' = word  BY <1>58 DEF Reset!Consume, Reset!aside, Reset!authorityVars,
  Reset!mailVars, Reset!motionVars, Reset!callerVars, Reset!rtVars, Reset!alarmVars
  <2> QED BY <2>1
<1>59. CASE Reset!AlarmScan
  <2>1. word' = word  BY <1>59 DEF Reset!AlarmScan, Reset!authorityVars,
  Reset!mailVars, Reset!motionVars, Reset!rtVars, Reset!alarmVars
  <2> QED BY <2>1
<1>60. CASE Reset!Materialize
  <2>1. word' = word  BY <1>60 DEF Reset!Materialize, Reset!aside, Reset!authorityVars,
  Reset!mailVars, Reset!motionVars, Reset!callerVars, Reset!rtVars, Reset!ncVars
  <2> QED BY <2>1
<1>61. CASE Reset!Press
  <2>1. word' = word  BY <1>61 DEF Reset!Press, Reset!aside, Reset!authorityVars,
  Reset!mailVars, Reset!motionVars, Reset!callerVars, Reset!rtVars, Reset!alarmVars
  <2> QED BY <2>1
<1>62. CASE Reset!PressAgain
  <2>1. word' = word  BY <1>62 DEF Reset!PressAgain, Reset!aside, Reset!authorityVars,
  Reset!mailVars, Reset!motionVars, Reset!callerVars, Reset!rtVars, Reset!alarmVars
  <2> QED BY <2>1
<1>63. CASE Reset!PressDirectly
  <2>1. word' = word  BY <1>63 DEF Reset!PressDirectly, Reset!aside,
  Reset!authorityVars, Reset!mailVars, Reset!motionVars, Reset!callerVars,
  Reset!rtVars, Reset!alarmVars
  <2> QED BY <2>1
<1>64. CASE Reset!Batch
  <2>1. publishers = 0  BY <1>64 DEF Reset!Batch, Reset!Intent
  <2> QED BY <2>1, NobodyCounted DEF ResetIInv
<1>65. CASE Reset!RaiseAlarm
  <2>1. word' = word  BY <1>65 DEF Reset!RaiseAlarm, Reset!aside, Reset!authorityVars,
  Reset!mailVars, Reset!motionVars, Reset!callerVars, Reset!rtVars, Reset!ncVars
  <2> QED BY <2>1
<1>66. ASSUME NEW t \in Reset!Caller, Reset!Call(t)
      PROVE  word.action /\ ~word'.action /\ rt # "trigger action" => Posted
  <2>1. word' = word  BY <1>66 DEF Reset!Call, Reset!authorityVars, Reset!mailVars,
  Reset!motionVars, Reset!ncVars, Reset!rtVars, Reset!alarmVars
  <2> QED BY <2>1
<1>67. CASE Reset!PressRetire
  <2>1. word' = word  BY <1>67 DEF Reset!PressRetire, Reset!authorityVars, Reset!mailVars,
  Reset!motionVars, Reset!scratch, Reset!callerVars, Reset!ncVars
  <2> QED BY <2>1
<1> QED
  BY <1>1, <1>2, <1>3, <1>4, <1>5, <1>6, <1>7, <1>8, <1>9, <1>10, <1>11, <1>12,
     <1>13, <1>14, <1>15, <1>16, <1>17, <1>18, <1>19, <1>20, <1>21, <1>22, <1>23,
     <1>24, <1>25, <1>26, <1>27, <1>28, <1>29, <1>30, <1>31, <1>32, <1>33, <1>34,
     <1>35, <1>36, <1>37, <1>38, <1>39, <1>40, <1>41, <1>42, <1>43, <1>44, <1>45,
     <1>46, <1>47, <1>48, <1>49, <1>50, <1>51, <1>52, <1>53, <1>54, <1>55, <1>56,
     <1>57, <1>58, <1>59, <1>60, <1>61, <1>62, <1>63, <1>64, <1>65, <1>66, <1>67
  DEF Reset!Next, Reset!RtStep, Reset!ApplyStep, Reset!PressStep, Reset!TriggerStep,
  Reset!NcStep, Reset!NcPoll, Reset!CallStep

(* It holds of every state that is reached. *)
THEOREM ResetInvariant == Reset!Spec => []ResetIInv
<1>1. ResetIInv /\ [Reset!Next]_Reset!vars => ResetIInv'  BY StepKeeps, StutterKeeps
<1> QED BY <1>1, InitKeeps, PTL DEF Reset!Spec

(* Every variable of the controlled stop and of the emergency stop mailbox  *)
(* has its type.                                                            *)
THEOREM ResetTypesHold == Reset!Spec => []Reset!TypeOK
<1>1. ResetIInv => Reset!TypeOK  BY DEF ResetIInv
<1> QED BY <1>1, ResetInvariant, PTL

(* The invalidation of a lost mapping that has to go through the mailbox is *)
(* in the mailbox or in the hands of the motion thread until it is recorded,*)
(* for any number of requesters.                                            *)
THEOREM EvidenceIsKept == Reset!Spec => []EvidenceKept
<1>1. ResetIInv => EvidenceKept  BY DEF ResetIInv, EvidenceKept
<1> QED BY <1>1, ResetInvariant, PTL

(* The NC goes on to its RESET batch on the strength of a completed stop    *)
(* only if no stop was requested since the press.                           *)
THEOREM ConsumedStopsAreClean == Reset!Spec => ConsumedUninterrupted
<1>1. ResetIInv /\ [Reset!Next]_Reset!vars =>
        [resetPhase = "COMPLETED" /\ resetPhase' = "IDLE" => clean]_Reset!vars
  BY OnlyConsumedClean
<1> QED BY <1>1, ResetInvariant, PTL DEF Reset!Spec, ConsumedUninterrupted,
   Reset!ConsumedUninterrupted

(* The flag that a request still needs the motion thread is taken down only *)
(* when every request that has its ticket has left its mailbox.             *)
THEOREM ActionsAreCleared == Reset!Spec => ActionClearedWhenPosted
<1>1. ResetIInv /\ [Reset!Next]_Reset!vars =>
        [word.action /\ ~word'.action /\ rt # "trigger action"
           => \A t \in Reset!Caller : call[t] \notin {"post", "stop"}]_Reset!vars
  BY ClearedWhenPosted DEF Posted
<1> QED BY <1>1, ResetInvariant, PTL DEF Reset!Spec, ActionClearedWhenPosted,
   Reset!ActionClearedWhenPosted

-----------------------------------------------------------------------------
(* What holds of each of the two holds of both, one of which moves.        *)
THEOREM StopsKeepTheirSpecs == StopsSpec => Spec /\ Reset!Spec
<1>1. StopsInit => Init /\ Reset!Init
  BY DEF StopsInit
<1>2. [FenceMoves \/ ResetMoves]_<<moving, vars, resetVariables>> =>
        [Next]_vars /\ [Reset!Next]_Reset!vars
  BY DEF FenceMoves, ResetMoves, resetVariables, Reset!vars, Reset!authorityVars,
     Reset!mailVars, Reset!motionVars, Reset!callerVars, Reset!ncVars, Reset!rtVars,
     Reset!alarmVars
<1> QED BY <1>1, <1>2, PTL DEF StopsSpec, Spec, Reset!Spec

=============================================================================
