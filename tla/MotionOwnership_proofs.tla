------------------------ MODULE MotionOwnership_proofs ------------------------
(***************************************************************************)
(* The safety request protocol of MotionCore holds for any number of       *)
(* requesters, takers and clients, every set of ordinary owners and every  *)
(* bound on the generations.                                               *)
(***************************************************************************)
EXTENDS MotionOwnership, FiniteSetTheorems, TLAPS

(* The calls the revocation count counts. *)
InCall == {"ticket", "post", "take", "judge", "seize", "ensure", "end"}
Calling == {t \in Requester \cup Taker : pc[t] \in InCall}
Counted == IsFiniteSet(Calling) /\ publishers = Cardinality(Calling)

(* Every ticket anybody knows has been given. *)
TicketsGiven ==
  /\ acked <= word.ticket
  /\ \A t \in Thread : seen[t].ticket <= word.ticket
  /\ \A r \in Requester : granted[r] <= word.ticket

(* The word is reserved exactly while one frame is on its way or one       *)
(* release holds it: what a client remembers as reserved, it has reserved. *)
ReservedAlone ==
  /\ word.reserved <=> pc[Rt] = "send" \/ \E c \in Client : seen[c].reserved
  /\ pc[Rt] = "send" => \A c \in Client : ~seen[c].reserved
  /\ \A c, d \in Client : seen[c].reserved /\ seen[d].reserved => c = d

(* The thread compares and exchanges a word it found without SAFETY; an    *)
(* acknowledger raises the acknowledgement only.                           *)
Gates == {"ack publishers", "ack recovery", "ack mailboxes"}
ThreadKnows(t) ==
  /\ pc[t] = "seize" => seen[t].owner # "SAFETY"
  /\ pc[t] = "ack word" => expected[t] <= acked
  /\ pc[t] = "ack commit" => gate[t] = "commit"
  /\ gate[t] = "commit" =>
       pc[t] \in Gates \cup {"ack commit"} /\ expected[t] <= seen[t].ticket

(* Behind its last look at the publishers, and then at the mailboxes, an   *)
(* acknowledger has seen no ticket of a request that is not consumed.      *)
Newer(r, t) == granted[r] # 0 => seen[t].ticket < granted[r]
CommitPassesNobody(t) ==
  /\ gate[t] = "commit" /\ pc[t] # "ack publishers" =>
       \A r \in Requester : pc[r] = "post" => Newer(r, t)
  /\ pc[t] = "ack commit" => \A r \in posted : Newer(r, t)

(* A client exchanges a word whose ticket was acknowledged, and reserves   *)
(* the word of SAFETY only.                                                *)
Comparing ==
  {"hold", "publishers", "unacknowledged", "recovering", "mailboxes", "stopping", "swap"}
ClientKnows(c) ==
  /\ pc[c] \in Comparing => seen[c].ticket <= acked
  /\ pc[c] \in {"idle", "compare", "hold"} => ~seen[c].reserved
  /\ pc[c] = "hold" => seen[c].owner = "SAFETY"
  /\ pc[c] = "let go" => seen[c].reserved

(* The recovery flag is up during an applying pass, from the ticket it was *)
(* granted on.                                                             *)
Claiming == {"claim estop", "claim stop", "apply", "finish", "applied"}
Authorized == {"publishers", "complete"} \cup Claiming
Taking == {"take", "judge", "seize", "ensure"}
Recovering ==
  \/ pc[Rt] \in Authorized
  \/ pc[Rt] = "authorize" /\ lease[Rt] # 0
  \/ pc[Rt] \in Taking /\ ~helping /\ (pc[Rt] = "take" => ticket[Rt] # 0)
FlagUp == pc[Rt] \in {"load", "ticket"} \/ Recovering => recovering

(* An acknowledgement that passes the flag cannot pass the ticket of the   *)
(* word the motion thread has loaded under it.                             *)
LoadedUnderFlag ==
  pc[Rt] = "ticket" =>
    /\ acked <= seen[Rt].ticket
    /\ \A t \in Thread : gate[t] = "commit" /\ pc[t] \in {"ack mailboxes", "ack commit"} =>
         seen[t].ticket <= seen[Rt].ticket

(* A client that means to release SAFETY has loaded a word that is gone.   *)
Outdated(c) == seen[c].owner = "SAFETY" => seen[c].ticket < word.ticket
ReleasesOutdated ==
  /\ Recovering => \A c \in Client : pc[c] \in {"mailboxes", "stopping", "swap"} => Outdated(c)
  /\ controlledStop => \A c \in Client : pc[c] = "swap" => Outdated(c)

(* The pass that applies holds the SAFETY lease it validated. *)
AuthorityHeld ==
  pc[Rt] \in Authorized => word.owner = "SAFETY" /\ word.gen = lease[Rt]

(* What is consumed is being applied. *)
ConsumedApplied == consumed # {} => pc[Rt] \in Claiming

(* An ordinary frame is reserved under an acknowledged ticket, and no      *)
(* frame over the reservation of a release.                                *)
FrameAcknowledged ==
  pc[Rt] = "reserve" =>
    /\ ~seen[Rt].reserved
    /\ seen[Rt].owner # "SAFETY" => seen[Rt].ticket <= acked

IInv ==
  /\ TypeOK
  /\ Counted
  /\ TicketsGiven
  /\ ReservedAlone
  /\ \A t \in Thread : ThreadKnows(t) /\ CommitPassesNobody(t)
  /\ \A c \in Client : ClientKnows(c)
  /\ FlagUp
  /\ LoadedUnderFlag
  /\ ReleasesOutdated
  /\ AuthorityHeld
  /\ ConsumedApplied
  /\ FrameAcknowledged
  /\ AcknowledgedRequestConsumed

-----------------------------------------------------------------------------
(* A word and its fields, typed. *)
LEMMA FieldTypes ==
  ASSUME NEW w \in Word
  PROVE  /\ w.owner \in Owner /\ w.gen \in Nat /\ w.ticket \in Nat
         /\ w.handshake \in BOOLEAN /\ w.action \in BOOLEAN /\ w.reserved \in BOOLEAN
  BY DEF Word

LEMMA NoMotionIsWord ==
  /\ NoMotion \in Word /\ NoMotion.ticket = 0 /\ NoMotion.owner = "NONE"
  /\ NoMotion.reserved = FALSE
  BY DEF NoMotion, Word, Owner

LEMMA InitIInv == Init => IInv
<1> SUFFICES ASSUME Init PROVE IInv
  OBVIOUS
<1> USE DEF Init
<1>1. TypeOK
  <2>1. word \in Word /\ seen \in [Thread -> Word]
    BY NoMotionIsWord
  <2>2. pc \in [Thread -> Label]
    BY DEF Label
  <2>3. gate \in [Thread -> {"entry", "action", "commit"}]
    OBVIOUS
  <2>4. wanted \in [Thread -> OrdinaryOwner \cup {"NONE"}]
    OBVIOUS
  <2>5. stopAuthority \in [gen : Nat, ticket : Nat]
    BY DEF NoAuthority
  <2>6. granted \in [Requester -> Nat] /\ ticket \in [Thread -> Nat] /\ lease \in [Thread -> Nat]
        /\ expected \in [Thread -> Nat] /\ acked \in Nat /\ publishers \in Nat
    OBVIOUS
  <2> QED BY <2>1, <2>2, <2>3, <2>4, <2>5, <2>6 DEF TypeOK
<1>2. Counted
  <2>1. Calling = {}
    BY DEF Calling, InCall, Thread
  <2> QED BY <2>1, FS_EmptySet DEF Counted
<1>3. TicketsGiven
  BY NoMotionIsWord DEF TicketsGiven, Thread
<1>4. Rt \in Thread
  BY DEF Thread
<1>5. FlagUp /\ LoadedUnderFlag /\ ReleasesOutdated /\ AuthorityHeld
      /\ ConsumedApplied /\ FrameAcknowledged
  BY <1>4 DEF FlagUp, LoadedUnderFlag, ReleasesOutdated, AuthorityHeld,
     ConsumedApplied, FrameAcknowledged, Recovering, Authorized, Claiming, Taking, NoMotion
<1>9. ReservedAlone
  <2>1. ~word.reserved /\ pc[Rt] # "send" /\ \A c \in Client : ~seen[c].reserved
    BY <1>4 DEF NoMotion, Thread
  <2> QED BY <2>1 DEF ReservedAlone
<1>6. ASSUME NEW t \in Thread PROVE ThreadKnows(t) /\ CommitPassesNobody(t)
  BY <1>6 DEF ThreadKnows, CommitPassesNobody
<1>7. ASSUME NEW c \in Client PROVE ClientKnows(c)
  BY <1>7 DEF ClientKnows, Comparing, Thread, NoMotion
<1>8. AcknowledgedRequestConsumed
  BY DEF AcknowledgedRequestConsumed
<1> QED BY <1>1, <1>2, <1>3, <1>5, <1>6, <1>7, <1>8, <1>9 DEF IInv

-----------------------------------------------------------------------------
(* Numbers and tables, for steps of arithmetic.                            *)
Tables ==
  /\ pc \in [Thread -> Label] /\ seen \in [Thread -> Word]
  /\ ticket \in [Thread -> Nat] /\ lease \in [Thread -> Nat] /\ expected \in [Thread -> Nat]
  /\ gate \in [Thread -> {"entry", "action", "commit"}]
  /\ wanted \in [Thread -> OrdinaryOwner \cup {"NONE"}]
  /\ granted \in [Requester -> Nat]

Numbers ==
  /\ word.ticket \in Nat /\ word.gen \in Nat /\ acked \in Nat
  /\ \A t \in Thread : seen[t].ticket \in Nat /\ expected[t] \in Nat /\ ticket[t] \in Nat
  /\ \A r \in Requester : granted[r] \in Nat

LEMMA Typed == TypeOK => Tables /\ Numbers
  BY FieldTypes DEF TypeOK, Tables, Numbers

LEMMA Members ==
  /\ Rt \in Thread /\ Requester \subseteq Thread /\ Taker \subseteq Thread /\ Client \subseteq Thread
  /\ Rt \notin Requester /\ Rt \notin Taker /\ Rt \notin Client
  /\ Requester \cap Taker = {} /\ Requester \cap Client = {} /\ Taker \cap Client = {}
  BY ThreadAssumption DEF Thread

(* What a granted or refused ticket does to the word. *)
LEMMA TicketEffect ==
  ASSUME TypeOK, NEW t \in Thread, NEW b \in BOOLEAN, PublishTicket(t, b)
  PROVE  /\ word' \in Word /\ word'.owner = word.owner /\ word'.gen = word.gen
         /\ word'.reserved = word.reserved /\ word.ticket <= word'.ticket
         /\ ticket' \in [Thread -> Nat]
         /\ \A s \in Thread \ {t} : ticket'[s] = ticket[s]
         /\ word.reserved => word' = word /\ ticket'[t] = 0
         /\ ~word.reserved =>
              word'.ticket = word.ticket + 1 /\ ticket'[t] = word.ticket + 1
<1>1. word \in Word /\ ticket \in [Thread -> Nat] /\ word.ticket \in Nat
  BY FieldTypes DEF TypeOK
<1>2. CASE word.reserved
  <2>1. word' = word /\ ticket' = [ticket EXCEPT ![t] = 0]
    BY <1>2 DEF PublishTicket
  <2>2. word.ticket <= word.ticket
    BY <1>1
  <2> QED BY <1>1, <1>2, <2>1, <2>2
<1>3. CASE ~word.reserved
  <2>1. /\ word' = [word EXCEPT !.ticket = @ + 1, !.action = @ \/ b]
        /\ ticket' = [ticket EXCEPT ![t] = word.ticket + 1]
    BY <1>3 DEF PublishTicket
  <2>2. word.ticket + 1 \in Nat /\ (word.action \/ b) \in BOOLEAN
    BY <1>1, FieldTypes
  <2>3. /\ word' \in Word /\ word'.owner = word.owner /\ word'.gen = word.gen
        /\ word'.reserved = word.reserved /\ word'.ticket = word.ticket + 1
    BY <1>1, <2>1, <2>2 DEF Word
  <2> QED BY <1>1, <1>3, <2>1, <2>2, <2>3
<1> QED BY <1>2, <1>3

(* A step of one thread leaves what the others know.                       *)
LocalTo(t) ==
  \A s \in Thread \ {t} : /\ pc'[s] = pc[s] /\ seen'[s] = seen[s]
                          /\ expected'[s] = expected[s] /\ gate'[s] = gate[s]
                          /\ lease'[s] = lease[s] /\ ticket'[s] = ticket[s]

LEMMA OthersKnow ==
  ASSUME IInv, TypeOK', NEW t \in Thread, LocalTo(t),
         word.ticket <= word'.ticket, acked <= acked'
  PROVE  /\ \A s \in Thread \ {t} : ThreadKnows(s)'
         /\ \A c \in Client \ {t} : ClientKnows(c)' /\ (Outdated(c) => Outdated(c)')
<1>1. Numbers
  BY Typed DEF IInv
<1>2. word'.ticket \in Nat /\ acked' \in Nat
  BY Typed DEF TypeOK, Word
<1>3. ASSUME NEW s \in Thread \ {t} PROVE ThreadKnows(s)'
  <2>1. /\ pc'[s] = pc[s] /\ seen'[s] = seen[s] /\ expected'[s] = expected[s]
        /\ gate'[s] = gate[s]
    BY DEF LocalTo
  <2>2. expected[s] <= acked => expected[s] <= acked'
    BY <1>1, <1>2 DEF Numbers
  <2> QED BY <2>1, <2>2 DEF IInv, ThreadKnows
<1>4. ASSUME NEW c \in Client \ {t} PROVE ClientKnows(c)' /\ (Outdated(c) => Outdated(c)')
  <2>1. pc'[c] = pc[c] /\ seen'[c] = seen[c] /\ c \in Thread
    BY Members DEF LocalTo
  <2>2. /\ seen[c].ticket <= acked => seen[c].ticket <= acked'
        /\ seen[c].ticket < word.ticket => seen[c].ticket < word'.ticket
    BY <1>1, <1>2, <2>1 DEF Numbers
  <2> QED BY <2>1, <2>2 DEF IInv, ClientKnows, Outdated
<1> QED BY <1>3, <1>4

(* What other acknowledgers know of the requests as long as nobody takes a *)
(* ticket or posts.                                                        *)
LEMMA OthersPassNobody ==
  ASSUME IInv, NEW t \in Thread, LocalTo(t), granted' = granted, posted' \subseteq posted,
         \A r \in Requester : pc'[r] = "post" => pc[r] = "post"
  PROVE  \A s \in Thread \ {t} : CommitPassesNobody(s)'
<1> SUFFICES ASSUME NEW s \in Thread \ {t} PROVE CommitPassesNobody(s)'
  OBVIOUS
<1>1. pc'[s] = pc[s] /\ seen'[s] = seen[s] /\ gate'[s] = gate[s]
  BY DEF LocalTo
<1>2. CommitPassesNobody(s)
  BY DEF IInv
<1> QED BY <1>1, <1>2 DEF CommitPassesNobody, Newer

(* What the motion thread relies on, as long as another thread moves.      *)
LEMMA RtUndisturbed ==
  ASSUME IInv, TypeOK', NEW t \in Thread \ {Rt}, LocalTo(t), acked <= acked',
         UNCHANGED <<recovering, consumed, helping>>,
         pc[Rt] \in Authorized => word'.owner = word.owner /\ word'.gen = word.gen
  PROVE  FlagUp' /\ AuthorityHeld' /\ ConsumedApplied' /\ FrameAcknowledged'
<1>1. /\ pc'[Rt] = pc[Rt] /\ seen'[Rt] = seen[Rt] /\ lease'[Rt] = lease[Rt]
      /\ ticket'[Rt] = ticket[Rt]
  BY Members DEF LocalTo
<1>2. FlagUp' /\ AuthorityHeld' /\ ConsumedApplied'
  BY <1>1 DEF IInv, FlagUp, Recovering, AuthorityHeld, ConsumedApplied
<1>3. FrameAcknowledged'
  <2>1. seen[Rt].ticket \in Nat /\ acked \in Nat /\ acked' \in Nat
    BY Typed, Members DEF IInv, Numbers, TypeOK
  <2>2. seen[Rt].ticket <= acked => seen[Rt].ticket <= acked'
    BY <2>1
  <2> QED BY <1>1, <2>2 DEF IInv, FrameAcknowledged
<1> QED BY <1>2, <1>3

(* A step that neither takes nor returns a reservation. *)
LEMMA ReservationKept ==
  ASSUME IInv, word'.reserved = word.reserved, pc'[Rt] = "send" <=> pc[Rt] = "send",
         \A c \in Client : seen'[c] = seen[c]
  PROVE  ReservedAlone'
BY DEF IInv, ReservedAlone

-----------------------------------------------------------------------------
(* The steps of a request around its takeover.                             *)
Call(t) == Begin(t) \/ RequestTicket(t) \/ TakeoverTicket(t) \/ PostMailbox(t) \/ End(t)

LEMMA CallEffect ==
  ASSUME IInv, NEW t \in Requester \cup Taker, Call(t)
  PROVE  /\ LocalTo(t) /\ pc' \in [Thread -> Label]
         /\ UNCHANGED <<acked, recovering, controlledStop, stopAuthority, consumed, kind,
                        expected, gate, wanted, helping>>
         /\ seen' \in [Thread -> Word] /\ seen'[t] \in {seen[t], NoMotion}
         /\ lease' \in [Thread -> Nat]
         /\ pc[t] \in {"idle", "ticket", "post", "end"}
         /\ pc'[t] \in {"ticket", "post", "take", "ack publishers", "done"}
         /\ word' \in Word /\ word'.owner = word.owner /\ word'.gen = word.gen
         /\ word'.reserved = word.reserved /\ word.ticket <= word'.ticket
         /\ ticket' \in [Thread -> Nat] /\ granted' \in [Requester -> Nat]
         /\ posted' \subseteq Requester
<1> USE DEF locals, shared, requests
<1>1. /\ t \in Thread /\ Tables /\ Numbers /\ word \in Word /\ posted \subseteq Requester
      /\ word.ticket <= word.ticket
  BY Members, Typed DEF IInv, TypeOK, Numbers
<1>2. CASE Begin(t)
  <2>1. /\ UNCHANGED <<word, acked, recovering, controlledStop, stopAuthority, requests, locals>>
        /\ pc[t] = "idle" /\ pc' = [pc EXCEPT ![t] = "ticket"]
    BY <1>2 DEF Begin, At, Goto
  <2>2. LocalTo(t) /\ pc' \in [Thread -> Label] /\ pc'[t] \in {"ticket", "ack publishers", "done"}
    BY <1>1, <2>1 DEF LocalTo, Label, Tables
  <2> QED BY <1>1, <2>1, <2>2 DEF Tables, Numbers
<1>3. CASE RequestTicket(t)
  <2>1. /\ UNCHANGED <<acked, recovering, controlledStop, stopAuthority, posted, consumed,
                       kind, seen, lease, expected, gate, wanted, helping>>
        /\ pc[t] = "ticket" /\ pc' = [pc EXCEPT ![t] = "post"] /\ t \in Requester
        /\ PublishTicket(t, TRUE) /\ granted' = [granted EXCEPT ![t] = ticket'[t]]
    BY <1>3 DEF RequestTicket, At, Goto
  <2>2. /\ word' \in Word /\ word'.owner = word.owner /\ word'.gen = word.gen
        /\ word'.reserved = word.reserved /\ ticket' \in [Thread -> Nat]
        /\ word.ticket <= word'.ticket /\ \A s \in Thread \ {t} : ticket'[s] = ticket[s]
    BY <1>1, <2>1, TicketEffect DEF IInv
  <2> HIDE DEF locals, shared, requests
  <2>3. granted' \in [Requester -> Nat]
    BY <1>1, <2>1, <2>2 DEF Tables
  <2>4. LocalTo(t) /\ pc' \in [Thread -> Label] /\ pc'[t] = "post"
    BY <1>1, <2>1, <2>2 DEF LocalTo, Label, Tables
  <2>5. seen' \in [Thread -> Word] /\ lease' \in [Thread -> Nat] /\ seen'[t] = seen[t]
    BY <1>1, <2>1 DEF Tables
  <2> QED BY <1>1, <2>1, <2>2, <2>3, <2>4, <2>5
<1>4. CASE TakeoverTicket(t)
  <2>1. /\ UNCHANGED <<acked, recovering, controlledStop, stopAuthority, posted, consumed,
                       kind, granted, seen, lease, expected, gate, wanted, helping>>
        /\ pc[t] = "ticket" /\ pc' = [pc EXCEPT ![t] = "take"]
        /\ PublishTicket(t, FALSE)
    BY <1>4 DEF TakeoverTicket, At, Goto
  <2>2. /\ word' \in Word /\ word'.owner = word.owner /\ word'.gen = word.gen
        /\ word'.reserved = word.reserved /\ ticket' \in [Thread -> Nat]
        /\ word.ticket <= word'.ticket /\ \A s \in Thread \ {t} : ticket'[s] = ticket[s]
    BY <1>1, <2>1, TicketEffect DEF IInv
  <2> HIDE DEF locals, shared, requests
  <2>4. LocalTo(t) /\ pc' \in [Thread -> Label] /\ pc'[t] = "take"
    BY <1>1, <2>1, <2>2 DEF LocalTo, Label, Tables
  <2> QED BY <1>1, <2>1, <2>2, <2>4 DEF Tables
<1>5. CASE PostMailbox(t)
  <2>1. /\ UNCHANGED <<word, acked, recovering, controlledStop, stopAuthority, consumed,
                       kind, granted, seen, lease, expected, gate, wanted, helping>>
        /\ pc[t] = "post" /\ pc' = [pc EXCEPT ![t] = "take"] /\ t \in Requester
        /\ ticket' = [ticket EXCEPT ![t] =
             IF word.ticket \notin {0, acked} /\ word.action THEN word.ticket ELSE 0]
        /\ posted' = posted \cup {t}
    BY <1>5 DEF PostMailbox, At, Goto
  <2> HIDE DEF locals, shared, requests
  <2>2. ticket' \in [Thread -> Nat]
    BY <1>1, <2>1 DEF Tables, Numbers
  <2>4. LocalTo(t) /\ pc' \in [Thread -> Label] /\ pc'[t] = "take"
    BY <1>1, <2>1 DEF LocalTo, Label, Tables
  <2> QED BY <1>1, <2>1, <2>2, <2>4 DEF Tables, Numbers
<1>6. CASE End(t)
  <2>1. /\ UNCHANGED <<word, acked, recovering, controlledStop, stopAuthority, requests,
                       expected, gate, wanted, helping>>
        /\ seen' = [seen EXCEPT ![t] = NoMotion] /\ ticket' = [ticket EXCEPT ![t] = 0]
        /\ lease' = [lease EXCEPT ![t] = 0]
        /\ pc[t] = "end" /\ pc' = [pc EXCEPT ![t] = IF t \in Taker THEN "ack publishers" ELSE "done"]
    BY <1>6 DEF End, At, Goto
  <2>3. /\ seen' \in [Thread -> Word] /\ seen'[t] = NoMotion
        /\ lease' \in [Thread -> Nat] /\ ticket' \in [Thread -> Nat]
    BY <1>1, <2>1, NoMotionIsWord DEF Tables
  <2>2. LocalTo(t) /\ pc' \in [Thread -> Label] /\ pc'[t] \in {"ticket", "ack publishers", "done"}
    BY <1>1, <2>1 DEF LocalTo, Label, Tables
  <2> QED BY <1>1, <2>1, <2>2, <2>3 DEF Tables, Numbers
<1> QED BY <1>2, <1>3, <1>4, <1>5, <1>6 DEF Call

LEMMA CallCounted ==
  ASSUME IInv, NEW t \in Requester \cup Taker, Call(t)
  PROVE  Counted' /\ publishers' \in Nat
<1> USE DEF InCall
<1>1. /\ t \in Thread /\ Tables /\ IsFiniteSet(Calling) /\ publishers = Cardinality(Calling)
      /\ Calling' = {s \in Requester \cup Taker : pc'[s] \in InCall}
      /\ Requester \cup Taker \subseteq Thread
  BY Members, Typed DEF IInv, Counted, Calling
<1>2. CASE Begin(t)
  <2>1. /\ publishers' = publishers + 1 /\ pc[t] = "idle" /\ pc' = [pc EXCEPT ![t] = "ticket"]
    BY <1>2 DEF Begin, At, Goto
  <2>2. t \notin Calling /\ Calling' = Calling \cup {t}
    BY <1>1, <2>1 DEF Calling, Tables
  <2>3. IsFiniteSet(Calling \cup {t}) /\ Cardinality(Calling \cup {t}) = Cardinality(Calling) + 1
    BY <1>1, <2>2, FS_AddElement
  <2> QED BY <1>1, <2>1, <2>2, <2>3, FS_CardinalityType DEF Counted
<1>3. CASE End(t)
  <2>1. /\ publishers' = publishers - 1 /\ pc[t] = "end"
        /\ pc' = [pc EXCEPT ![t] = IF t \in Taker THEN "ack publishers" ELSE "done"]
    BY <1>3 DEF End, At, Goto
  <2>2. t \in Calling /\ Calling' = Calling \ {t}
    BY <1>1, <2>1 DEF Calling, Tables
  <2>3. IsFiniteSet(Calling \ {t}) /\ Cardinality(Calling \ {t}) = Cardinality(Calling) - 1
    BY <1>1, <2>2, FS_RemoveElement
  <2> QED BY <1>1, <2>1, <2>2, <2>3, FS_CardinalityType DEF Counted
<1>4. CASE RequestTicket(t) \/ TakeoverTicket(t) \/ PostMailbox(t)
  <2>1. /\ publishers' = publishers /\ pc[t] \in InCall
        /\ \E l \in InCall : pc' = [pc EXCEPT ![t] = l]
    BY <1>4 DEF RequestTicket, TakeoverTicket, PostMailbox, At, Goto, shared
  <2>2. Calling' = Calling
    BY <1>1, <2>1 DEF Calling, Tables
  <2> QED BY <1>1, <2>1, <2>2, FS_CardinalityType DEF Counted
<1> QED BY <1>2, <1>3, <1>4 DEF Call

LEMMA CallIInv ==
  ASSUME IInv, NEW t \in Requester \cup Taker, Call(t)
  PROVE  IInv'
<1>1. /\ LocalTo(t) /\ pc' \in [Thread -> Label]
      /\ UNCHANGED <<acked, recovering, controlledStop, stopAuthority, consumed, kind,
                     expected, gate, wanted, helping>>
      /\ seen' \in [Thread -> Word] /\ seen'[t] \in {seen[t], NoMotion}
      /\ lease' \in [Thread -> Nat]
      /\ pc[t] \in {"idle", "ticket", "post", "end"}
      /\ pc'[t] \in {"ticket", "post", "take", "ack publishers", "done"}
      /\ word' \in Word /\ word'.owner = word.owner /\ word'.gen = word.gen
      /\ word'.reserved = word.reserved /\ word.ticket <= word'.ticket
      /\ ticket' \in [Thread -> Nat] /\ granted' \in [Requester -> Nat]
      /\ posted' \subseteq Requester
  BY CallEffect
<1>2. Counted' /\ publishers' \in Nat
  BY CallCounted
<1>3. TypeOK'
  BY <1>1, <1>2 DEF IInv, TypeOK
<1>4. /\ t \in Thread /\ t # Rt /\ t \notin Client /\ Tables /\ Numbers
      /\ Requester \subseteq Thread /\ Client \subseteq Thread
  BY Members, Typed DEF IInv
<1>5. acked <= acked' /\ word'.ticket \in Nat
  <2>1. word'.ticket \in Nat
    BY <1>1, FieldTypes
  <2>2. acked \in Nat /\ acked' = acked
    BY <1>1, <1>4 DEF Numbers
  <2> QED BY <2>1, <2>2
<1>6. ThreadKnows(t) /\ \A s \in Thread : ThreadKnows(s) /\ CommitPassesNobody(s)
  BY <1>4 DEF IInv
<1>7. gate[t] # "commit"
  BY <1>1, <1>6 DEF ThreadKnows, Gates
<1>8. /\ \A s \in Thread \ {t} : ThreadKnows(s)'
      /\ \A c \in Client : ClientKnows(c)' /\ (Outdated(c) => Outdated(c)')
  <2>1. \A c \in Client : c \in Client \ {t}
    BY <1>4
  <2> QED BY <1>1, <1>3, <1>4, <1>5, <2>1, OthersKnow
<1>9. ThreadKnows(t)' /\ CommitPassesNobody(t)'
  BY <1>1, <1>7 DEF ThreadKnows, CommitPassesNobody
<1>10. /\ TicketsGiven'
       /\ \A s \in Thread \ {t} : CommitPassesNobody(s)'
       /\ AcknowledgedRequestConsumed'
  <2>1. /\ acked <= word.ticket /\ \A s \in Thread : seen[s].ticket <= word.ticket
        /\ \A r \in Requester : granted[r] <= word.ticket
    BY DEF IInv, TicketsGiven
  <2>2. /\ acked' <= word'.ticket /\ \A s \in Thread : seen'[s].ticket <= word'.ticket
        /\ \A r \in Requester : granted[r] <= word'.ticket
    <3>1. /\ word.ticket \in Nat /\ word'.ticket \in Nat /\ word.ticket <= word'.ticket
          /\ acked \in Nat /\ acked' = acked
          /\ \A s \in Thread : seen'[s] \in {seen[s], NoMotion}
      BY <1>1, <1>4, <1>5 DEF Numbers, LocalTo
    <3>2. ASSUME NEW n \in Nat, n <= word.ticket PROVE n <= word'.ticket
      BY <3>1, <3>2
    <3>3. /\ \A s \in Thread : seen[s].ticket \in Nat
          /\ \A r \in Requester : granted[r] \in Nat
      BY <1>4 DEF Numbers
    <3>4. NoMotion.ticket = 0 /\ 0 <= word'.ticket
      BY <3>1, NoMotionIsWord
    <3>5. \A s \in Thread : seen'[s].ticket <= word'.ticket
      BY <2>1, <3>1, <3>2, <3>3, <3>4
    <3> QED BY <2>1, <3>1, <3>2, <3>3, <3>5
  <2>3. CASE Begin(t) \/ TakeoverTicket(t) \/ End(t)
    <3>1. UNCHANGED <<granted, posted>>
      BY <2>3 DEF Begin, TakeoverTicket, End, requests
    <3>2. pc'[t] # "post"
      BY <2>3, <1>4 DEF Begin, TakeoverTicket, End, Goto, Tables
    <3>3. \A r \in Requester : pc'[r] = "post" => pc[r] = "post"
      BY <3>2, <1>1, <1>4 DEF LocalTo
    <3>4. \A s \in Thread \ {t} : CommitPassesNobody(s)'
      BY <3>1, <3>3, <1>1, <1>4, OthersPassNobody
    <3> QED BY <3>1, <3>3, <3>4, <2>2, <1>1 DEF TicketsGiven, IInv, AcknowledgedRequestConsumed
  <2>4. CASE RequestTicket(t)
    <3>1. /\ t \in Requester /\ PublishTicket(t, TRUE) /\ posted' = posted
          /\ granted' = [granted EXCEPT ![t] = ticket'[t]]
      BY <2>4 DEF RequestTicket
    <3>2. /\ ticket'[t] \in Nat /\ granted'[t] = ticket'[t]
          /\ \A r \in Requester \ {t} : granted'[r] = granted[r]
          /\ ticket'[t] = 0 \/ (ticket'[t] = word.ticket + 1 /\ word'.ticket = word.ticket + 1)
      BY <3>1, <1>1, <1>4, TicketEffect DEF IInv, Tables
    <3>3. TicketsGiven'
      <4>1. ticket'[t] <= word'.ticket
        BY <3>2, <1>5
      <4> QED BY <4>1, <3>2, <2>2 DEF TicketsGiven
    <3>4. ASSUME NEW s \in Thread \ {t} PROVE CommitPassesNobody(s)'
      <4>1. Newer(t, s)'
        <5>1. seen'[s].ticket = seen[s].ticket /\ seen[s].ticket \in Nat /\ word.ticket \in Nat
              /\ seen[s].ticket <= word.ticket
          BY <1>1, <1>4, <2>1 DEF Numbers, LocalTo
        <5>2. granted'[t] # 0 => seen'[s].ticket < granted'[t]
          BY <5>1, <3>2
        <5> QED BY <5>2 DEF Newer
      <4>2. \A r \in Requester \ {t} : Newer(r, s) => Newer(r, s)'
        BY <3>2, <1>1 DEF Newer, LocalTo
      <4>3. /\ pc'[s] = pc[s] /\ gate'[s] = gate[s]
            /\ \A r \in Requester \ {t} : pc'[r] = pc[r]
        BY <1>1, <1>4 DEF LocalTo
      <4>4. CommitPassesNobody(s) /\ posted \subseteq Requester
        BY <1>6 DEF IInv, TypeOK
      <4> QED BY <4>1, <4>2, <4>3, <4>4, <3>1 DEF CommitPassesNobody
    <3>5. AcknowledgedRequestConsumed'
      <4>1. granted'[t] \notin 1 .. acked
        BY <3>2, <2>1, <1>4 DEF Numbers
      <4>2. \A r \in Requester \ {t} : pc'[r] = pc[r]
        BY <1>1, <1>4 DEF LocalTo
      <4> QED BY <4>1, <4>2, <3>1, <3>2, <1>1 DEF IInv, AcknowledgedRequestConsumed
    <3> QED BY <3>3, <3>4, <3>5
  <2>5. CASE PostMailbox(t)
    <3>1. /\ t \in Requester /\ pc[t] = "post" /\ pc'[t] = "take"
          /\ posted' = posted \cup {t} /\ granted' = granted
      BY <2>5, <1>4 DEF PostMailbox, At, Goto, Tables
    <3>2. \A r \in Requester \ {t} : pc'[r] = pc[r]
      BY <1>1, <1>4 DEF LocalTo
    <3>3. ASSUME NEW s \in Thread \ {t} PROVE CommitPassesNobody(s)'
      <4>1. /\ pc'[s] = pc[s] /\ gate'[s] = gate[s]
            /\ \A r \in Requester : Newer(r, s)' = Newer(r, s)
        BY <1>1, <3>1 DEF LocalTo, Newer
      <4>2. pc[s] = "ack commit" => Newer(t, s)
        BY <1>6, <3>1 DEF ThreadKnows, CommitPassesNobody
      <4>3. CommitPassesNobody(s) /\ posted \subseteq Requester
        BY <1>6 DEF IInv, TypeOK
      <4> QED BY <4>1, <4>2, <4>3, <3>1, <3>2 DEF CommitPassesNobody
    <3>4. AcknowledgedRequestConsumed'
      BY <3>1, <3>2, <1>1 DEF IInv, AcknowledgedRequestConsumed
    <3>5. TicketsGiven'
      BY <2>2, <3>1 DEF TicketsGiven
    <3> QED BY <3>3, <3>4, <3>5
  <2> QED BY <2>3, <2>4, <2>5 DEF Call
<1>11. FlagUp' /\ AuthorityHeld' /\ ConsumedApplied' /\ FrameAcknowledged'
  BY <1>1, <1>3, <1>4, <1>5, RtUndisturbed
<1>12. /\ pc'[Rt] = pc[Rt] /\ lease'[Rt] = lease[Rt] /\ ticket'[Rt] = ticket[Rt]
       /\ \A c \in Client : pc'[c] = pc[c] /\ seen'[c] = seen[c]
  BY <1>1, <1>4, Members DEF LocalTo
<1>15. ReservedAlone'
  BY <1>1, <1>12, ReservationKept
<1>13. LoadedUnderFlag'
  <2>1. \A s \in Thread : pc'[s] \in {"ack mailboxes", "ack commit"} =>
          pc'[s] = pc[s] /\ seen'[s] = seen[s]
    BY <1>1, <1>4 DEF LocalTo
  <2>2. seen'[Rt] = seen[Rt]
    BY <1>1, <1>4, Members DEF LocalTo
  <2> QED BY <2>1, <2>2, <1>1, <1>12 DEF IInv, LoadedUnderFlag
<1>14. ReleasesOutdated'
  BY <1>1, <1>8, <1>12 DEF IInv, ReleasesOutdated, Recovering
<1> QED BY <1>2, <1>3, <1>8, <1>9, <1>10, <1>11, <1>13, <1>14, <1>15 DEF IInv

-----------------------------------------------------------------------------
(* The takeover: the word changes hands only where SAFETY does not hold it. *)
LEMMA TakeEffect ==
  ASSUME IInv, NEW t \in Requester \cup Taker \cup {Rt}, Take(t)
  PROVE  /\ LocalTo(t) /\ pc' \in [Thread -> Label] /\ seen' \in [Thread -> Word]
         /\ lease' \in [Thread -> Nat]
         /\ UNCHANGED <<acked, publishers, recovering, controlledStop, stopAuthority, requests,
                        ticket, expected, gate, wanted, helping>>
         /\ pc[t] \in Taking /\ pc'[t] \in {"judge", "seize", "ensure", AfterTake(t)}
         /\ word' \in Word /\ word'.ticket = word.ticket /\ word'.reserved = word.reserved
         /\ word.owner = "SAFETY" => word'.owner = word.owner /\ word'.gen = word.gen
         /\ word'.owner # word.owner => word'.owner = "SAFETY"
         /\ seen'[t] = seen[t] \/ seen'[t] = word
         /\ pc'[t] = "seize" => seen'[t].owner # "SAFETY"
         /\ pc[t] = "take" /\ ticket[t] = 0 => lease'[t] = 0 /\ pc'[t] = AfterTake(t)
<1> USE DEF Taking
<1>1. /\ t \in Thread /\ Tables /\ Numbers /\ word \in Word /\ AfterTake(t) \in Label
      /\ ThreadKnows(t)
  BY Members, Typed DEF IInv, TypeOK, AfterTake, Label
<1>2. CASE TakeLoad(t)
  <2>1. /\ UNCHANGED <<word, acked, publishers, recovering, controlledStop, stopAuthority,
                       requests, ticket, expected, gate, wanted, helping>>
        /\ pc[t] = "take" /\ seen' = [seen EXCEPT ![t] = word]
        /\ lease' = [lease EXCEPT ![t] = 0]
        /\ pc' = [pc EXCEPT ![t] = IF ticket[t] = 0 THEN AfterTake(t) ELSE "judge"]
    BY <1>2 DEF TakeLoad, At, Goto, shared
  <2>2. /\ LocalTo(t) /\ pc' \in [Thread -> Label] /\ seen' \in [Thread -> Word]
        /\ lease' \in [Thread -> Nat] /\ pc'[t] \in {"judge", AfterTake(t)} /\ seen'[t] = word
        /\ ticket[t] = 0 => lease'[t] = 0 /\ pc'[t] = AfterTake(t)
    BY <1>1, <2>1 DEF LocalTo, Label, Tables
  <2>3. pc'[t] # "seize"
    BY <2>2 DEF AfterTake
  <2> QED BY <1>1, <2>1, <2>2, <2>3
<1>3. CASE TakeJudge(t)
  <2>1. /\ UNCHANGED <<word, acked, publishers, recovering, controlledStop, stopAuthority,
                       requests, seen, ticket, expected, gate, wanted, helping>>
        /\ pc[t] = "judge"
        /\ \/ Goto(t, AfterTake(t)) /\ UNCHANGED lease
           \/ seen[t].owner # "SAFETY" /\ Goto(t, "seize") /\ UNCHANGED lease
           \/ /\ lease' = [lease EXCEPT ![t] = seen[t].gen]
              /\ Goto(t, IF seen[t].handshake THEN "ensure" ELSE AfterTake(t))
    BY <1>3 DEF TakeJudge, At, shared
  <2>2. seen[t].gen \in Nat
    BY <1>1, FieldTypes DEF Tables
  <2>3. /\ LocalTo(t) /\ lease' \in [Thread -> Nat]
    BY <1>1, <2>1, <2>2 DEF LocalTo, Tables, Goto
  <2>4. /\ pc' \in [Thread -> Label] /\ pc'[t] \in {"seize", "ensure", AfterTake(t)}
        /\ pc'[t] = "seize" => seen[t].owner # "SAFETY"
    <3>1. PICK label \in {"seize", "ensure", AfterTake(t)} :
            /\ pc' = [pc EXCEPT ![t] = label]
            /\ label = "seize" => seen[t].owner # "SAFETY"
      BY <2>1 DEF Goto, AfterTake
    <3>2. label \in Label
      BY <1>1, <3>1 DEF Label
    <3>3. pc' \in [Thread -> Label] /\ pc'[t] = label
      BY <1>1, <3>1, <3>2 DEF Tables
    <3> QED BY <3>1, <3>3
  <2> QED BY <1>1, <2>1, <2>3, <2>4 DEF Tables
<1>4. CASE TakeSeize(t)
  <2>1. /\ UNCHANGED <<acked, publishers, recovering, controlledStop, stopAuthority,
                       requests, ticket, expected, gate, wanted, helping>>
        /\ pc[t] = "seize"
    BY <1>4 DEF TakeSeize, At
  <2>2. CASE word = seen[t]
    <3>1. /\ word' = [word EXCEPT !.owner = "SAFETY", !.gen = @ + 1, !.handshake = TRUE]
          /\ lease' = [lease EXCEPT ![t] = word.gen + 1] /\ seen' = seen
          /\ pc' = [pc EXCEPT ![t] = "ensure"]
      BY <1>4, <2>2 DEF TakeSeize, Goto
    <3>2. word.gen + 1 \in Nat /\ "SAFETY" \in Owner
      BY <1>1, FieldTypes DEF Owner
    <3>3. word' \in Word /\ word'.ticket = word.ticket /\ word'.reserved = word.reserved
          /\ word'.owner = "SAFETY"
      BY <1>1, <3>1, <3>2 DEF Word
    <3>4. word.owner # "SAFETY"
      BY <1>1, <2>1, <2>2 DEF ThreadKnows
    <3>5. LocalTo(t) /\ lease' \in [Thread -> Nat]
      BY <1>1, <2>1, <3>1, <3>2 DEF LocalTo, Tables
    <3>6. pc' \in [Thread -> Label] /\ pc'[t] = "ensure"
      BY <1>1, <3>1 DEF Label, Tables
    <3> QED BY <1>1, <2>1, <3>1, <3>3, <3>4, <3>5, <3>6 DEF Tables
  <2>3. CASE word # seen[t]
    <3>1. /\ seen' = [seen EXCEPT ![t] = word] /\ pc' = [pc EXCEPT ![t] = "judge"]
          /\ UNCHANGED <<word, lease>>
      BY <1>4, <2>3 DEF TakeSeize, Goto
    <3>2. LocalTo(t) /\ seen' \in [Thread -> Word] /\ seen'[t] = word
      BY <1>1, <2>1, <3>1 DEF LocalTo, Tables
    <3>3. pc' \in [Thread -> Label] /\ pc'[t] = "judge"
      BY <1>1, <3>1 DEF Label, Tables
    <3> QED BY <1>1, <2>1, <3>1, <3>2, <3>3 DEF Tables
  <2> QED BY <2>2, <2>3
<1>5. CASE TakeEnsure(t)
  <2>1. /\ UNCHANGED <<acked, publishers, recovering, controlledStop, stopAuthority,
                       requests, seen, ticket, expected, gate, wanted, helping>>
        /\ pc[t] = "ensure" /\ pc' = [pc EXCEPT ![t] = AfterTake(t)]
        /\ \/ word' = [word EXCEPT !.handshake = FALSE] /\ UNCHANGED lease
           \/ lease' = [lease EXCEPT ![t] = 0] /\ UNCHANGED word
    BY <1>5 DEF TakeEnsure, At, Goto
  <2>2. /\ word' \in Word /\ word'.ticket = word.ticket /\ word'.reserved = word.reserved
        /\ word'.owner = word.owner /\ word'.gen = word.gen
    BY <1>1, <2>1 DEF Word
  <2>3. /\ LocalTo(t) /\ pc' \in [Thread -> Label] /\ pc'[t] = AfterTake(t)
        /\ lease' \in [Thread -> Nat]
    BY <1>1, <2>1 DEF LocalTo, Tables
  <2>4. pc'[t] # "seize"
    BY <2>3 DEF AfterTake
  <2> QED BY <1>1, <2>1, <2>2, <2>3, <2>4 DEF Tables
<1> QED BY <1>2, <1>3, <1>4, <1>5 DEF Take

LEMMA TakeIInv ==
  ASSUME IInv, NEW t \in Requester \cup Taker \cup {Rt}, Take(t)
  PROVE  IInv'
<1> USE DEF Taking
<1>1. /\ LocalTo(t) /\ pc' \in [Thread -> Label] /\ seen' \in [Thread -> Word]
      /\ lease' \in [Thread -> Nat]
      /\ UNCHANGED <<acked, publishers, recovering, controlledStop, stopAuthority, posted,
                     consumed, kind, granted, ticket, expected, gate, wanted, helping>>
      /\ pc[t] \in Taking /\ pc'[t] \in {"judge", "seize", "ensure", AfterTake(t)}
      /\ word' \in Word /\ word'.ticket = word.ticket /\ word'.reserved = word.reserved
      /\ word.owner = "SAFETY" => word'.owner = word.owner /\ word'.gen = word.gen
      /\ seen'[t] = seen[t] \/ seen'[t] = word
      /\ pc'[t] = "seize" => seen'[t].owner # "SAFETY"
      /\ pc[t] = "take" /\ ticket[t] = 0 => lease'[t] = 0 /\ pc'[t] = AfterTake(t)
  BY TakeEffect DEF requests
<1>2. TypeOK'
  BY <1>1 DEF IInv, TypeOK
<1>3. /\ t \in Thread /\ t \notin Client /\ Tables /\ Numbers
      /\ Requester \subseteq Thread /\ Client \subseteq Thread
      /\ Rt \in Thread \ (Requester \cup Taker)
  BY Members, Typed DEF IInv
<1>4. acked <= acked' /\ word.ticket <= word'.ticket
  BY <1>1, <1>3 DEF Numbers
<1>5. \A s \in Thread : ThreadKnows(s) /\ CommitPassesNobody(s)
  BY DEF IInv
<1>6. gate[t] # "commit"
  BY <1>1, <1>3, <1>5 DEF ThreadKnows, Gates
<1>7. AfterTake(t) = IF t # Rt THEN "end" ELSE IF helping THEN "ack publishers" ELSE "authorize"
  BY DEF AfterTake
<1>8. Counted'
  <2>1. ASSUME NEW s \in Requester \cup Taker PROVE (pc'[s] \in InCall) = (pc[s] \in InCall)
    <3>1. CASE s = t
      <4>1. t # Rt
        BY <3>1, <1>3
      <4> QED BY <3>1, <4>1, <1>1, <1>7 DEF InCall
    <3>2. CASE s # t
      BY <3>2, <1>1, <1>3, Members DEF LocalTo
    <3> QED BY <3>1, <3>2
  <2>2. Calling' = Calling
    BY <2>1 DEF Calling
  <2> QED BY <2>2, <1>1 DEF IInv, Counted
<1>9. TicketsGiven'
  <2>1. \A s \in Thread : seen'[s] = seen[s] \/ seen'[s] = word
    BY <1>1, <1>3 DEF LocalTo
  <2>2. word.ticket <= word.ticket
    BY <1>3 DEF Numbers
  <2> QED BY <2>1, <2>2, <1>1 DEF IInv, TicketsGiven
<1>10. /\ \A s \in Thread \ {t} : ThreadKnows(s)'
       /\ \A c \in Client : ClientKnows(c)' /\ (Outdated(c) => Outdated(c)')
  <2>1. \A c \in Client : c \in Client \ {t}
    BY <1>3
  <2> QED BY <1>1, <1>2, <1>3, <1>4, <2>1, OthersKnow
<1>11. ThreadKnows(t)' /\ CommitPassesNobody(t)'
  BY <1>1, <1>6, <1>7 DEF ThreadKnows, CommitPassesNobody
<1>12. \A r \in Requester : pc'[r] = "post" => pc[r] = "post"
  BY <1>1, <1>3, <1>7 DEF LocalTo
<1>13. \A s \in Thread \ {t} : CommitPassesNobody(s)'
  BY <1>1, <1>3, <1>12, OthersPassNobody
<1>14. AcknowledgedRequestConsumed'
  BY <1>1, <1>12 DEF IInv, AcknowledgedRequestConsumed
<1>15. \A c \in Client : pc'[c] = pc[c] /\ seen'[c] = seen[c]
  BY <1>1, <1>3 DEF LocalTo
<1>16. CASE t # Rt
  <2>1. pc[Rt] \in Authorized => word'.owner = word.owner /\ word'.gen = word.gen
    BY <1>1 DEF IInv, AuthorityHeld
  <2>2. FlagUp' /\ AuthorityHeld' /\ ConsumedApplied' /\ FrameAcknowledged'
    BY <1>1, <1>2, <1>3, <1>4, <1>16, <2>1, RtUndisturbed
  <2>3. pc'[Rt] = pc[Rt] /\ seen'[Rt] = seen[Rt] /\ lease'[Rt] = lease[Rt]
    BY <1>1, <1>3, <1>16 DEF LocalTo
  <2>6. ReservedAlone'
    BY <1>1, <1>15, <2>3, ReservationKept
  <2>4. LoadedUnderFlag'
    <3>1. \A s \in Thread : pc'[s] \in {"ack mailboxes", "ack commit"} =>
            pc'[s] = pc[s] /\ seen'[s] = seen[s]
      BY <1>1, <1>3, <1>7 DEF LocalTo
    <3> QED BY <3>1, <2>3, <1>1 DEF IInv, LoadedUnderFlag
  <2>5. ReleasesOutdated'
    BY <1>1, <1>10, <1>15, <2>3 DEF IInv, ReleasesOutdated, Recovering
  <2> QED BY <1>2, <1>8, <1>9, <1>10, <1>11, <1>13, <1>14, <2>2, <2>4, <2>5, <2>6 DEF IInv
<1>17. CASE t = Rt
  <2>1. /\ pc[Rt] \in Taking
        /\ pc'[Rt] \in Taking \cup {IF helping THEN "ack publishers" ELSE "authorize"}
    BY <1>1, <1>7, <1>17
  <2>2. Recovering' => Recovering
    BY <2>1, <1>1, <1>7, <1>17 DEF Recovering, Authorized, Claiming
  <2>3. FlagUp'
    BY <2>1, <2>2, <1>1 DEF IInv, FlagUp
  <2>6. ReservedAlone'
    BY <2>1, <1>1, <1>15, ReservationKept
  <2>4. /\ LoadedUnderFlag' /\ AuthorityHeld' /\ ConsumedApplied'
        /\ FrameAcknowledged'
    BY <2>1, <1>1 DEF IInv, LoadedUnderFlag, AuthorityHeld, ConsumedApplied,
       FrameAcknowledged, Authorized, Claiming
  <2>5. ReleasesOutdated'
    BY <1>1, <1>10, <1>15, <2>2 DEF IInv, ReleasesOutdated
  <2> QED BY <1>2, <1>8, <1>9, <1>10, <1>11, <1>13, <1>14, <2>3, <2>4, <2>5, <2>6 DEF IInv
<1> QED BY <1>16, <1>17

-----------------------------------------------------------------------------
(* The two ways a step goes on.                                            *)
LEMMA LeaveEffect ==
  ASSUME IInv, NEW t \in Thread, LeaveAck(t), granted' = granted
  PROVE  /\ LocalTo(t) /\ Tables' /\ UNCHANGED <<wanted, helping>>
         /\ pc'[t] = AfterAck(t) /\ gate'[t] = "entry" /\ seen'[t] = NoMotion
<1>1. Tables /\ AfterAck(t) \in Label /\ NoMotion \in Word
  BY Typed, NoMotionIsWord DEF IInv, AfterAck, Label
<1>2. LocalTo(t)
  BY <1>1 DEF LocalTo, Tables, LeaveAck, Goto
<1>3. pc' \in [Thread -> Label] /\ pc'[t] = AfterAck(t)
  BY <1>1 DEF Tables, LeaveAck, Goto
<1>4. /\ seen' \in [Thread -> Word] /\ seen'[t] = NoMotion
      /\ gate' \in [Thread -> {"entry", "action", "commit"}] /\ gate'[t] = "entry"
  BY <1>1 DEF Tables, LeaveAck
<1>5. /\ ticket' \in [Thread -> Nat] /\ lease' \in [Thread -> Nat] /\ expected' \in [Thread -> Nat]
      /\ UNCHANGED <<wanted, helping>>
  BY <1>1 DEF Tables, LeaveAck
<1> QED BY <1>1, <1>2, <1>3, <1>4, <1>5 DEF Tables

LEMMA ContinueEffect ==
  ASSUME IInv, NEW t \in Thread, NEW label \in Label, Continue(t, label), granted' = granted
  PROVE  /\ LocalTo(t) /\ Tables' /\ UNCHANGED locals /\ pc'[t] = label
<1>1. Tables /\ pc' = [pc EXCEPT ![t] = label]
      /\ UNCHANGED <<seen, ticket, lease, expected, gate, wanted, helping>>
  BY Typed DEF IInv, Continue, Goto, locals
<1>2. LocalTo(t)
  BY <1>1 DEF LocalTo, Tables
<1>3. pc' \in [Thread -> Label] /\ pc'[t] = label
  BY <1>1 DEF Tables
<1> QED BY <1>1, <1>2, <1>3 DEF Tables, locals

(* What a step of an acknowledger does to its own state, and what it saw.  *)
AckLabel == {"ack publishers", "ack recovery", "ack mailboxes", "ack load", "ack complete",
  "ack reload", "ack read", "ack word", "ack commit"}
AckMoves(t) ==
  \/ pc'[t] = AfterAck(t) /\ gate'[t] = "entry" /\ seen'[t] = NoMotion
  \/ /\ pc[t] = "ack publishers" /\ publishers = 0 /\ pc'[t] = "ack recovery"
     /\ UNCHANGED locals
  \/ /\ pc[t] = "ack recovery" /\ ~recovering /\ pc'[t] = "ack mailboxes"
     /\ UNCHANGED locals
  \/ /\ pc[t] = "ack mailboxes" /\ posted = {} /\ UNCHANGED locals
     /\ pc'[t] = (IF gate[t] = "entry" THEN "ack load"
                  ELSE IF gate[t] = "action" THEN "ack complete" ELSE "ack commit")
  \/ /\ pc[t] = "ack load" /\ gate'[t] \in {gate[t], "action"} /\ seen'[t] = word
     /\ pc'[t] \in {"ack publishers", "ack read"} /\ expected' = expected
  \/ pc[t] = "ack complete" /\ pc'[t] = "ack reload" /\ UNCHANGED locals
  \/ /\ pc[t] = "ack reload" /\ pc'[t] = "ack read" /\ seen'[t] = word
     /\ gate' = gate /\ expected' = expected
  \/ /\ pc[t] = "ack read" /\ pc'[t] = "ack word" /\ expected'[t] = acked
     /\ UNCHANGED <<seen, gate>>
  \/ /\ pc[t] = "ack word" /\ word = seen[t] /\ pc'[t] = "ack publishers"
     /\ gate'[t] = "commit" /\ UNCHANGED <<seen, expected>>

LEMMA AckEffect ==
  ASSUME IInv, NEW t \in Taker \cup {Rt}, Acknowledge(t)
  PROVE  /\ LocalTo(t) /\ Tables' /\ AckMoves(t) /\ pc[t] \in AckLabel
         /\ UNCHANGED <<publishers, recovering, controlledStop, stopAuthority, requests,
                        wanted, helping>>
         /\ pc[t] # "ack complete" => word' = word
         /\ word' \in Word /\ word'.ticket = word.ticket /\ word'.owner = word.owner
         /\ word'.gen = word.gen /\ word'.reserved = word.reserved
         /\ acked' = acked \/
              (/\ pc[t] = "ack commit" /\ pc'[t] = AfterAck(t)
               /\ acked = expected[t] /\ acked' = seen[t].ticket)
<1>1. /\ t \in Thread /\ Tables /\ Numbers /\ word \in Word
      /\ pc[t] \in Label
  BY Members, Typed DEF IInv, TypeOK, Tables
<1>2. granted' = granted => (LeaveAck(t) =>
        /\ LocalTo(t) /\ Tables' /\ AckMoves(t) /\ UNCHANGED <<wanted, helping>>)
  BY <1>1, LeaveEffect DEF AckMoves
<1>3. ASSUME NEW label \in AckLabel, Continue(t, label), granted' = granted
      PROVE  LocalTo(t) /\ Tables' /\ UNCHANGED locals /\ pc'[t] = label
  BY <1>1, <1>3, ContinueEffect DEF AckLabel, Label
<1>4. CASE AckPublishers(t)
  <2>1. /\ UNCHANGED <<shared, requests>> /\ pc[t] = "ack publishers"
        /\ LeaveAck(t) \/ (publishers = 0 /\ Continue(t, "ack recovery"))
    BY <1>4 DEF AckPublishers, At
  <2>2. LocalTo(t) /\ Tables' /\ AckMoves(t) /\ UNCHANGED <<wanted, helping>>
    BY <1>2, <1>3, <2>1 DEF AckMoves, requests, AckLabel, locals
  <2> QED BY <1>1, <2>1, <2>2 DEF shared, AckLabel
<1>5. CASE AckRecovery(t)
  <2>1. /\ UNCHANGED <<shared, requests>> /\ pc[t] = "ack recovery"
        /\ LeaveAck(t) \/ (~recovering /\ Continue(t, "ack mailboxes"))
    BY <1>5 DEF AckRecovery, At
  <2>2. LocalTo(t) /\ Tables' /\ AckMoves(t) /\ UNCHANGED <<wanted, helping>>
    BY <1>2, <1>3, <2>1 DEF AckMoves, requests, AckLabel, locals
  <2> QED BY <1>1, <2>1, <2>2 DEF shared, AckLabel
<1>6. CASE AckMailboxes(t)
  <2> DEFINE next == IF gate[t] = "entry" THEN "ack load"
                     ELSE IF gate[t] = "action" THEN "ack complete" ELSE "ack commit"
  <2>0. gate[t] \in {"entry", "action", "commit"}
    BY <1>1 DEF Tables
  <2>1. /\ UNCHANGED <<shared, requests>> /\ pc[t] = "ack mailboxes"
        /\ LeaveAck(t) \/ (posted = {} /\ Continue(t, next))
    BY <1>6, <2>0 DEF AckMailboxes, At
  <2>2. LocalTo(t) /\ Tables' /\ AckMoves(t) /\ UNCHANGED <<wanted, helping>>
    <3>1. next \in AckLabel /\ granted' = granted
      BY <2>1 DEF AckLabel, requests
    <3> HIDE DEF next
    <3>2. CASE LeaveAck(t)
      BY <1>2, <3>1, <3>2
    <3>3. CASE posted = {} /\ Continue(t, next)
      <4>1. LocalTo(t) /\ Tables' /\ UNCHANGED locals /\ pc'[t] = next
        BY <1>3, <3>1, <3>3
      <4> QED BY <4>1, <3>3, <2>1 DEF AckMoves, next, locals
    <3> QED BY <2>1, <3>2, <3>3
  <2> QED BY <1>1, <2>1, <2>2 DEF shared, AckLabel
<1>7. CASE AckLoad(t)
  <2>1. /\ UNCHANGED <<shared, requests>> /\ pc[t] = "ack load"
        /\ \/ LeaveAck(t)
           \/ /\ seen' = [seen EXCEPT ![t] = word]
              /\ gate' = [gate EXCEPT ![t] = IF word.action THEN "action" ELSE @]
              /\ pc' = [pc EXCEPT ![t] = IF word.action THEN "ack publishers" ELSE "ack read"]
              /\ UNCHANGED <<ticket, lease, expected, wanted, helping>>
    BY <1>7 DEF AckLoad, At, Goto
  <2>2. LocalTo(t) /\ Tables' /\ AckMoves(t) /\ UNCHANGED <<wanted, helping>>
    <3>1. CASE LeaveAck(t)
      BY <1>2, <2>1, <3>1 DEF requests
    <3>2. CASE ~LeaveAck(t)
      <4>1. /\ seen' = [seen EXCEPT ![t] = word]
            /\ gate' = [gate EXCEPT ![t] = IF word.action THEN "action" ELSE @]
            /\ pc' = [pc EXCEPT ![t] = IF word.action THEN "ack publishers" ELSE "ack read"]
            /\ UNCHANGED <<ticket, lease, expected, wanted, helping, granted>>
        BY <2>1, <3>2 DEF requests
      <4>2. LocalTo(t)
        BY <1>1, <4>1 DEF LocalTo, Tables
      <4>3. pc' \in [Thread -> Label] /\ pc'[t] \in {"ack publishers", "ack read"}
        BY <1>1, <4>1 DEF Tables, Label
      <4>4. seen' \in [Thread -> Word] /\ seen'[t] = word
        BY <1>1, <4>1 DEF Tables
      <4>5. gate' \in [Thread -> {"entry", "action", "commit"}] /\ gate'[t] \in {gate[t], "action"}
        BY <1>1, <4>1 DEF Tables
      <4> QED BY <1>1, <2>1, <4>1, <4>2, <4>3, <4>4, <4>5 DEF Tables, AckMoves
    <3> QED BY <3>1, <3>2
  <2> QED BY <1>1, <2>1, <2>2 DEF shared, AckLabel
<1>8. CASE AckComplete(t)
  <2>1. /\ UNCHANGED <<acked, publishers, recovering, controlledStop, stopAuthority, requests>>
        /\ pc[t] = "ack complete" /\ CompleteAction(seen[t].ticket)
        /\ LeaveAck(t) \/ Continue(t, "ack reload")
    BY <1>8 DEF AckComplete, At
  <2>2. LocalTo(t) /\ Tables' /\ AckMoves(t) /\ UNCHANGED <<wanted, helping>>
    BY <1>2, <1>3, <2>1 DEF AckMoves, requests, AckLabel, locals
  <2>3. /\ word' \in Word /\ word'.ticket = word.ticket /\ word'.owner = word.owner
        /\ word'.gen = word.gen /\ word'.reserved = word.reserved
    BY <1>1, <2>1 DEF CompleteAction, Word
  <2> QED BY <1>1, <2>1, <2>2, <2>3 DEF AckLabel
<1>9. CASE AckReload(t)
  <2>1. /\ UNCHANGED <<shared, requests>> /\ pc[t] = "ack reload"
        /\ \/ LeaveAck(t)
           \/ /\ seen' = [seen EXCEPT ![t] = word]
              /\ pc' = [pc EXCEPT ![t] = "ack read"]
              /\ UNCHANGED <<ticket, lease, expected, gate, wanted, helping>>
    BY <1>9 DEF AckReload, At, Goto
  <2>2. LocalTo(t) /\ Tables' /\ AckMoves(t) /\ UNCHANGED <<wanted, helping>>
    <3>1. CASE LeaveAck(t)
      BY <1>2, <2>1, <3>1 DEF requests
    <3>2. CASE ~LeaveAck(t)
      <4>1. /\ seen' = [seen EXCEPT ![t] = word] /\ pc' = [pc EXCEPT ![t] = "ack read"]
            /\ UNCHANGED <<ticket, lease, expected, gate, wanted, helping, granted>>
        BY <2>1, <3>2 DEF requests
      <4>2. LocalTo(t)
        BY <1>1, <4>1 DEF LocalTo, Tables
      <4>3. pc' \in [Thread -> Label] /\ pc'[t] = "ack read"
        BY <1>1, <4>1 DEF Tables, Label
      <4>4. seen' \in [Thread -> Word] /\ seen'[t] = word
        BY <1>1, <4>1 DEF Tables
      <4> QED BY <1>1, <2>1, <4>1, <4>2, <4>3, <4>4 DEF Tables, AckMoves
    <3> QED BY <3>1, <3>2
  <2> QED BY <1>1, <2>1, <2>2 DEF shared, AckLabel
<1>10. CASE AckRead(t)
  <2>1. /\ UNCHANGED <<shared, requests>> /\ pc[t] = "ack read"
        /\ \/ LeaveAck(t)
           \/ /\ expected' = [expected EXCEPT ![t] = acked]
              /\ pc' = [pc EXCEPT ![t] = "ack word"]
              /\ UNCHANGED <<seen, ticket, lease, gate, wanted, helping>>
    BY <1>10 DEF AckRead, At, Goto
  <2>2. LocalTo(t) /\ Tables' /\ AckMoves(t) /\ UNCHANGED <<wanted, helping>>
    <3>1. CASE LeaveAck(t)
      BY <1>2, <2>1, <3>1 DEF requests
    <3>2. CASE ~LeaveAck(t)
      <4>1. /\ expected' = [expected EXCEPT ![t] = acked] /\ pc' = [pc EXCEPT ![t] = "ack word"]
            /\ UNCHANGED <<seen, ticket, lease, gate, wanted, helping, granted>>
        BY <2>1, <3>2 DEF requests
      <4>2. LocalTo(t)
        BY <1>1, <4>1 DEF LocalTo, Tables
      <4>3. pc' \in [Thread -> Label] /\ pc'[t] = "ack word"
        BY <1>1, <4>1 DEF Tables, Label
      <4>4. expected' \in [Thread -> Nat] /\ expected'[t] = acked
        BY <1>1, <4>1 DEF Tables, Numbers
      <4> QED BY <1>1, <2>1, <4>1, <4>2, <4>3, <4>4 DEF Tables, AckMoves
    <3> QED BY <3>1, <3>2
  <2> QED BY <1>1, <2>1, <2>2 DEF shared, AckLabel
<1>11. CASE AckWord(t)
  <2>1. /\ UNCHANGED <<shared, requests>> /\ pc[t] = "ack word"
        /\ \/ LeaveAck(t)
           \/ /\ word = seen[t] /\ gate' = [gate EXCEPT ![t] = "commit"]
              /\ pc' = [pc EXCEPT ![t] = "ack publishers"]
              /\ UNCHANGED <<seen, ticket, lease, expected, wanted, helping>>
    BY <1>11 DEF AckWord, At, Goto
  <2>2. LocalTo(t) /\ Tables' /\ AckMoves(t) /\ UNCHANGED <<wanted, helping>>
    <3>1. CASE LeaveAck(t)
      BY <1>2, <2>1, <3>1 DEF requests
    <3>2. CASE ~LeaveAck(t)
      <4>1. /\ word = seen[t] /\ gate' = [gate EXCEPT ![t] = "commit"]
            /\ pc' = [pc EXCEPT ![t] = "ack publishers"]
            /\ UNCHANGED <<seen, ticket, lease, expected, wanted, helping, granted>>
        BY <2>1, <3>2 DEF requests
      <4>2. LocalTo(t)
        BY <1>1, <4>1 DEF LocalTo, Tables
      <4>3. pc' \in [Thread -> Label] /\ pc'[t] = "ack publishers"
        BY <1>1, <4>1 DEF Tables, Label
      <4>4. gate' \in [Thread -> {"entry", "action", "commit"}] /\ gate'[t] = "commit"
        BY <1>1, <4>1 DEF Tables
      <4> QED BY <1>1, <2>1, <4>1, <4>2, <4>3, <4>4 DEF Tables, AckMoves
    <3> QED BY <3>1, <3>2
  <2> QED BY <1>1, <2>1, <2>2 DEF shared, AckLabel
<1>12. CASE AckCommit(t)
  <2>1. /\ UNCHANGED <<word, publishers, recovering, controlledStop, stopAuthority, requests>>
        /\ pc[t] = "ack commit" /\ LeaveAck(t)
        /\ acked' = IF acked = expected[t] THEN seen[t].ticket ELSE acked
    BY <1>12 DEF AckCommit, At
  <2>2. LocalTo(t) /\ Tables' /\ AckMoves(t) /\ UNCHANGED <<wanted, helping>>
    BY <1>2, <2>1 DEF requests
  <2>3. pc'[t] = AfterAck(t)
    BY <1>1, <2>1, LeaveEffect DEF requests
  <2> QED BY <1>1, <2>1, <2>2, <2>3 DEF AckLabel
<1> QED BY <1>4, <1>5, <1>6, <1>7, <1>8, <1>9, <1>10, <1>11, <1>12 DEF Acknowledge

(* What the acknowledger knows stays true, and grows, as it moves on.      *)
LEMMA AckKnows ==
  ASSUME IInv, NEW t \in Taker \cup {Rt}, Acknowledge(t)
  PROVE  /\ acked <= acked' /\ acked' <= word.ticket /\ seen'[t].ticket <= word.ticket
         /\ ThreadKnows(t)' /\ CommitPassesNobody(t)'
<1> USE DEF AckLabel, Gates
<1>1. /\ AckMoves(t) /\ pc[t] \in AckLabel /\ posted' = posted /\ granted' = granted
      /\ acked' = acked \/
           (pc[t] = "ack commit" /\ acked = expected[t] /\ acked' = seen[t].ticket)
      /\ LocalTo(t) /\ Tables'
  BY AckEffect DEF requests
<1>2. /\ t \in Thread /\ Tables /\ Numbers /\ t \notin Requester
      /\ Requester \subseteq Thread /\ ThreadKnows(t) /\ CommitPassesNobody(t)
      /\ acked <= word.ticket /\ seen[t].ticket <= word.ticket
  BY Members, Typed DEF IInv, TicketsGiven
<1>3. /\ acked \in Nat /\ expected[t] \in Nat /\ seen[t].ticket \in Nat /\ word.ticket \in Nat
      /\ acked <= acked /\ word.ticket <= word.ticket /\ 0 <= word.ticket
  BY <1>2 DEF Numbers
<1>4. pc[t] = "ack commit" => gate[t] = "commit" /\ expected[t] <= seen[t].ticket
  BY <1>2 DEF ThreadKnows
<1>5. acked <= acked' /\ acked' <= word.ticket
  BY <1>1, <1>2, <1>3, <1>4
<1>6. AfterAck(t) \in {"done", "settle", "help"}
  BY DEF AfterAck
<1>7. seen'[t] \in {seen[t], NoMotion, word}
  BY <1>1 DEF AckMoves, locals
<1>8. seen'[t].ticket <= word.ticket
  BY <1>2, <1>3, <1>7, NoMotionIsWord
<1>9. ThreadKnows(t)'
  <2>1. CASE pc'[t] = AfterAck(t) /\ gate'[t] = "entry"
    BY <2>1, <1>6 DEF ThreadKnows
  <2>2. CASE UNCHANGED locals /\ pc[t] \in Gates /\ pc'[t] \in AckLabel \ {"ack word"}
             /\ (pc'[t] = "ack commit" => gate[t] = "commit")
             /\ (gate[t] = "commit" => pc'[t] \in Gates \cup {"ack commit"})
    BY <2>2, <1>2 DEF ThreadKnows, locals
  <2>3. CASE pc[t] \in {"ack load", "ack complete", "ack reload"} /\ gate'[t] \in {gate[t], "action"}
             /\ pc'[t] \in {"ack publishers", "ack reload", "ack read"}
    BY <2>3, <1>2 DEF ThreadKnows
  <2>4. CASE pc[t] = "ack read" /\ pc'[t] = "ack word" /\ expected'[t] = acked /\ gate' = gate
    BY <2>4, <1>2, <1>5, <1>1 DEF ThreadKnows
  <2>5. CASE /\ pc[t] = "ack word" /\ word = seen[t] /\ pc'[t] = "ack publishers"
             /\ gate'[t] = "commit" /\ UNCHANGED <<seen, expected>>
    <3>1. expected[t] <= acked /\ seen[t].ticket = word.ticket
      BY <2>5, <1>2 DEF ThreadKnows
    <3>2. expected[t] <= seen[t].ticket
      BY <3>1, <1>2, <1>3
    <3> QED BY <3>2, <2>5 DEF ThreadKnows
  <2>6. gate[t] \in {"entry", "action", "commit"}
    BY <1>2 DEF Tables
  <2>7. CASE pc[t] = "ack mailboxes" /\ UNCHANGED locals
             /\ pc'[t] = (IF gate[t] = "entry" THEN "ack load"
                          ELSE IF gate[t] = "action" THEN "ack complete" ELSE "ack commit")
    BY <2>2, <2>6, <2>7
  <2> QED BY <1>1, <2>1, <2>2, <2>3, <2>4, <2>5, <2>7 DEF AckMoves, locals
<1>10. \A r \in Requester : pc'[r] = pc[r]
  BY <1>1, <1>2 DEF LocalTo
<1>11. CommitPassesNobody(t)'
  <2>1. CASE pc[t] = "ack publishers" /\ publishers = 0 /\ pc'[t] = "ack recovery"
    <3>1. Calling = {}
      BY <2>1, FS_EmptySet DEF IInv, Counted
    <3>2. \A r \in Requester : pc[r] # "post"
      BY <3>1 DEF Calling, InCall
    <3> QED BY <2>1, <3>2, <1>10 DEF CommitPassesNobody
  <2>2. CASE pc[t] = "ack recovery" /\ pc'[t] = "ack mailboxes" /\ UNCHANGED locals
    <3>1. gate' = gate /\ \A r \in Requester : Newer(r, t)' = Newer(r, t)
      BY <2>2, <1>1 DEF locals, Newer
    <3> QED BY <3>1, <2>2, <1>2, <1>10 DEF CommitPassesNobody
  <2>3. CASE /\ pc[t] = "ack mailboxes" /\ posted = {} /\ UNCHANGED locals
    <3>1. gate' = gate /\ \A r \in Requester : Newer(r, t)' = Newer(r, t)
      BY <2>3, <1>1 DEF locals, Newer
    <3> QED BY <3>1, <2>3, <1>1, <1>2, <1>10 DEF CommitPassesNobody
  <2>4. CASE gate'[t] # "commit" /\ pc'[t] # "ack commit"
    BY <2>4 DEF CommitPassesNobody
  <2>5. CASE pc'[t] = "ack publishers"
    BY <2>5 DEF CommitPassesNobody
  <2>6. pc'[t] \notin {"ack publishers", "ack recovery", "ack mailboxes", "ack commit"}
          => gate'[t] # "commit"
    BY <1>9 DEF ThreadKnows
  <2>7. pc'[t] \in {"ack recovery", "ack mailboxes", "ack commit"} =>
          \/ pc[t] = "ack publishers" /\ publishers = 0 /\ pc'[t] = "ack recovery"
          \/ pc[t] = "ack recovery" /\ pc'[t] = "ack mailboxes" /\ UNCHANGED locals
          \/ pc[t] = "ack mailboxes" /\ posted = {} /\ UNCHANGED locals
    BY <1>1, <1>6 DEF AckMoves
  <2> QED BY <2>1, <2>2, <2>3, <2>4, <2>5, <2>6, <2>7
<1> QED BY <1>5, <1>8, <1>9, <1>11

LEMMA AckIInv ==
  ASSUME IInv, NEW t \in Taker \cup {Rt}, Acknowledge(t)
  PROVE  IInv'
<1> USE DEF AckLabel
<1>1. /\ LocalTo(t) /\ Tables' /\ AckMoves(t) /\ pc[t] \in AckLabel
      /\ UNCHANGED <<publishers, recovering, controlledStop, stopAuthority, posted, consumed,
                     kind, granted, wanted, helping>>
      /\ word' \in Word /\ word'.ticket = word.ticket /\ word'.owner = word.owner
      /\ word'.gen = word.gen /\ word'.reserved = word.reserved
      /\ acked' = acked \/
           (/\ pc[t] = "ack commit" /\ pc'[t] = AfterAck(t)
            /\ acked = expected[t] /\ acked' = seen[t].ticket)
  BY AckEffect DEF requests
<1>2. /\ t \in Thread /\ t \notin Client /\ t \notin Requester /\ Tables /\ Numbers
      /\ Requester \subseteq Thread /\ Client \subseteq Thread /\ Rt \in Thread
  BY Members, Typed DEF IInv
<1>3. /\ acked <= acked' /\ acked' <= word'.ticket /\ seen'[t].ticket <= word'.ticket
      /\ ThreadKnows(t)' /\ CommitPassesNobody(t)' /\ word.ticket <= word'.ticket
  <2>1. word.ticket \in Nat /\ word'.ticket = word.ticket
    BY <1>1, <1>2 DEF Numbers
  <2>2. word.ticket <= word'.ticket
    BY <2>1
  <2> QED BY AckKnows, <2>1, <2>2
<1>4. acked' \in Nat
  BY <1>1, <1>2 DEF Numbers
<1>5. TypeOK'
  BY <1>1, <1>4 DEF IInv, TypeOK, Tables
<1>6. AfterAck(t) \in {"done", "settle", "help"}
  BY DEF AfterAck
<1>7. pc'[t] \in AckLabel \cup {"done", "settle", "help"}
  BY <1>1, <1>6 DEF AckMoves
<1>8. \A s \in Thread : s # t => pc'[s] = pc[s] /\ seen'[s] = seen[s]
  BY <1>1 DEF LocalTo
<1>9. Counted'
  <2>1. Calling' = Calling
    BY <1>1, <1>2, <1>7, <1>8, Members DEF Calling, InCall
  <2> QED BY <2>1, <1>1 DEF IInv, Counted
<1>10. TicketsGiven'
  BY <1>1, <1>3, <1>8 DEF IInv, TicketsGiven
<1>11. /\ \A s \in Thread \ {t} : ThreadKnows(s)'
       /\ \A c \in Client : ClientKnows(c)' /\ (Outdated(c) => Outdated(c)')
  <2>1. \A c \in Client : c \in Client \ {t}
    BY <1>2
  <2> QED BY <1>1, <1>2, <1>3, <1>5, <2>1, OthersKnow
<1>12. \A r \in Requester : pc'[r] = pc[r]
  BY <1>2, <1>8
<1>13. \A s \in Thread \ {t} : CommitPassesNobody(s)'
  BY <1>1, <1>2, <1>12, OthersPassNobody
<1>14. /\ ThreadKnows(t) /\ CommitPassesNobody(t) /\ TicketsGiven
       /\ AcknowledgedRequestConsumed /\ LoadedUnderFlag /\ ReleasesOutdated
  BY <1>2 DEF IInv
<1>15. AcknowledgedRequestConsumed'
  <2>1. CASE acked' = acked
    BY <2>1, <1>1, <1>12, <1>14 DEF AcknowledgedRequestConsumed
  <2>2. CASE pc[t] = "ack commit" /\ acked' = seen[t].ticket
    <3>1. \A r \in Requester : pc[r] = "post" \/ r \in posted => Newer(r, t)
      BY <2>2, <1>14 DEF ThreadKnows, CommitPassesNobody
    <3>2. ASSUME NEW r \in Requester, granted[r] \in 1 .. acked' PROVE ~Newer(r, t)
      <4>1. granted[r] \in Nat /\ seen[t].ticket \in Nat /\ acked' = seen[t].ticket
        BY <2>2, <1>2 DEF Numbers
      <4>2. granted[r] # 0 /\ ~(seen[t].ticket < granted[r])
        BY <3>2, <4>1
      <4> QED BY <4>2 DEF Newer
    <3> QED BY <3>1, <3>2, <1>1, <1>12 DEF AcknowledgedRequestConsumed
  <2> QED BY <1>1, <2>1, <2>2
<1>16. \A c \in Client : pc'[c] = pc[c] /\ seen'[c] = seen[c]
  BY <1>2, <1>8
<1>17. CASE t # Rt
  <2>1. FlagUp' /\ AuthorityHeld' /\ ConsumedApplied' /\ FrameAcknowledged'
    BY <1>1, <1>2, <1>3, <1>5, <1>17, RtUndisturbed
  <2>2. /\ pc'[Rt] = pc[Rt] /\ seen'[Rt] = seen[Rt]
        /\ lease'[Rt] = lease[Rt] /\ ticket'[Rt] = ticket[Rt]
    BY <1>1, <1>2, <1>17 DEF LocalTo
  <2>5. ReservedAlone'
    BY <1>1, <1>16, <2>2, ReservationKept
  <2>3. LoadedUnderFlag'
    <3>1. SUFFICES ASSUME pc[Rt] = "ticket" PROVE LoadedUnderFlag'
      BY <2>2 DEF LoadedUnderFlag
    <3>2. recovering
      BY <3>1 DEF IInv, FlagUp
    <3>3. acked' <= seen[Rt].ticket
      BY <1>1, <1>2, <1>14, <3>1 DEF LoadedUnderFlag, ThreadKnows
    <3>4. gate'[t] = "commit" /\ pc'[t] \in {"ack mailboxes", "ack commit"} =>
            gate[t] = "commit" /\ pc[t] = "ack mailboxes" /\ seen'[t] = seen[t]
      BY <1>1, <1>6, <3>2 DEF AckMoves, locals
    <3>5. ASSUME NEW s \in Thread, gate'[s] = "commit", pc'[s] \in {"ack mailboxes", "ack commit"}
          PROVE  seen'[s].ticket <= seen[Rt].ticket
      <4>1. gate[s] = "commit" /\ pc[s] \in {"ack mailboxes", "ack commit"} /\ seen'[s] = seen[s]
        BY <1>1, <3>4, <3>5 DEF LocalTo
      <4> QED BY <4>1, <1>14, <3>1 DEF LoadedUnderFlag
    <3> QED BY <2>2, <3>3, <3>5 DEF LoadedUnderFlag
  <2>4. ReleasesOutdated'
    BY <1>1, <1>11, <1>14, <1>16, <2>2 DEF ReleasesOutdated, Recovering
  <2> QED BY <1>3, <1>5, <1>9, <1>10, <1>11, <1>13, <1>15, <2>1, <2>3, <2>4, <2>5 DEF IInv
<1>18. CASE t = Rt
  <2>1. pc[Rt] \in AckLabel /\ pc'[Rt] \in AckLabel \cup {"done", "settle", "help"}
    BY <1>1, <1>7, <1>18
  <2>2. ~Recovering' /\ pc[Rt] # "send" /\ pc'[Rt] # "send"
    BY <2>1 DEF Recovering, Authorized, Claiming, Taking
  <2>5. ReservedAlone'
    BY <2>2, <1>1, <1>16, ReservationKept
  <2>3. /\ FlagUp' /\ LoadedUnderFlag' /\ AuthorityHeld' /\ ConsumedApplied'
        /\ FrameAcknowledged'
    BY <2>1, <2>2, <1>1 DEF IInv, FlagUp, LoadedUnderFlag, AuthorityHeld,
       ConsumedApplied, FrameAcknowledged, Authorized, Claiming
  <2>4. ReleasesOutdated'
    BY <2>2, <1>1, <1>11, <1>14, <1>16 DEF ReleasesOutdated
  <2> QED BY <1>3, <1>5, <1>9, <1>10, <1>11, <1>13, <1>15, <2>3, <2>4, <2>5 DEF IInv
<1> QED BY <1>17, <1>18

-----------------------------------------------------------------------------
(* The steps of a client: it moves on when what it checks holds.           *)
ClientLabel == {"idle", "compare", "let go"} \cup Comparing
ClientMoves(c) ==
  \/ pc'[c] = "idle" /\ seen'[c] = NoMotion
  \/ pc'[c] = "compare" /\ seen'[c] = word /\ ~word.reserved
  \/ /\ pc'[c] = "hold" /\ seen'[c] = word /\ ~word.reserved
     /\ word.ticket = acked /\ word.owner = "SAFETY"
  \/ /\ pc[c] = "hold" /\ pc'[c] = "publishers"
     /\ word = seen[c] /\ seen'[c] = [word EXCEPT !.reserved = TRUE]
  \/ /\ pc[c] = "compare" /\ seen[c].ticket = acked /\ UNCHANGED seen
     /\ pc'[c] = (IF seen[c].owner = "SAFETY" THEN "publishers" ELSE "swap")
  \/ pc[c] = "publishers" /\ pc'[c] = "unacknowledged" /\ UNCHANGED seen
  \/ pc[c] = "unacknowledged" /\ pc'[c] = "recovering" /\ UNCHANGED seen
  \/ pc[c] = "recovering" /\ ~recovering /\ pc'[c] = "mailboxes" /\ UNCHANGED seen
  \/ pc[c] = "mailboxes" /\ pc'[c] = "stopping" /\ UNCHANGED seen
  \/ pc[c] = "stopping" /\ ~controlledStop /\ pc'[c] = "swap" /\ UNCHANGED seen
  \/ pc'[c] = "let go" /\ seen[c].reserved /\ UNCHANGED seen

(* What it does to the reservation: nothing, or it takes one, or it gives  *)
(* its own back.                                                           *)
ClientReserves(c) ==
  /\ pc[c] = "hold" /\ word = seen[c] /\ ~word.reserved
  /\ word' = [word EXCEPT !.reserved = TRUE] /\ seen'[c] = word'
ReservationMoves(c) ==
  \/ word'.reserved = word.reserved /\ seen'[c].reserved = seen[c].reserved
  \/ ClientReserves(c)
  \/ seen[c].reserved /\ ~seen'[c].reserved /\ ~word'.reserved

LEMMA ReturnEffect ==
  ASSUME IInv, NEW c \in Client, ClientReturn(c), granted' = granted
  PROVE  /\ LocalTo(c) /\ Tables' /\ ClientMoves(c) /\ seen'[c] = NoMotion
         /\ UNCHANGED <<ticket, lease, expected, gate, helping>>
<1>1. Tables /\ c \in Thread /\ NoMotion \in Word
  BY Typed, Members, NoMotionIsWord DEF IInv
<1>2. /\ pc' = [pc EXCEPT ![c] = "idle"] /\ seen' = [seen EXCEPT ![c] = NoMotion]
      /\ wanted' = [wanted EXCEPT ![c] = "NONE"]
      /\ UNCHANGED <<ticket, lease, expected, gate, helping>>
  BY DEF ClientReturn, Goto
<1>3. LocalTo(c)
  BY <1>1, <1>2 DEF LocalTo, Tables
<1>4. pc' \in [Thread -> Label] /\ pc'[c] = "idle"
  BY <1>1, <1>2 DEF Tables, Label
<1>5. seen' \in [Thread -> Word] /\ seen'[c] = NoMotion
  BY <1>1, <1>2 DEF Tables
<1>6. wanted' \in [Thread -> OrdinaryOwner \cup {"NONE"}]
  BY <1>1, <1>2 DEF Tables
<1> QED BY <1>1, <1>2, <1>3, <1>4, <1>5, <1>6 DEF Tables, ClientMoves

(* A refused client returns, or gives its reservation back first. *)
LEMMA RefusedEffect ==
  ASSUME IInv, NEW c \in Client, ClientRefused(c), granted' = granted
  PROVE  /\ LocalTo(c) /\ Tables' /\ ClientMoves(c)
         /\ UNCHANGED <<ticket, lease, expected, gate, helping>>
         /\ seen'[c].reserved = seen[c].reserved /\ seen'[c] \in {seen[c], NoMotion}
<1>1. CASE seen[c].reserved
  <2>1. Continue(c, "let go") /\ "let go" \in Label /\ c \in Thread
    BY <1>1, Members DEF ClientRefused, Label
  <2>2. LocalTo(c) /\ Tables' /\ UNCHANGED locals /\ pc'[c] = "let go"
    BY <2>1, ContinueEffect
  <2> QED BY <1>1, <2>2 DEF locals, ClientMoves
<1>2. CASE ~seen[c].reserved
  <2>1. seen[c].reserved = FALSE /\ NoMotion.reserved = FALSE
    <3>1. seen[c].reserved \in BOOLEAN
      BY Typed, Members, FieldTypes DEF IInv, Tables
    <3> QED BY <1>2, <3>1 DEF NoMotion
  <2>2. ClientReturn(c)
    BY <1>2 DEF ClientRefused
  <2>3. /\ LocalTo(c) /\ Tables' /\ ClientMoves(c) /\ seen'[c] = NoMotion
        /\ UNCHANGED <<ticket, lease, expected, gate, helping>>
    BY <2>2, ReturnEffect
  <2> QED BY <2>1, <2>3
<1> QED BY <1>1, <1>2

(* A client loads the word, to compare it or to reserve it. *)
LEMMA LoadEffect ==
  ASSUME IInv, NEW c \in Client, NEW label \in {"compare", "hold"},
         NEW owner \in OrdinaryOwner \cup {"NONE"}, Unfenced(word),
         label = "hold" => word.ticket = acked /\ word.owner = "SAFETY",
         At(c, "idle"), Goto(c, label), seen' = [seen EXCEPT ![c] = word],
         wanted' = wanted \/ wanted' = [wanted EXCEPT ![c] = owner],
         UNCHANGED <<granted, ticket, lease, expected, gate, helping>>
  PROVE  /\ LocalTo(c) /\ Tables' /\ ClientMoves(c) /\ seen'[c] = word /\ pc[c] = "idle"
         /\ seen'[c].reserved = seen[c].reserved
<1>1. Tables /\ c \in Thread /\ word \in Word
  BY Typed, Members DEF IInv, TypeOK
<1>2. pc' = [pc EXCEPT ![c] = label] /\ pc[c] = "idle"
  BY DEF Goto, At
<1>3. LocalTo(c)
  BY <1>1, <1>2 DEF LocalTo, Tables
<1>4. pc' \in [Thread -> Label] /\ pc'[c] = label
  BY <1>1, <1>2 DEF Tables, Label
<1>5. seen' \in [Thread -> Word] /\ seen'[c] = word
  BY <1>1 DEF Tables
<1>6. wanted' \in [Thread -> OrdinaryOwner \cup {"NONE"}]
  BY <1>1 DEF Tables
<1>7. ~word.reserved
  BY DEF Unfenced
<1>8. ClientMoves(c)
  BY <1>4, <1>5, <1>7 DEF ClientMoves
<1>9. seen'[c].reserved = seen[c].reserved
  <2>1. word.reserved \in BOOLEAN /\ seen[c].reserved \in BOOLEAN
    BY <1>1, FieldTypes DEF Tables
  <2>2. ~seen[c].reserved
    BY <1>2 DEF IInv, ClientKnows
  <2> QED BY <1>5, <1>7, <2>1, <2>2
<1> QED BY <1>1, <1>2, <1>3, <1>4, <1>5, <1>6, <1>8, <1>9 DEF Tables

LEMMA ClientEffect ==
  ASSUME IInv, NEW c \in Client, ClientStep(c)
  PROVE  /\ LocalTo(c) /\ Tables' /\ ClientMoves(c) /\ pc[c] \in ClientLabel
         /\ UNCHANGED <<acked, publishers, recovering, controlledStop, stopAuthority, requests,
                        ticket, lease, expected, gate, helping>>
         /\ seen'[c] \in {seen[c], word, word', NoMotion} /\ ReservationMoves(c)
         /\ word' \in Word /\ word'.ticket = word.ticket
         /\ \/ word'.owner = word.owner /\ word'.gen = word.gen
            \/ pc[c] = "swap" /\ word = seen[c]
<1> USE DEF ClientLabel, Comparing
<1>1. /\ Tables /\ c \in Thread /\ word \in Word /\ seen[c].reserved \in BOOLEAN
      /\ word.reserved \in BOOLEAN /\ ClientKnows(c)
  BY Typed, Members, FieldTypes DEF IInv, TypeOK, Tables
<1>2. ASSUME NEW label \in ClientLabel, Continue(c, label), UNCHANGED <<shared, requests>>
      PROVE  LocalTo(c) /\ Tables' /\ UNCHANGED locals /\ pc'[c] = label
  <2>1. label \in Label /\ granted' = granted
    BY <1>2 DEF Label, requests
  <2> QED BY <1>1, <1>2, <2>1, ContinueEffect
<1>3. CASE \/ \E owner \in OrdinaryOwner :
                TryAcquireMotionOwner(c, owner) \/ TryTransferMotionOwner(c, owner)
           \/ ReleaseMotionOwner(c)
  <2>1. PICK owner \in OrdinaryOwner \cup {"NONE"} : ClientLoad(c, owner)
    BY <1>3 DEF TryAcquireMotionOwner, TryTransferMotionOwner, ReleaseMotionOwner
  <2>2. /\ Unfenced(word) /\ At(c, "idle") /\ Goto(c, "compare")
        /\ seen' = [seen EXCEPT ![c] = word] /\ wanted' = [wanted EXCEPT ![c] = owner]
        /\ UNCHANGED <<shared, requests>> /\ UNCHANGED <<ticket, lease, expected, gate, helping>>
    BY <2>1 DEF ClientLoad
  <2>3. granted' = granted
    BY <2>2 DEF requests
  <2>4. /\ LocalTo(c) /\ Tables' /\ ClientMoves(c) /\ seen'[c] = word /\ pc[c] = "idle"
        /\ seen'[c].reserved = seen[c].reserved
    BY <2>2, <2>3, LoadEffect
  <2> QED BY <1>1, <2>2, <2>4 DEF shared, ReservationMoves
<1>4. CASE TryReleaseSafetyMotionOwner(c)
  <2>1. /\ Unfenced(word) /\ At(c, "idle") /\ Goto(c, "hold")
        /\ word.ticket = acked /\ word.owner = "SAFETY"
        /\ seen' = [seen EXCEPT ![c] = word]
        /\ UNCHANGED <<shared, requests>>
        /\ UNCHANGED <<ticket, lease, expected, gate, wanted, helping>>
    BY <1>4 DEF TryReleaseSafetyMotionOwner
  <2>2. granted' = granted
    BY <2>1 DEF requests
  <2>3. /\ LocalTo(c) /\ Tables' /\ ClientMoves(c) /\ seen'[c] = word /\ pc[c] = "idle"
        /\ seen'[c].reserved = seen[c].reserved
    BY <2>1, <2>2, LoadEffect
  <2> QED BY <1>1, <2>1, <2>3 DEF shared, ReservationMoves
<1>5. CASE ClientCompare(c)
  <2>1. /\ UNCHANGED <<shared, requests>> /\ pc[c] = "compare"
        /\ \/ ClientReturn(c)
           \/ /\ seen[c].ticket = acked
              /\ Continue(c, IF seen[c].owner = "SAFETY" THEN "publishers" ELSE "swap")
    BY <1>5 DEF ClientCompare, At
  <2>2. CASE ClientReturn(c)
    <3>1. /\ LocalTo(c) /\ Tables' /\ ClientMoves(c) /\ seen'[c] = NoMotion
          /\ UNCHANGED <<ticket, lease, expected, gate, helping>>
      BY <2>1, <2>2, ReturnEffect DEF requests
    <3>2. seen'[c].reserved = seen[c].reserved
      BY <1>1, <2>1, <3>1, NoMotionIsWord DEF ClientKnows
    <3> QED BY <1>1, <2>1, <3>1, <3>2 DEF shared, ReservationMoves
  <2>3. CASE ~ClientReturn(c)
    <3> DEFINE next == IF seen[c].owner = "SAFETY" THEN "publishers" ELSE "swap"
    <3>1. LocalTo(c) /\ Tables' /\ UNCHANGED locals /\ pc'[c] = next
      BY <1>2, <2>1, <2>3
    <3> QED BY <1>1, <2>1, <2>3, <3>1 DEF shared, locals, ClientMoves, ReservationMoves
  <2> QED BY <2>2, <2>3
<1>6. CASE ReleaseHold(c)
  <2>1. /\ UNCHANGED <<acked, publishers, recovering, controlledStop, stopAuthority, requests>>
        /\ pc[c] = "hold" /\ ~seen[c].reserved
    BY <1>1, <1>6 DEF ReleaseHold, At, ClientKnows
  <2>2. CASE word = seen[c]
    <3>1. /\ word' = [word EXCEPT !.reserved = TRUE] /\ seen' = [seen EXCEPT ![c] = word']
          /\ pc' = [pc EXCEPT ![c] = "publishers"]
          /\ UNCHANGED <<ticket, lease, expected, gate, wanted, helping>>
      BY <1>6, <2>2 DEF ReleaseHold, Goto
    <3>2. /\ word' \in Word /\ word'.ticket = word.ticket
          /\ word'.owner = word.owner /\ word'.gen = word.gen
      BY <1>1, <3>1 DEF Word
    <3>3. LocalTo(c)
      BY <1>1, <3>1 DEF LocalTo, Tables
    <3>4. pc' \in [Thread -> Label] /\ pc'[c] = "publishers"
      BY <1>1, <3>1 DEF Tables, Label
    <3>5. seen' \in [Thread -> Word] /\ seen'[c] = word'
      BY <1>1, <3>1, <3>2 DEF Tables
    <3>6. Tables'
      BY <1>1, <2>1, <3>1, <3>4, <3>5 DEF Tables, requests
    <3>7. ClientMoves(c) /\ ReservationMoves(c)
      BY <2>1, <2>2, <3>1, <3>4, <3>5 DEF ClientMoves, ReservationMoves, ClientReserves
    <3> QED BY <2>1, <3>1, <3>2, <3>3, <3>5, <3>6, <3>7
  <2>3. CASE word # seen[c]
    <3>1. ClientReturn(c) /\ word' = word
      BY <1>6, <2>3 DEF ReleaseHold
    <3>2. /\ LocalTo(c) /\ Tables' /\ ClientMoves(c) /\ seen'[c] = NoMotion
          /\ UNCHANGED <<ticket, lease, expected, gate, helping>>
      BY <2>1, <3>1, ReturnEffect DEF requests
    <3>3. seen'[c].reserved = seen[c].reserved
      BY <1>1, <2>1, <3>2, NoMotionIsWord
    <3> QED BY <1>1, <2>1, <3>1, <3>2, <3>3 DEF ReservationMoves
  <2> QED BY <2>2, <2>3
<1>7. CASE ReleaseCheck(c)
  <2>1. /\ UNCHANGED <<shared, requests>>
        /\ pc[c] \in {"publishers", "unacknowledged", "recovering", "mailboxes", "stopping"}
        /\ \/ ClientRefused(c)
           \/ pc[c] = "publishers" /\ Continue(c, "unacknowledged")
           \/ pc[c] = "unacknowledged" /\ Continue(c, "recovering")
           \/ pc[c] = "recovering" /\ ~recovering /\ Continue(c, "mailboxes")
           \/ pc[c] = "mailboxes" /\ Continue(c, "stopping")
           \/ pc[c] = "stopping" /\ ~controlledStop /\ Continue(c, "swap")
    BY <1>7 DEF ReleaseCheck, Check, At
  <2>2. CASE ClientRefused(c)
    <3>1. /\ LocalTo(c) /\ Tables' /\ ClientMoves(c)
          /\ UNCHANGED <<ticket, lease, expected, gate, helping>>
          /\ seen'[c].reserved = seen[c].reserved /\ seen'[c] \in {seen[c], NoMotion}
      BY <2>1, <2>2, RefusedEffect DEF requests
    <3> QED BY <1>1, <2>1, <3>1 DEF shared, ReservationMoves
  <2>3. CASE ~ClientRefused(c)
    <3>1. LocalTo(c) /\ Tables' /\ UNCHANGED locals
      BY <1>2, <2>1, <2>3
    <3>2. ClientMoves(c)
      BY <1>2, <2>1, <2>3 DEF ClientMoves, locals
    <3> QED BY <1>1, <2>1, <2>3, <3>1, <3>2 DEF shared, locals, ReservationMoves
  <2> QED BY <2>2, <2>3
<1>8. CASE ReleaseLetGo(c)
  <2>1. /\ UNCHANGED <<acked, publishers, recovering, controlledStop, stopAuthority, requests>>
        /\ pc[c] = "let go" /\ ClientReturn(c) /\ word' = [word EXCEPT !.reserved = FALSE]
    BY <1>8 DEF ReleaseLetGo, At
  <2>2. /\ word' \in Word /\ word'.ticket = word.ticket
        /\ word'.owner = word.owner /\ word'.gen = word.gen /\ ~word'.reserved
    BY <1>1, <2>1 DEF Word
  <2>3. /\ LocalTo(c) /\ Tables' /\ ClientMoves(c) /\ seen'[c] = NoMotion
        /\ UNCHANGED <<ticket, lease, expected, gate, helping>>
    BY <2>1, ReturnEffect DEF requests
  <2>4. ReservationMoves(c)
    <3>1. seen[c].reserved /\ ~seen'[c].reserved
      BY <1>1, <2>1, <2>3, NoMotionIsWord DEF ClientKnows
    <3> QED BY <2>2, <3>1 DEF ReservationMoves
  <2> QED BY <2>1, <2>2, <2>3, <2>4
<1>9. CASE ClientSwap(c)
  <2>1. /\ UNCHANGED <<acked, publishers, recovering, controlledStop, stopAuthority, requests>>
        /\ pc[c] = "swap"
    BY <1>9 DEF ClientSwap, At
  <2>2. CASE word = seen[c]
    <3>1. /\ word' = [word EXCEPT !.owner = wanted[c], !.gen = @ + 1, !.reserved = FALSE]
          /\ ClientReturn(c)
      BY <1>9, <2>2 DEF ClientSwap
    <3>2. wanted[c] \in Owner /\ word.gen + 1 \in Nat
      BY <1>1, FieldTypes DEF Tables, Owner
    <3>3. word' \in Word /\ word'.ticket = word.ticket /\ word'.reserved = FALSE
      BY <1>1, <3>1, <3>2 DEF Word
    <3>4. /\ LocalTo(c) /\ Tables' /\ ClientMoves(c) /\ seen'[c] = NoMotion
          /\ UNCHANGED <<ticket, lease, expected, gate, helping>>
      BY <2>1, <3>1, ReturnEffect DEF requests
    <3>5. ReservationMoves(c)
      <4>1. ~seen'[c].reserved /\ ~word'.reserved /\ word.reserved = seen[c].reserved
        BY <2>2, <3>3, <3>4, NoMotionIsWord
      <4>2. CASE seen[c].reserved
        BY <4>1, <4>2 DEF ReservationMoves
      <4>3. CASE ~seen[c].reserved
        <5>1. seen[c].reserved = FALSE /\ word.reserved = FALSE
          BY <1>1, <4>1, <4>3
        <5>2. seen'[c].reserved = FALSE /\ word'.reserved = FALSE
          BY <3>3, <3>4, NoMotionIsWord
        <5> QED BY <5>1, <5>2 DEF ReservationMoves
      <4> QED BY <4>2, <4>3
    <3> QED BY <2>1, <2>2, <3>3, <3>4, <3>5
  <2>3. CASE word # seen[c]
    <3>1. ClientRefused(c) /\ word' = word
      BY <1>9, <2>3 DEF ClientSwap
    <3>2. /\ LocalTo(c) /\ Tables' /\ ClientMoves(c)
          /\ UNCHANGED <<ticket, lease, expected, gate, helping>>
          /\ seen'[c].reserved = seen[c].reserved /\ seen'[c] \in {seen[c], NoMotion}
      BY <2>1, <3>1, RefusedEffect DEF requests
    <3> QED BY <1>1, <2>1, <3>1, <3>2 DEF ReservationMoves
  <2> QED BY <2>2, <2>3
<1> QED BY <1>3, <1>4, <1>5, <1>6, <1>7, <1>8, <1>9 DEF ClientStep, ClientGoesOn

(* A client changes the word only when no pass relies on SAFETY.           *)
LEMMA SwapOutdated ==
  ASSUME IInv, NEW c \in Client, pc[c] = "swap", word = seen[c], word.owner = "SAFETY"
  PROVE  /\ ~Recovering /\ ~controlledStop /\ pc[Rt] \notin Authorized /\ consumed = {}
<1>1. word.ticket \in Nat
  BY Typed DEF IInv, Numbers
<1>2. ~Outdated(c)
  BY <1>1 DEF Outdated
<1>3. ~Recovering /\ ~controlledStop
  BY <1>2 DEF IInv, ReleasesOutdated
<1> QED BY <1>3 DEF IInv, Recovering, Authorized, ConsumedApplied

(* The reservation passes to one client and back. *)
LEMMA ClientReservation ==
  ASSUME IInv, NEW c \in Client, ReservationMoves(c), pc'[Rt] = pc[Rt],
         \A d \in Client \ {c} : seen'[d] = seen[d]
  PROVE  ReservedAlone'
<1>1. ReservedAlone
  BY DEF IInv
<1>2. CASE word'.reserved = word.reserved /\ seen'[c].reserved = seen[c].reserved
  <2>1. \A d \in Client : seen'[d].reserved = seen[d].reserved
    BY <1>2
  <2> QED BY <1>1, <1>2, <2>1 DEF ReservedAlone
<1>3. CASE ClientReserves(c)
  <2>1. ~word.reserved /\ word'.reserved /\ seen'[c].reserved
    BY <1>3, Typed DEF ClientReserves, IInv, TypeOK, Word
  <2>2. pc'[Rt] # "send" /\ \A d \in Client \ {c} : ~seen'[d].reserved
    BY <1>1, <2>1 DEF ReservedAlone
  <2> QED BY <2>1, <2>2 DEF ReservedAlone
<1>4. CASE seen[c].reserved /\ ~seen'[c].reserved /\ ~word'.reserved
  <2>1. pc'[Rt] # "send" /\ \A d \in Client : ~seen'[d].reserved
    BY <1>1, <1>4 DEF ReservedAlone
  <2> QED BY <1>4, <2>1 DEF ReservedAlone
<1> QED BY <1>2, <1>3, <1>4 DEF ReservationMoves

LEMMA ClientIInv ==
  ASSUME IInv, NEW c \in Client, ClientStep(c)
  PROVE  IInv'
<1> USE DEF ClientLabel, Comparing
<1>1. /\ LocalTo(c) /\ Tables' /\ ClientMoves(c) /\ pc[c] \in ClientLabel
      /\ UNCHANGED <<acked, publishers, recovering, controlledStop, stopAuthority, posted,
                     consumed, kind, granted, ticket, lease, expected, gate, helping>>
      /\ seen'[c] \in {seen[c], word, word', NoMotion} /\ ReservationMoves(c)
      /\ word' \in Word /\ word'.ticket = word.ticket
      /\ \/ word'.owner = word.owner /\ word'.gen = word.gen
         \/ pc[c] = "swap" /\ word = seen[c]
  BY ClientEffect DEF requests
<1>2. /\ c \in Thread /\ c # Rt /\ c \notin Requester \cup Taker /\ Tables /\ Numbers
      /\ Requester \subseteq Thread /\ Taker \subseteq Thread /\ Client \subseteq Thread
      /\ Rt \in Thread
  BY Members, Typed DEF IInv
<1>3. TypeOK'
  BY <1>1 DEF IInv, TypeOK, Tables
<1>4. acked <= acked' /\ word.ticket <= word'.ticket
  <2>1. acked \in Nat /\ word.ticket \in Nat
    BY <1>2 DEF Numbers
  <2>2. acked' = acked /\ word'.ticket = word.ticket
    BY <1>1
  <2> QED BY <2>1, <2>2
<1>5. \A s \in Thread : s # c => pc'[s] = pc[s] /\ seen'[s] = seen[s]
                                  /\ lease'[s] = lease[s] /\ ticket'[s] = ticket[s]
  BY <1>1 DEF LocalTo
<1>6. pc'[c] \in ClientLabel
  BY <1>1 DEF ClientMoves
<1>7. Counted'
  <2>1. Calling' = Calling
    BY <1>2, <1>5 DEF Calling
  <2> QED BY <2>1, <1>1 DEF IInv, Counted
<1>8. TicketsGiven'
  <2>1. acked <= word.ticket /\ \A s \in Thread : seen[s].ticket <= word.ticket
    BY DEF IInv, TicketsGiven
  <2>2. seen'[c].ticket <= word.ticket
    <3>1. word.ticket <= word.ticket /\ 0 <= word.ticket
      BY <1>2 DEF Numbers
    <3> QED BY <1>1, <1>2, <2>1, <3>1, NoMotionIsWord
  <2>3. \A s \in Thread : seen'[s].ticket <= word.ticket
    BY <1>5, <2>1, <2>2
  <2> QED BY <1>1, <2>3 DEF IInv, TicketsGiven
<1>9. /\ \A s \in Thread \ {c} : ThreadKnows(s)'
      /\ \A d \in Client \ {c} : ClientKnows(d)' /\ (Outdated(d) => Outdated(d)')
  BY <1>1, <1>2, <1>3, <1>4, OthersKnow
<1>10. \A r \in Requester : pc'[r] = pc[r]
  BY <1>2, <1>5
<1>11. \A s \in Thread \ {c} : CommitPassesNobody(s)'
  BY <1>1, <1>2, <1>10, OthersPassNobody
<1>12. ThreadKnows(c) /\ ClientKnows(c) /\ ReleasesOutdated /\ FlagUp /\ LoadedUnderFlag
  BY <1>2 DEF IInv
<1>13. gate[c] # "commit"
  BY <1>1, <1>12 DEF ThreadKnows, Gates
<1>14. ThreadKnows(c)' /\ CommitPassesNobody(c)'
  BY <1>1, <1>6, <1>13 DEF ThreadKnows, CommitPassesNobody
<1>15. ClientKnows(c)'
  <2>1. acked <= acked /\ NoMotion.reserved = FALSE /\ word \in Word
    BY <1>2 DEF Numbers, NoMotion, IInv, TypeOK
  <2>2. [word EXCEPT !.reserved = TRUE].ticket = word.ticket
    BY <2>1 DEF Word
  <2>3. pc'[c] \in Comparing => seen'[c].ticket <= acked
    BY <1>1, <1>12, <2>1, <2>2 DEF ClientMoves, ClientKnows
  <2>4. pc'[c] \in {"idle", "compare", "hold"} => ~seen'[c].reserved
    BY <1>1, <2>1 DEF ClientMoves
  <2>5. /\ pc'[c] = "hold" => seen'[c].owner = "SAFETY"
        /\ pc'[c] = "let go" => seen'[c].reserved
    BY <1>1 DEF ClientMoves
  <2> QED BY <1>1, <2>3, <2>4, <2>5 DEF ClientKnows
<1>16. FlagUp' /\ AuthorityHeld' /\ ConsumedApplied' /\ FrameAcknowledged'
  <2>1. pc[Rt] \in Authorized => word'.owner = word.owner /\ word'.gen = word.gen
    BY <1>1, SwapOutdated DEF IInv, AuthorityHeld
  <2> QED BY <1>1, <1>2, <1>3, <1>4, <2>1, RtUndisturbed
<1>17. /\ pc'[Rt] = pc[Rt] /\ seen'[Rt] = seen[Rt]
       /\ lease'[Rt] = lease[Rt] /\ ticket'[Rt] = ticket[Rt]
  BY <1>2, <1>5
<1>21. ReservedAlone'
  BY <1>1, <1>2, <1>5, <1>17, ClientReservation
<1>18. LoadedUnderFlag'
  <2>1. \A s \in Thread : gate'[s] = "commit" /\ pc'[s] \in {"ack mailboxes", "ack commit"} =>
          gate[s] = "commit" /\ pc[s] \in {"ack mailboxes", "ack commit"} /\ seen'[s] = seen[s]
    BY <1>1, <1>5, <1>6
  <2> QED BY <1>1, <1>12, <1>17, <2>1 DEF LoadedUnderFlag
<1>19. ReleasesOutdated'
  <2>1. Recovering' = Recovering /\ (Recovering => recovering)
    BY <1>1, <1>12, <1>17 DEF Recovering, FlagUp
  <2>2. \A d \in Client \ {c} : pc'[d] = pc[d] /\ (Outdated(d) => Outdated(d)')
    BY <1>2, <1>5, <1>9
  <2>3. seen' = seen => (Outdated(c)' <=> Outdated(c))
    BY <1>1 DEF Outdated
  <2>4. Recovering /\ pc'[c] \in {"mailboxes", "stopping", "swap"} => Outdated(c)'
    <3>1. CASE pc[c] = "compare"
      BY <3>1, <1>1 DEF ClientMoves, Outdated
    <3>2. CASE pc[c] # "compare"
      BY <3>2, <1>1, <1>12, <2>1, <2>3 DEF ClientMoves, ReleasesOutdated
    <3> QED BY <3>1, <3>2
  <2>5. controlledStop /\ pc'[c] = "swap" => Outdated(c)'
    BY <1>1 DEF ClientMoves, Outdated
  <2> QED BY <1>1, <1>12, <2>1, <2>2, <2>4, <2>5 DEF ReleasesOutdated
<1>20. AcknowledgedRequestConsumed'
  BY <1>1, <1>10 DEF IInv, AcknowledgedRequestConsumed
<1> QED BY <1>3, <1>7, <1>8, <1>9, <1>11, <1>14, <1>15, <1>16, <1>18, <1>19, <1>20, <1>21
      DEF IInv

-----------------------------------------------------------------------------
(* The motion thread's own steps: what every one of them changes, and how  *)
(* the pass moves on.                                                      *)
RtLabel == {"idle", "load", "ticket", "authorize", "publishers", "complete", "claim estop",
  "claim stop", "apply", "finish", "applied", "help", "settle", "frame", "reserve", "send"}

RtChanges ==
  /\ word' \in Word /\ word.ticket <= word'.ticket
  /\ word'.owner = word.owner /\ word'.gen = word.gen
  /\ UNCHANGED <<acked, publishers, kind, granted>>
  /\ posted' \subseteq posted /\ consumed' \subseteq Requester
  /\ recovering' \in BOOLEAN /\ controlledStop' \in BOOLEAN /\ helping' \in BOOLEAN
  /\ stopAuthority' \in [gen : Nat, ticket : Nat]

RtLocals(label) ==
  /\ LocalTo(Rt) /\ Tables' /\ pc'[Rt] = label /\ UNCHANGED <<expected, gate, wanted>>
  /\ seen'[Rt] \in {seen[Rt], word, NoMotion}

Same == UNCHANGED <<consumed, controlledStop, seen, lease>> /\ word'.reserved = word.reserved

RtMoves ==
  \/ pc[Rt] = "idle" /\ pc'[Rt] \in {"load", "help"} /\ Same /\ (pc'[Rt] = "load" => recovering')
  \/ /\ pc[Rt] = "load" /\ pc'[Rt] = "ticket" /\ seen'[Rt] = word
     /\ UNCHANGED <<word, recovering, consumed, controlledStop>>
  \/ /\ pc[Rt] = "ticket" /\ pc'[Rt] = "take" /\ Same /\ recovering' = recovering
     /\ seen[Rt].ticket \in {0, acked} => word'.ticket = word.ticket + 1 \/ ticket'[Rt] = 0
  \/ /\ pc[Rt] = "authorize" /\ pc'[Rt] = "publishers" /\ Same /\ recovering' = recovering
     /\ word.owner = "SAFETY" /\ word.gen = lease[Rt] /\ lease[Rt] # 0
  \/ pc[Rt] \in {"authorize", "publishers", "complete"} /\ pc'[Rt] = "help" /\ Same
  \/ pc[Rt] = "publishers" /\ pc'[Rt] = "complete" /\ Same /\ recovering' = recovering
  \/ pc[Rt] = "complete" /\ pc'[Rt] = "claim estop" /\ Same /\ recovering' = recovering
  \/ /\ \/ pc[Rt] = "claim estop" /\ pc'[Rt] = "claim stop"
        \/ pc[Rt] = "claim stop" /\ pc'[Rt] = "apply"
     /\ UNCHANGED <<word, recovering, controlledStop, seen, lease>>
  \/ pc[Rt] = "apply" /\ pc'[Rt] = "finish" /\ UNCHANGED <<word, recovering, consumed, seen, lease>>
  \/ pc[Rt] = "finish" /\ pc'[Rt] = "applied" /\ Same /\ recovering' = recovering
  \/ /\ pc[Rt] = "applied" /\ pc'[Rt] = "ack publishers" /\ consumed' = {}
     /\ UNCHANGED <<word, controlledStop, seen, lease>>
  \/ pc[Rt] = "help" /\ pc'[Rt] \in {"take", "settle"} /\ helping' /\ Same
  \/ /\ pc[Rt] = "settle" /\ pc'[Rt] = "frame" /\ (controlledStop' => controlledStop)
     /\ UNCHANGED <<word, consumed, seen, lease>>
  \/ /\ pc[Rt] = "frame" /\ pc'[Rt] \in {"reserve", "idle"}
     /\ pc'[Rt] = "reserve" =>
          seen'[Rt] = word /\ ~word.reserved /\ (word.owner # "SAFETY" => word.ticket = acked)
     /\ UNCHANGED <<word, consumed, controlledStop>>
  \/ /\ pc[Rt] = "reserve" /\ UNCHANGED <<consumed, controlledStop>>
     /\ \/ pc'[Rt] = "send" /\ word = seen[Rt] /\ word'.reserved
        \/ pc'[Rt] = "idle" /\ word'.reserved = word.reserved
  \/ pc[Rt] = "send" /\ pc'[Rt] = "idle" /\ ~word'.reserved /\ UNCHANGED <<consumed, controlledStop>>

LEMMA RtGoesOn ==
  ASSUME IInv, NEW label \in Label, pc' = [pc EXCEPT ![Rt] = label],
         \/ seen' = seen \/ seen' = [seen EXCEPT ![Rt] = word]
         \/ seen' = [seen EXCEPT ![Rt] = NoMotion],
         lease' = lease \/ lease' = [lease EXCEPT ![Rt] = 0],
         ticket' \in [Thread -> Nat], \A s \in Thread \ {Rt} : ticket'[s] = ticket[s],
         UNCHANGED <<expected, gate, wanted, granted>>
  PROVE  RtLocals(label)
<1>1. Tables /\ Rt \in Thread /\ word \in Word /\ NoMotion \in Word
  BY Typed, Members, NoMotionIsWord DEF IInv, TypeOK
<1>2. pc' \in [Thread -> Label] /\ pc'[Rt] = label
  BY <1>1 DEF Tables
<1>3. seen' \in [Thread -> Word] /\ seen'[Rt] \in {seen[Rt], word, NoMotion}
  BY <1>1 DEF Tables
<1>4. lease' \in [Thread -> Nat]
  BY <1>1 DEF Tables
<1>5. \A s \in Thread \ {Rt} : pc'[s] = pc[s] /\ seen'[s] = seen[s] /\ lease'[s] = lease[s]
  BY <1>1 DEF Tables
<1> QED BY <1>1, <1>2, <1>3, <1>4, <1>5 DEF RtLocals, LocalTo, Tables

LEMMA RtContinues ==
  ASSUME IInv, NEW label \in Label, Continue(Rt, label), granted' = granted
  PROVE  RtLocals(label) /\ UNCHANGED <<seen, ticket, lease, helping>>
<1>1. /\ pc' = [pc EXCEPT ![Rt] = label] /\ Tables
      /\ UNCHANGED <<seen, ticket, lease, helping, expected, gate, wanted>>
  BY Typed DEF Continue, Goto, locals, IInv
<1> QED BY <1>1, RtGoesOn DEF Tables

(* The flags of the word. *)
LEMMA FlagsOnly ==
  ASSUME TypeOK, NEW a \in BOOLEAN, NEW s \in BOOLEAN,
         \/ word' = [word EXCEPT !.action = a] \/ word' = [word EXCEPT !.reserved = s]
         \/ word' = word
  PROVE  /\ word' \in Word /\ word.ticket <= word'.ticket
         /\ word'.owner = word.owner /\ word'.gen = word.gen /\ word'.ticket = word.ticket
         /\ word'.reserved \in {word.reserved, s}
<1>1. word \in Word /\ word.ticket \in Nat /\ word.ticket <= word.ticket
  BY FieldTypes DEF TypeOK
<1> QED BY <1>1 DEF Word

(* A step that leaves the shared state and the requests alone. *)
LEMMA NothingShared ==
  ASSUME IInv, UNCHANGED <<word, acked, publishers, controlledStop, stopAuthority, requests>>,
         recovering' \in BOOLEAN, helping' \in BOOLEAN
  PROVE  RtChanges /\ word'.reserved = word.reserved /\ UNCHANGED <<consumed, granted>>
<1>1. /\ word \in Word /\ word.ticket \in Nat /\ word.ticket <= word.ticket
      /\ controlledStop \in BOOLEAN
      /\ stopAuthority \in [gen : Nat, ticket : Nat] /\ consumed \subseteq Requester
  BY FieldTypes DEF IInv, TypeOK
<1> QED BY <1>1 DEF RtChanges, requests

(* The steps that read the word, and those that leave it. *)
LEMMA RtReadEffect ==
  ASSUME IInv, \/ RtPoll \/ RtLoad \/ RtAuthorize \/ RtPublishers \/ RtHelp \/ RtFrame
  PROVE  RtChanges /\ (\E label \in Label : RtLocals(label)) /\ RtMoves /\ pc[Rt] \in RtLabel
<1>1. /\ Tables /\ recovering \in BOOLEAN /\ helping \in BOOLEAN /\ posted \subseteq Requester
      /\ Rt \in Thread
  BY Typed, Members DEF IInv, TypeOK
<1>2. word.ticket \in Nat /\ ticket \in [Thread -> Nat]
  BY Typed DEF IInv, Numbers, Tables
<1>3. CASE RtPoll
  <2> DEFINE next == IF posted # {} THEN "load" ELSE "help"
  <2>1. /\ pc[Rt] = "idle" /\ recovering' = (posted # {})
        /\ pc' = [pc EXCEPT ![Rt] = next]
        /\ UNCHANGED <<word, acked, publishers, controlledStop, stopAuthority, requests>>
        /\ UNCHANGED <<seen, ticket, lease, expected, gate, wanted, helping>>
    BY <1>3 DEF RtPoll, At, Goto, locals
  <2>2. RtChanges /\ word'.reserved = word.reserved /\ UNCHANGED <<consumed, granted>>
    BY <1>1, <2>1, NothingShared
  <2>3. next \in Label /\ RtLocals(next)
    <3>1. next \in Label
      BY DEF Label
    <3> HIDE DEF next
    <3> QED BY <3>1, <2>1, <2>2, <1>2, RtGoesOn
  <2>4. pc'[Rt] = next
    BY <2>3 DEF RtLocals
  <2>5. pc'[Rt] \in {"load", "help"} /\ (pc'[Rt] = "load" => posted # {})
    BY <2>4
  <2>6. posted # {} => recovering'
    BY <2>1
  <2>7. RtMoves /\ pc[Rt] \in RtLabel
    <3> HIDE DEF next
    <3> QED BY <2>1, <2>2, <2>5, <2>6 DEF RtMoves, RtLabel, Same
  <2> QED BY <2>2, <2>3, <2>7
<1>4. CASE RtLoad
  <2>1. /\ pc[Rt] = "load" /\ pc' = [pc EXCEPT ![Rt] = "ticket"]
        /\ seen' = [seen EXCEPT ![Rt] = word]
        /\ UNCHANGED <<word, acked, publishers, controlledStop, stopAuthority, requests>>
        /\ UNCHANGED <<recovering, ticket, lease, expected, gate, wanted, helping>>
    BY <1>4 DEF RtLoad, At, Goto, shared
  <2>2. RtChanges /\ word'.reserved = word.reserved /\ UNCHANGED <<consumed, granted>>
    BY <1>1, <2>1, NothingShared
  <2>3. "ticket" \in Label
    BY DEF Label
  <2>4. RtLocals("ticket")
    BY <2>1, <2>2, <2>3, <1>2, RtGoesOn
  <2>5. pc'[Rt] = "ticket" /\ seen'[Rt] = word
    BY <1>1, <2>1 DEF Tables
  <2>6. RtMoves /\ pc[Rt] \in RtLabel
    BY <2>1, <2>2, <2>5 DEF RtMoves, RtLabel
  <2> QED BY <2>2, <2>3, <2>4, <2>6
<1>5. ASSUME RtKeepForNextPass, pc[Rt] \in {"authorize", "publishers", "complete"}
      PROVE  RtChanges /\ (\E label \in Label : RtLocals(label)) /\ RtMoves /\ pc[Rt] \in RtLabel
  <2>1. /\ pc' = [pc EXCEPT ![Rt] = "help"] /\ recovering' \in BOOLEAN
        /\ UNCHANGED <<word, acked, publishers, controlledStop, stopAuthority, requests>>
        /\ UNCHANGED <<seen, ticket, lease, expected, gate, wanted, helping>>
    BY <1>5 DEF RtKeepForNextPass, Goto, locals
  <2>2. RtChanges /\ word'.reserved = word.reserved /\ UNCHANGED <<consumed, granted>>
    BY <1>1, <2>1, NothingShared
  <2>3. "help" \in Label
    BY DEF Label
  <2>4. RtLocals("help")
    BY <2>1, <2>2, <2>3, <1>2, RtGoesOn
  <2>5. RtMoves /\ pc[Rt] \in RtLabel
    BY <1>5, <2>1, <2>2, <2>4 DEF RtMoves, RtLabel, Same, RtLocals
  <2> QED BY <2>2, <2>3, <2>4, <2>5
<1>6. CASE RtAuthorize \/ RtPublishers
  <2>1. CASE RtKeepForNextPass
    BY <1>5, <1>6, <2>1 DEF RtAuthorize, RtPublishers, At
  <2>2. CASE ~RtKeepForNextPass
    <3>1. /\ UNCHANGED <<shared, requests>>
          /\ \/ /\ pc[Rt] = "authorize" /\ Continue(Rt, "publishers")
                /\ word.owner = "SAFETY" /\ word.gen = lease[Rt] /\ lease[Rt] # 0
             \/ pc[Rt] = "publishers" /\ Continue(Rt, "complete")
      BY <1>6, <2>2 DEF RtAuthorize, RtPublishers, At
    <3>2. "publishers" \in Label /\ "complete" \in Label /\ helping' = helping
      BY <3>1 DEF Label, Continue, locals
    <3>3. RtChanges /\ word'.reserved = word.reserved /\ UNCHANGED <<consumed, granted>>
      BY <1>1, <3>1, <3>2, NothingShared DEF shared
    <3>4. /\ Continue(Rt, "publishers") => RtLocals("publishers") /\ UNCHANGED <<seen, lease>>
          /\ Continue(Rt, "complete") => RtLocals("complete") /\ UNCHANGED <<seen, lease>>
      BY <3>2, <3>3, RtContinues
    <3>5. RtMoves /\ pc[Rt] \in RtLabel
      BY <3>1, <3>3, <3>4 DEF RtMoves, RtLabel, Same, RtLocals, shared
    <3> QED BY <3>1, <3>2, <3>3, <3>4, <3>5
  <2> QED BY <2>1, <2>2
<1>7. CASE RtHelp
  <2> DEFINE next == IF Unacknowledged THEN "take" ELSE "settle"
  <2>1. /\ pc[Rt] = "help" /\ helping' = TRUE /\ pc' = [pc EXCEPT ![Rt] = next]
        /\ ticket' = [ticket EXCEPT ![Rt] = word.ticket]
        /\ UNCHANGED <<word, acked, publishers, controlledStop, stopAuthority, requests>>
        /\ UNCHANGED <<recovering, seen, lease, expected, gate, wanted>>
    BY <1>7 DEF RtHelp, At, Goto, shared
  <2>2. RtChanges /\ word'.reserved = word.reserved /\ UNCHANGED <<consumed, granted>>
    BY <1>1, <2>1, NothingShared
  <2>3. next \in Label /\ RtLocals(next)
    <3>1. /\ next \in Label /\ ticket' \in [Thread -> Nat]
          /\ \A s \in Thread \ {Rt} : ticket'[s] = ticket[s]
      BY <1>2, <2>1 DEF Label
    <3> HIDE DEF next
    <3> QED BY <3>1, <2>1, <2>2, RtGoesOn
  <2>4. pc'[Rt] = next
    BY <2>3 DEF RtLocals
  <2>5. RtMoves /\ pc[Rt] \in RtLabel
    BY <2>1, <2>2, <2>4 DEF RtMoves, RtLabel, Same
  <2> QED BY <2>2, <2>3, <2>5
<1>8. CASE RtFrame
  <2> DEFINE next == IF SendAllowed THEN "reserve" ELSE "idle"
  <2>1. /\ pc[Rt] = "frame" /\ helping' = FALSE /\ pc' = [pc EXCEPT ![Rt] = next]
        /\ seen' = [seen EXCEPT ![Rt] = IF SendAllowed THEN word ELSE NoMotion]
        /\ ticket' = [ticket EXCEPT ![Rt] = 0] /\ lease' = [lease EXCEPT ![Rt] = 0]
        /\ UNCHANGED <<word, acked, publishers, controlledStop, stopAuthority, requests>>
        /\ UNCHANGED <<recovering, expected, gate, wanted>>
    BY <1>8 DEF RtFrame, At, Goto, shared
  <2>2. RtChanges /\ word'.reserved = word.reserved /\ UNCHANGED <<consumed, granted>>
    BY <1>1, <2>1, NothingShared
  <2>3. next \in Label /\ RtLocals(next)
    <3>1. /\ next \in Label /\ ticket' \in [Thread -> Nat]
          /\ \A s \in Thread \ {Rt} : ticket'[s] = ticket[s]
      BY <1>2, <2>1 DEF Label
    <3>2. \/ seen' = [seen EXCEPT ![Rt] = word] \/ seen' = [seen EXCEPT ![Rt] = NoMotion]
      BY <2>1
    <3> HIDE DEF next
    <3> QED BY <3>1, <3>2, <2>1, <2>2, RtGoesOn
  <2>4. pc'[Rt] = next
    BY <2>3 DEF RtLocals
  <2>5. pc'[Rt] = "reserve" =>
          seen'[Rt] = word /\ ~word.reserved /\ (word.owner # "SAFETY" => word.ticket = acked)
    BY <1>1, <2>1, <2>4 DEF SendAllowed, Unfenced, Unacknowledged, Tables
  <2>6. RtMoves /\ pc[Rt] \in RtLabel
    BY <2>1, <2>2, <2>4, <2>5 DEF RtMoves, RtLabel
  <2> QED BY <2>2, <2>3, <2>6
<1> QED BY <1>3, <1>4, <1>6, <1>7, <1>8

(* The steps that change the word. *)
LEMMA RtWordEffect ==
  ASSUME IInv, \/ RtTicket \/ RtComplete \/ RtFinish \/ RtReserve \/ RtSend
  PROVE  RtChanges /\ (\E label \in Label : RtLocals(label)) /\ RtMoves /\ pc[Rt] \in RtLabel
<1>1. /\ Tables /\ Numbers /\ TypeOK /\ Rt \in Thread /\ word \in Word
      /\ word.ticket \in Nat /\ word.ticket <= word.ticket /\ ticket \in [Thread -> Nat]
  BY Typed, Members DEF IInv, TypeOK, Tables, Numbers
<1>2. ASSUME /\ word' \in Word /\ word.ticket <= word'.ticket
             /\ word'.owner = word.owner /\ word'.gen = word.gen,
             UNCHANGED <<acked, publishers, recovering, controlledStop, stopAuthority, requests>>,
             helping' \in BOOLEAN
      PROVE  RtChanges /\ UNCHANGED <<consumed, granted, recovering, controlledStop>>
  <2>1. /\ recovering \in BOOLEAN /\ controlledStop \in BOOLEAN
        /\ stopAuthority \in [gen : Nat, ticket : Nat] /\ consumed \subseteq Requester
    BY <1>1 DEF TypeOK
  <2> QED BY <1>2, <2>1 DEF RtChanges, requests
<1>3. {"take", "help", "claim estop", "applied", "send", "idle"} \subseteq Label
      /\ helping \in BOOLEAN
  BY <1>1 DEF Label, TypeOK
<1>4. CASE RtTicket
  <2>1. /\ pc[Rt] = "ticket" /\ pc' = [pc EXCEPT ![Rt] = "take"]
        /\ IF seen[Rt].ticket \in {0, acked}
           THEN PublishTicket(Rt, FALSE)
           ELSE ticket' = [ticket EXCEPT ![Rt] = seen[Rt].ticket] /\ UNCHANGED word
        /\ UNCHANGED <<acked, publishers, recovering, controlledStop, stopAuthority, requests>>
        /\ UNCHANGED <<seen, lease, expected, gate, wanted, helping>>
    BY <1>4 DEF RtTicket, At, Goto
  <2>3. /\ word' \in Word /\ word.ticket <= word'.ticket /\ ticket' \in [Thread -> Nat]
        /\ word'.owner = word.owner /\ word'.gen = word.gen /\ word'.reserved = word.reserved
        /\ \A s \in Thread \ {Rt} : ticket'[s] = ticket[s]
        /\ seen[Rt].ticket \in {0, acked} => word'.ticket = word.ticket + 1 \/ ticket'[Rt] = 0
    <3>1. CASE seen[Rt].ticket \in {0, acked}
      <4>1. PublishTicket(Rt, FALSE)
        BY <2>1, <3>1
      <4> QED BY <4>1, <1>1, TicketEffect
    <3>2. CASE seen[Rt].ticket \notin {0, acked}
      <4>1. word' = word /\ ticket' = [ticket EXCEPT ![Rt] = seen[Rt].ticket]
        BY <2>1, <3>2
      <4>2. ticket' \in [Thread -> Nat] /\ \A s \in Thread \ {Rt} : ticket'[s] = ticket[s]
        BY <4>1, <1>1 DEF Numbers
      <4> QED BY <4>1, <4>2, <3>2, <1>1
    <3> QED BY <3>1, <3>2
  <2>4. RtChanges /\ UNCHANGED <<consumed, granted, recovering, controlledStop>>
    BY <1>2, <1>3, <2>1, <2>3
  <2>5. RtLocals("take")
    BY <1>3, <2>1, <2>3, <2>4, RtGoesOn
  <2>6. RtMoves /\ pc[Rt] \in RtLabel
    BY <2>1, <2>3, <2>4, <2>5 DEF RtMoves, RtLabel, Same, RtLocals
  <2> QED BY <1>3, <2>4, <2>5, <2>6
<1>5. CASE RtComplete \/ RtFinish
  <2>1. CASE RtComplete /\ RtKeepForNextPass
    <3>1. /\ pc[Rt] = "complete" /\ pc' = [pc EXCEPT ![Rt] = "help"] /\ recovering' \in BOOLEAN
          /\ UNCHANGED <<word, acked, publishers, controlledStop, stopAuthority, requests>>
          /\ UNCHANGED <<seen, ticket, lease, expected, gate, wanted, helping>>
      BY <2>1 DEF RtComplete, RtKeepForNextPass, At, Goto, locals
    <3>2. RtChanges /\ word'.reserved = word.reserved /\ UNCHANGED <<consumed, granted>>
      BY <1>3, <3>1, NothingShared
    <3>3. RtLocals("help")
      BY <1>1, <1>3, <3>1, <3>2, RtGoesOn
    <3>4. RtMoves /\ pc[Rt] \in RtLabel
      BY <3>1, <3>2, <3>3 DEF RtMoves, RtLabel, Same, RtLocals
    <3> QED BY <1>3, <3>2, <3>3, <3>4
  <2>2. CASE ~(RtComplete /\ RtKeepForNextPass)
    <3>1. /\ word' = [word EXCEPT !.action = FALSE] \/ word' = word
          /\ UNCHANGED <<acked, publishers, recovering, controlledStop, stopAuthority, requests>>
          /\ \/ pc[Rt] = "complete" /\ Continue(Rt, "claim estop")
             \/ pc[Rt] = "finish" /\ Continue(Rt, "applied")
      BY <1>5, <2>2 DEF RtComplete, RtFinish, CompleteAction, At
    <3>2. helping' = helping
      BY <3>1 DEF Continue, locals
    <3>3. /\ word' \in Word /\ word.ticket <= word'.ticket
          /\ word'.owner = word.owner /\ word'.gen = word.gen /\ word'.reserved = word.reserved
      <4>1. word.reserved \in BOOLEAN
        BY <1>1, FieldTypes
      <4> QED BY <4>1, <1>1, <3>1, FlagsOnly
    <3>4. RtChanges /\ UNCHANGED <<consumed, granted, recovering, controlledStop>>
      BY <1>2, <1>3, <3>1, <3>2, <3>3
    <3>5. /\ Continue(Rt, "claim estop") => RtLocals("claim estop") /\ UNCHANGED <<seen, lease>>
          /\ Continue(Rt, "applied") => RtLocals("applied") /\ UNCHANGED <<seen, lease>>
      BY <1>3, <3>4, RtContinues
    <3>6. RtMoves /\ pc[Rt] \in RtLabel
      BY <3>1, <3>3, <3>4, <3>5 DEF RtMoves, RtLabel, Same, RtLocals
    <3> QED BY <1>3, <3>1, <3>4, <3>5, <3>6
  <2> QED BY <2>1, <2>2
<1>6. CASE RtReserve
  <2> DEFINE next == IF word = seen[Rt] THEN "send" ELSE "idle"
  <2>1. /\ pc[Rt] = "reserve" /\ pc' = [pc EXCEPT ![Rt] = next]
        /\ word' = [word EXCEPT !.reserved = @ \/ word = seen[Rt]]
        /\ seen' = [seen EXCEPT ![Rt] = NoMotion]
        /\ UNCHANGED <<acked, publishers, recovering, controlledStop, stopAuthority, requests>>
        /\ UNCHANGED <<ticket, lease, expected, gate, wanted, helping>>
    BY <1>6 DEF RtReserve, At, Goto
  <2>2. /\ word' \in Word /\ word.ticket <= word'.ticket
        /\ word'.owner = word.owner /\ word'.gen = word.gen
    <3> DEFINE flag == word.reserved \/ word = seen[Rt]
    <3>1. flag \in BOOLEAN /\ word' = [word EXCEPT !.reserved = flag]
      BY <2>1
    <3> HIDE DEF flag
    <3> QED BY <3>1, <1>1, FlagsOnly
  <2>3. RtChanges /\ UNCHANGED <<consumed, granted, recovering, controlledStop>>
    BY <1>2, <1>3, <2>1, <2>2
  <2>4. next \in Label /\ RtLocals(next)
    <3>1. next \in Label
      BY <1>3
    <3> HIDE DEF next
    <3> QED BY <3>1, <1>1, <2>1, <2>3, RtGoesOn
  <2>5. /\ word = seen[Rt] => word'.reserved
        /\ word # seen[Rt] => word'.reserved = word.reserved
    BY <1>1, <2>1 DEF Word
  <2>6. pc'[Rt] = next
    BY <2>4 DEF RtLocals
  <2>7. RtMoves /\ pc[Rt] \in RtLabel
    BY <2>1, <2>3, <2>5, <2>6 DEF RtMoves, RtLabel
  <2> QED BY <2>3, <2>4, <2>7
<1>7. CASE RtSend
  <2>1. /\ pc[Rt] = "send" /\ Continue(Rt, "idle") /\ word' = [word EXCEPT !.reserved = FALSE]
        /\ UNCHANGED <<acked, publishers, recovering, controlledStop, stopAuthority, requests>>
    BY <1>7 DEF RtSend, At
  <2>2. helping' = helping
    BY <2>1 DEF Continue, locals
  <2>3. /\ word' \in Word /\ word.ticket <= word'.ticket
        /\ word'.owner = word.owner /\ word'.gen = word.gen /\ ~word'.reserved
    <3>1. /\ word' \in Word /\ word.ticket <= word'.ticket
          /\ word'.owner = word.owner /\ word'.gen = word.gen
      BY <1>1, <2>1, FlagsOnly
    <3>2. ~word'.reserved
      BY <1>1, <2>1 DEF Word
    <3> QED BY <3>1, <3>2
  <2>4. RtChanges /\ UNCHANGED <<consumed, granted, recovering, controlledStop>>
    BY <1>2, <1>3, <2>1, <2>2, <2>3
  <2>5. RtLocals("idle")
    BY <1>3, <2>1, <2>4, RtContinues
  <2>6. RtMoves /\ pc[Rt] \in RtLabel
    BY <2>1, <2>3, <2>4, <2>5 DEF RtMoves, RtLabel, RtLocals
  <2> QED BY <1>3, <2>4, <2>5, <2>6
<1> QED BY <1>4, <1>5, <1>6, <1>7

(* The steps that take the mailboxes, stop the group and end the pass. *)
LEMMA RtApplyEffect ==
  ASSUME IInv, \/ RtClaimEmergencyStop \/ RtClaimStop \/ RtApply \/ RtApplied
               \/ \E stopped \in BOOLEAN : RtSettle(stopped)
  PROVE  RtChanges /\ (\E label \in Label : RtLocals(label)) /\ RtMoves /\ pc[Rt] \in RtLabel
<1>1. /\ TypeOK /\ word \in Word /\ word.gen \in Nat /\ word.ticket \in Nat
      /\ word.ticket <= word.ticket
  BY FieldTypes DEF IInv, TypeOK
<1>2. ASSUME UNCHANGED <<word, acked, publishers, kind, granted>>, posted' \subseteq posted,
             consumed' \subseteq Requester, recovering' \in BOOLEAN, controlledStop' \in BOOLEAN,
             stopAuthority' \in [gen : Nat, ticket : Nat],
             NEW label \in Label, Continue(Rt, label)
      PROVE  RtChanges /\ RtLocals(label) /\ pc'[Rt] = label /\ UNCHANGED <<seen, lease>>
  <2>1. helping' \in BOOLEAN
    BY <1>1, <1>2 DEF Continue, locals, TypeOK
  <2>2. RtLocals(label) /\ UNCHANGED <<seen, lease>>
    BY <1>2, RtContinues
  <2> QED BY <1>1, <1>2, <2>1, <2>2 DEF RtChanges, RtLocals
<1>3. {"claim stop", "apply", "finish", "ack publishers", "frame"} \subseteq Label
  BY DEF Label
<1>4. NoAuthority \in [gen : Nat, ticket : Nat] /\ WordAuthority \in [gen : Nat, ticket : Nat]
  BY <1>1 DEF NoAuthority, WordAuthority
<1>5. ASSUME NEW which, Claim(which)
      PROVE  /\ UNCHANGED <<word, acked, publishers, kind, granted>> /\ posted' \subseteq posted
             /\ UNCHANGED <<recovering, controlledStop>>
             /\ consumed' \subseteq Requester /\ recovering' \in BOOLEAN
             /\ controlledStop' \in BOOLEAN /\ stopAuthority' \in [gen : Nat, ticket : Nat]
  BY <1>1, <1>5 DEF Claim, PostedOf, shared, TypeOK
<1>6. CASE RtClaimEmergencyStop
  <2>1. pc[Rt] = "claim estop" /\ Claim("estop") /\ Continue(Rt, "claim stop")
    BY <1>6 DEF RtClaimEmergencyStop, At
  <2>2. RtChanges /\ RtLocals("claim stop") /\ pc'[Rt] = "claim stop" /\ UNCHANGED <<seen, lease>>
    BY <1>2, <1>3, <1>5, <2>1
  <2> QED BY <1>3, <1>5, <2>1, <2>2 DEF RtMoves, RtLabel
<1>7. CASE RtClaimStop
  <2>1. pc[Rt] = "claim stop" /\ Claim("stop") /\ Continue(Rt, "apply")
    BY <1>7 DEF RtClaimStop, At
  <2>2. RtChanges /\ RtLocals("apply") /\ pc'[Rt] = "apply" /\ UNCHANGED <<seen, lease>>
    BY <1>2, <1>3, <1>5, <2>1
  <2> QED BY <1>3, <1>5, <2>1, <2>2 DEF RtMoves, RtLabel
<1>8. CASE RtApply
  <2>1. /\ pc[Rt] = "apply" /\ Continue(Rt, "finish") /\ controlledStop' \in BOOLEAN
        /\ stopAuthority' \in {WordAuthority, NoAuthority}
        /\ UNCHANGED <<word, acked, publishers, recovering, requests>>
    BY <1>8 DEF RtApply, At
  <2>2. UNCHANGED <<posted, consumed, kind, granted>> /\ recovering \in BOOLEAN
        /\ consumed \subseteq Requester
    BY <1>1, <2>1 DEF requests, TypeOK
  <2>3. RtChanges /\ RtLocals("finish") /\ pc'[Rt] = "finish" /\ UNCHANGED <<seen, lease>>
    BY <1>2, <1>3, <1>4, <2>1, <2>2
  <2> QED BY <1>3, <2>1, <2>2, <2>3 DEF RtMoves, RtLabel
<1>9. CASE RtApplied
  <2>1. /\ pc[Rt] = "applied" /\ Continue(Rt, "ack publishers") /\ recovering' = FALSE
        /\ consumed' = {}
        /\ UNCHANGED <<word, acked, publishers, controlledStop, stopAuthority, posted, kind, granted>>
    BY <1>9 DEF RtApplied, At
  <2>2. controlledStop \in BOOLEAN /\ stopAuthority \in [gen : Nat, ticket : Nat]
    BY <1>1 DEF TypeOK
  <2>3. /\ RtChanges /\ RtLocals("ack publishers") /\ pc'[Rt] = "ack publishers"
        /\ UNCHANGED <<seen, lease>>
    BY <1>2, <1>3, <2>1, <2>2
  <2> QED BY <1>3, <2>1, <2>3 DEF RtMoves, RtLabel
<1>10. CASE \E stopped \in BOOLEAN : RtSettle(stopped)
  <2>1. /\ pc[Rt] = "settle" /\ Continue(Rt, "frame") /\ controlledStop' \in BOOLEAN
        /\ controlledStop' => controlledStop
        /\ stopAuthority' \in {stopAuthority, NoAuthority}
        /\ UNCHANGED <<word, acked, publishers, recovering, requests>>
    BY <1>10 DEF RtSettle, At
  <2>2. UNCHANGED <<posted, consumed, kind, granted>> /\ recovering \in BOOLEAN
        /\ consumed \subseteq Requester /\ stopAuthority \in [gen : Nat, ticket : Nat]
    BY <1>1, <2>1 DEF requests, TypeOK
  <2>3. RtChanges /\ RtLocals("frame") /\ pc'[Rt] = "frame" /\ UNCHANGED <<seen, lease>>
    BY <1>2, <1>3, <1>4, <2>1, <2>2
  <2> QED BY <1>3, <2>1, <2>2, <2>3 DEF RtMoves, RtLabel
<1> QED BY <1>6, <1>7, <1>8, <1>9, <1>10

LEMMA RtIInv ==
  ASSUME IInv, RtOwnStep
  PROVE  IInv'
<1> USE DEF RtLabel
<1>1. RtChanges /\ (\E label \in Label : RtLocals(label)) /\ RtMoves /\ pc[Rt] \in RtLabel
  BY RtReadEffect, RtWordEffect, RtApplyEffect DEF RtOwnStep
<1>2. /\ LocalTo(Rt) /\ Tables' /\ UNCHANGED <<expected, gate, wanted>>
      /\ seen'[Rt] \in {seen[Rt], word, NoMotion}
  BY <1>1 DEF RtLocals
<1>3. /\ word' \in Word /\ word.ticket <= word'.ticket
      /\ word'.owner = word.owner /\ word'.gen = word.gen
      /\ UNCHANGED <<acked, publishers, kind, granted>>
      /\ posted' \subseteq posted /\ consumed' \subseteq Requester
      /\ recovering' \in BOOLEAN /\ controlledStop' \in BOOLEAN /\ helping' \in BOOLEAN
      /\ stopAuthority' \in [gen : Nat, ticket : Nat]
  BY <1>1 DEF RtChanges
<1>4. /\ Rt \in Thread /\ Rt \notin Requester \cup Taker /\ Rt \notin Client /\ Tables /\ Numbers
      /\ Requester \subseteq Thread /\ Taker \subseteq Thread /\ Client \subseteq Thread
  BY Members, Typed DEF IInv
<1>5. TypeOK'
  BY <1>2, <1>3 DEF IInv, TypeOK, Tables
<1>6. acked <= acked' /\ word'.ticket \in Nat /\ acked \in Nat
  <2>1. word'.ticket \in Nat
    BY <1>3, FieldTypes
  <2>2. acked \in Nat /\ acked' = acked
    BY <1>3, <1>4 DEF Numbers
  <2> QED BY <2>1, <2>2
<1>7. \A s \in Thread : s # Rt => pc'[s] = pc[s] /\ seen'[s] = seen[s]
  BY <1>2 DEF LocalTo
<1>24. \A c \in Client : seen'[c] = seen[c]
  BY <1>4, <1>7
<1>8. pc'[Rt] \in RtLabel \cup {"take", "ack publishers"}
  BY <1>1 DEF RtMoves
<1>9. Counted'
  <2>1. Calling' = Calling
    BY <1>4, <1>7 DEF Calling
  <2> QED BY <2>1, <1>3 DEF IInv, Counted
<1>10. TicketsGiven'
  <2>1. /\ acked <= word.ticket /\ \A s \in Thread : seen[s].ticket <= word.ticket
        /\ \A r \in Requester : granted[r] <= word.ticket
    BY DEF IInv, TicketsGiven
  <2>2. ASSUME NEW n \in Nat, n <= word.ticket PROVE n <= word'.ticket
    BY <2>2, <1>3, <1>4, <1>6 DEF Numbers
  <2>3. \A s \in Thread : seen'[s].ticket \in Nat /\ seen'[s].ticket <= word.ticket
    <3>1. /\ word.ticket <= word.ticket /\ 0 <= word.ticket
          /\ \A s \in Thread : seen[s].ticket \in Nat
          /\ word.ticket \in Nat /\ 0 \in Nat
      BY <1>4 DEF Numbers
    <3>2. seen'[Rt].ticket \in Nat /\ seen'[Rt].ticket <= word.ticket
      BY <1>2, <1>4, <2>1, <3>1, NoMotionIsWord
    <3> QED BY <1>7, <2>1, <3>1, <3>2
  <2>4. acked' \in Nat /\ acked' <= word.ticket
    BY <1>3, <1>6, <2>1
  <2>5. \A r \in Requester : granted'[r] \in Nat /\ granted'[r] <= word.ticket
    BY <1>3, <1>4, <2>1 DEF Numbers
  <2> QED BY <2>2, <2>3, <2>4, <2>5 DEF TicketsGiven
<1>11. /\ \A s \in Thread \ {Rt} : ThreadKnows(s)'
       /\ \A c \in Client : ClientKnows(c)' /\ (Outdated(c) => Outdated(c)')
  <2>1. \A c \in Client : c \in Client \ {Rt}
    BY <1>4
  <2> QED BY <1>2, <1>3, <1>4, <1>5, <1>6, <2>1, OthersKnow
<1>12. \A r \in Requester : pc'[r] = pc[r]
  BY <1>4, <1>7
<1>13. \A s \in Thread \ {Rt} : CommitPassesNobody(s)'
  BY <1>2, <1>3, <1>4, <1>12, OthersPassNobody
<1>14. gate[Rt] # "commit"
  BY <1>1, <1>4 DEF IInv, ThreadKnows, Gates
<1>15. ThreadKnows(Rt)' /\ CommitPassesNobody(Rt)'
  BY <1>2, <1>8, <1>14 DEF ThreadKnows, CommitPassesNobody
<1>16. AcknowledgedRequestConsumed'
  BY <1>3, <1>12 DEF IInv, AcknowledgedRequestConsumed
<1>17. ReservedAlone'
  <2>1. ReservedAlone /\ FrameAcknowledged
    BY DEF IInv
  <2>2. CASE pc[Rt] = "reserve" /\ pc'[Rt] = "send"
    <3>1. word = seen[Rt] /\ word'.reserved /\ ~word.reserved
      BY <1>1, <2>1, <2>2 DEF RtMoves, FrameAcknowledged
    <3>2. \A c \in Client : ~seen'[c].reserved
      BY <1>24, <2>1, <3>1 DEF ReservedAlone
    <3> QED BY <2>2, <3>1, <3>2 DEF ReservedAlone
  <2>3. CASE pc[Rt] = "send"
    <3>1. ~word'.reserved /\ pc'[Rt] = "idle"
      BY <1>1, <2>3 DEF RtMoves
    <3>2. \A c \in Client : ~seen'[c].reserved
      BY <1>24, <2>1, <2>3 DEF ReservedAlone
    <3> QED BY <3>1, <3>2 DEF ReservedAlone
  <2>4. CASE pc[Rt] # "send" /\ ~(pc[Rt] = "reserve" /\ pc'[Rt] = "send")
    <3>1. word'.reserved = word.reserved /\ pc'[Rt] # "send"
      BY <1>1, <2>4 DEF RtMoves, Same
    <3> QED BY <1>24, <2>4, <3>1, ReservationKept
  <2> QED BY <2>2, <2>3, <2>4
<1>18. FlagUp' /\ (Recovering' => Recovering \/ (pc[Rt] = "ticket" /\ ticket'[Rt] # 0))
  <2>1. FlagUp
    BY DEF IInv
  <2> USE DEF Recovering, Authorized, Claiming, Taking
  <2>2. Recovering' => Recovering \/ (pc[Rt] = "ticket" /\ ticket'[Rt] # 0)
    BY <1>1 DEF RtMoves, Same
  <2>3. pc'[Rt] \in {"load", "ticket"} \/ Recovering' =>
          \/ recovering'
          \/ recovering' = recovering /\ (pc[Rt] \in {"load", "ticket"} \/ Recovering)
    BY <1>1 DEF RtMoves, Same
  <2>4. FlagUp'
    BY <2>1, <2>3 DEF FlagUp
  <2> QED BY <2>2, <2>4
<1>19. LoadedUnderFlag'
  <2>1. SUFFICES ASSUME pc'[Rt] = "ticket" PROVE LoadedUnderFlag'
    BY DEF LoadedUnderFlag
  <2>2. seen'[Rt] = word /\ word' = word
    BY <1>1, <2>1 DEF RtMoves
  <2> QED BY <1>10, <2>2 DEF LoadedUnderFlag, TicketsGiven
<1>20. AuthorityHeld'
  <2>1. AuthorityHeld
    BY DEF IInv
  <2>2. pc'[Rt] \in Authorized => lease' = lease /\ word.owner = "SAFETY" /\ word.gen = lease[Rt]
    BY <1>1, <2>1 DEF RtMoves, AuthorityHeld, Authorized, Claiming, Same
  <2> QED BY <1>3, <2>2 DEF AuthorityHeld
<1>21. ConsumedApplied'
  <2>1. ConsumedApplied
    BY DEF IInv
  <2> QED BY <1>1, <2>1 DEF RtMoves, ConsumedApplied, Claiming, Same
<1>22. FrameAcknowledged'
  <2>1. SUFFICES ASSUME pc'[Rt] = "reserve"
                 PROVE  /\ ~seen'[Rt].reserved
                        /\ seen'[Rt].owner # "SAFETY" => seen'[Rt].ticket <= acked'
    BY DEF FrameAcknowledged
  <2>2. seen'[Rt] = word /\ ~word.reserved /\ (word.owner # "SAFETY" => word.ticket = acked)
    BY <1>1, <2>1 DEF RtMoves
  <2> QED BY <1>3, <1>6, <2>2
<1>23. ReleasesOutdated'
  <2>1. \A c \in Client : pc'[c] = pc[c] /\ (Outdated(c) => Outdated(c)')
    BY <1>4, <1>7, <1>11
  <2>2. ReleasesOutdated /\ LoadedUnderFlag /\ \A c \in Client : ClientKnows(c)
    BY DEF IInv
  <2>3. CASE pc[Rt] = "ticket"
    <3>1. ticket'[Rt] # 0 => acked < word'.ticket
      <4>1. /\ acked <= seen[Rt].ticket /\ seen[Rt].ticket <= word.ticket /\ acked <= word.ticket
            /\ seen[Rt].ticket \in Nat /\ word.ticket \in Nat
        BY <2>2, <2>3, <1>4 DEF LoadedUnderFlag, IInv, TicketsGiven, Numbers
      <4>2. seen[Rt].ticket \in {0, acked} => word'.ticket = word.ticket + 1 \/ ticket'[Rt] = 0
        BY <1>1, <2>3 DEF RtMoves
      <4>3. CASE seen[Rt].ticket \in {0, acked}
        BY <4>1, <4>2, <4>3, <1>6
      <4>4. CASE seen[Rt].ticket # acked
        BY <4>1, <4>4, <1>3, <1>6
      <4> QED BY <4>3, <4>4
    <3>2. ASSUME NEW c \in Client, pc[c] \in {"mailboxes", "stopping", "swap"}, ticket'[Rt] # 0
          PROVE  Outdated(c)'
      <4>1. seen[c].ticket <= acked /\ seen'[c] = seen[c] /\ seen[c].ticket \in Nat
        <5>1. ClientKnows(c) /\ pc[c] \in Comparing /\ c \in Thread /\ c # Rt
          BY <3>2, <2>2, <1>4 DEF Comparing
        <5> QED BY <5>1, <1>4, <1>7 DEF ClientKnows, Numbers
      <4>2. seen'[c].ticket < word'.ticket
        BY <3>1, <3>2, <4>1, <1>6
      <4> QED BY <4>2 DEF Outdated
    <3>3. pc'[Rt] = "take" /\ controlledStop' = controlledStop /\ (Recovering' => ticket'[Rt] # 0)
      BY <1>1, <2>3 DEF RtMoves, Same, Recovering, Authorized, Claiming
    <3> QED BY <2>1, <2>2, <3>2, <3>3 DEF ReleasesOutdated
  <2>4. CASE pc[Rt] # "ticket"
    <3>1. Recovering' => Recovering
      BY <2>4, <1>18
    <3>2. controlledStop' => controlledStop \/ Recovering
      BY <1>1 DEF RtMoves, Same, Recovering, Authorized, Claiming
    <3> QED BY <2>1, <2>2, <3>1, <3>2 DEF ReleasesOutdated
  <2> QED BY <2>3, <2>4
<1> QED BY <1>5, <1>9, <1>10, <1>11, <1>13, <1>15, <1>16, <1>17, <1>18, <1>19, <1>20, <1>21,
           <1>22, <1>23 DEF IInv

-----------------------------------------------------------------------------
LEMMA StepIInv == IInv /\ [Next]_vars => IInv'
<1>1. ASSUME IInv, Next PROVE IInv'
  <2>1. CASE RtStep
    BY <1>1, <2>1, RtIInv, TakeIInv, AckIInv DEF RtStep
  <2>2. CASE \E r \in Requester : RequesterStep(r)
    BY <1>1, <2>2, CallIInv, TakeIInv DEF RequesterStep, Call
  <2>3. CASE \E t \in Taker : TakerStep(t)
    BY <1>1, <2>3, CallIInv, TakeIInv, AckIInv DEF TakerStep, Call
  <2>4. CASE \E c \in Client : ClientStep(c)
    BY <1>1, <2>4, ClientIInv
  <2> QED BY <1>1, <2>1, <2>2, <2>3, <2>4 DEF Next
<1>2. ASSUME IInv, UNCHANGED vars PROVE IInv'
  <2> USE DEF vars, shared, requests, locals
  <2>1. TypeOK' /\ Counted' /\ TicketsGiven' /\ ReservedAlone'
    BY <1>2 DEF IInv, TypeOK, Counted, Calling, TicketsGiven, ReservedAlone
  <2>2. \A t \in Thread : ThreadKnows(t)' /\ CommitPassesNobody(t)'
    BY <1>2 DEF IInv, ThreadKnows, CommitPassesNobody, Newer
  <2>3. \A c \in Client : ClientKnows(c)' /\ (Outdated(c)' <=> Outdated(c))
    BY <1>2 DEF IInv, ClientKnows, Outdated
  <2>4. FlagUp' /\ LoadedUnderFlag' /\ AuthorityHeld' /\ ConsumedApplied'
    BY <1>2 DEF IInv, FlagUp, Recovering, LoadedUnderFlag, AuthorityHeld, ConsumedApplied
  <2>5. ReleasesOutdated'
    BY <1>2, <2>3 DEF IInv, ReleasesOutdated, Recovering
  <2>6. FrameAcknowledged' /\ AcknowledgedRequestConsumed'
    BY <1>2 DEF IInv, FrameAcknowledged, AcknowledgedRequestConsumed
  <2> QED BY <2>1, <2>2, <2>3, <2>4, <2>5, <2>6 DEF IInv
<1> QED BY <1>1, <1>2

(* The inductive invariant holds in every reachable state.                 *)
THEOREM Invariant == Spec => []IInv
BY InitIInv, StepIInv, PTL DEF Spec

(* Every field of the two words and of the local state keeps its type.     *)
THEOREM TypesKept == Spec => []TypeOK
<1>1. IInv => TypeOK
  BY DEF IInv
<1> QED BY <1>1, Invariant, PTL

(* The motion thread stops the group only under the SAFETY lease that its  *)
(* pass validated, whoever moved the word since.                           *)
THEOREM StopsUnderSafety == Spec => []AppliedUnderSafety
<1>1. IInv => AppliedUnderSafety
  BY DEF IInv, AuthorityHeld, Authorized, Claiming, AppliedUnderSafety
<1> QED BY <1>1, Invariant, PTL

(* No acknowledgement passes a request that has yet to post its mailbox or *)
(* whose mailbox has yet to be taken.                                      *)
THEOREM AcknowledgementsPassNobody == Spec => []AcknowledgedRequestConsumed
<1>1. IInv => AcknowledgedRequestConsumed
  BY DEF IInv
<1> QED BY <1>1, Invariant, PTL

(* The tickets of a request that is owed: an acknowledgement equal to the  *)
(* word's ticket has passed everybody outside an applying pass.            *)
LEMMA OwedIsOutstanding ==
  ASSUME IInv, NEW r \in Requester, Owed(r), word.ticket <= acked
  PROVE  consumed # {} /\ pc[Rt] \in Claiming
<1>1. granted[r] \in Nat /\ acked \in Nat /\ granted[r] # 0 /\ word.ticket \in Nat
  BY Typed DEF IInv, Numbers, Owed
<1>2. granted[r] <= word.ticket
  BY DEF IInv, TicketsGiven
<1>3. granted[r] \in 1 .. acked
  BY <1>1, <1>2
<1>4. r \in consumed
  BY <1>3 DEF IInv, AcknowledgedRequestConsumed, Owed
<1> QED BY <1>4 DEF IInv, ConsumedApplied

(* A frame and a release never hold the word together, no two releases do, *)
(* and no reservation is left behind, which would refuse every later       *)
(* ticket.                                                                 *)
THEOREM ReservationsHeldByOne == Spec => []ReservedAlone
<1>1. IInv => ReservedAlone
  BY DEF IInv
<1> QED BY <1>1, Invariant, PTL

(* While a request is owed, either its ticket is outstanding or SAFETY     *)
(* owns the motion.                                                        *)
THEOREM OwedRequestsHold == Spec => []OwedRequestHoldsMotion
<1>1. ASSUME IInv, NEW r \in Requester, Owed(r), word.ticket = acked
      PROVE  word.owner = "SAFETY"
  <2>1. word.ticket <= acked
    BY <1>1, Typed DEF IInv, Numbers
  <2>2. pc[Rt] \in Authorized
    BY <1>1, <2>1, OwedIsOutstanding DEF Authorized
  <2> QED BY <1>1, <2>2 DEF IInv, AuthorityHeld
<1>2. IInv => OwedRequestHoldsMotion
  BY <1>1 DEF OwedRequestHoldsMotion
<1> QED BY <1>2, Invariant, PTL

(* Who changes the owner of the word, and who reserves it.                 *)
LEMMA OwnerChange ==
  ASSUME IInv, Next, word'.owner # word.owner
  PROVE  \/ word.owner # "SAFETY" /\ word'.owner = "SAFETY"
         \/ \E c \in Client : pc[c] = "swap" /\ word = seen[c]
<1>1. ASSUME NEW t \in Requester \cup Taker, Call(t) PROVE FALSE
  BY <1>1, CallEffect
<1>2. ASSUME NEW t \in Requester \cup Taker \cup {Rt}, Take(t)
      PROVE  word.owner # "SAFETY" /\ word'.owner = "SAFETY"
  BY <1>2, TakeEffect
<1>3. ASSUME NEW t \in Taker \cup {Rt}, Acknowledge(t) PROVE FALSE
  BY <1>3, AckEffect
<1>4. ASSUME RtOwnStep PROVE FALSE
  BY <1>4, RtReadEffect, RtWordEffect, RtApplyEffect DEF RtOwnStep, RtChanges
<1>5. ASSUME NEW c \in Client, ClientStep(c) PROVE pc[c] = "swap" /\ word = seen[c]
  BY <1>5, ClientEffect
<1> QED BY <1>1, <1>2, <1>3, <1>4, <1>5 DEF Next, RtStep, RequesterStep, TakerStep, Call

LEMMA Reservation ==
  ASSUME IInv, Next, ~word.reserved, word'.reserved
  PROVE  \/ pc[Rt] = "reserve" /\ word = seen[Rt]
         \/ word.owner = "SAFETY"
<1>1. ASSUME NEW t \in Requester \cup Taker, Call(t) PROVE FALSE
  BY <1>1, CallEffect
<1>2. ASSUME NEW t \in Requester \cup Taker \cup {Rt}, Take(t) PROVE FALSE
  BY <1>2, TakeEffect
<1>3. ASSUME NEW t \in Taker \cup {Rt}, Acknowledge(t) PROVE FALSE
  BY <1>3, AckEffect
<1>4. ASSUME RtOwnStep PROVE pc[Rt] = "reserve" /\ word = seen[Rt]
  <2>1. RtMoves
    BY <1>4, RtReadEffect, RtWordEffect, RtApplyEffect DEF RtOwnStep
  <2> QED BY <2>1 DEF RtMoves, Same
<1>5. ASSUME NEW c \in Client, ClientStep(c) PROVE word.owner = "SAFETY"
  <2>1. ClientReserves(c)
    BY <1>5, ClientEffect DEF ReservationMoves
  <2> QED BY <2>1 DEF ClientReserves, IInv, ClientKnows
<1> QED BY <1>1, <1>2, <1>3, <1>4, <1>5 DEF Next, RtStep, RequesterStep, TakerStep, Call

(* An outstanding ticket fences the word: its owner changes to SAFETY only *)
(* and never away from it, whatever the clients loaded before.             *)
THEOREM OutstandingTicketFences == Spec => OutstandingTicketFencesOwner
<1>1. ASSUME IInv, Next, word.ticket # acked, word'.owner # word.owner
      PROVE  word'.owner = "SAFETY"
  <2>1. CASE \E c \in Client : pc[c] = "swap" /\ word = seen[c]
    <3>1. PICK c \in Client : pc[c] = "swap" /\ word = seen[c]
      BY <2>1
    <3>2. word.ticket <= acked /\ acked <= word.ticket
      BY <1>1, <3>1 DEF IInv, ClientKnows, Comparing, TicketsGiven
    <3>3. word.ticket \in Nat /\ acked \in Nat
      BY <1>1, Typed DEF IInv, Numbers
    <3> QED BY <1>1, <3>2, <3>3
  <2> QED BY <1>1, <2>1, OwnerChange
<1>2. IInv /\ [Next]_vars => [word.ticket # acked /\ word'.owner # word.owner
                                => word'.owner = "SAFETY"]_vars
  BY <1>1
<1> QED BY <1>2, Invariant, PTL DEF Spec, OutstandingTicketFencesOwner

(* SAFETY is given up only when no request is owed and no controlled stop  *)
(* is running.                                                             *)
THEOREM SafetyReleases == Spec => SafetyReleasedWhenApplied
<1>1. ASSUME IInv, Next, word.owner = "SAFETY", word'.owner # "SAFETY"
      PROVE  ~controlledStop /\ consumed = {} /\ \A r \in Requester : ~Owed(r)
  <2>1. PICK c \in Client : pc[c] = "swap" /\ word = seen[c]
    BY <1>1, OwnerChange
  <2>2. ~controlledStop /\ consumed = {}
    BY <1>1, <2>1, SwapOutdated
  <2>3. word.ticket <= acked
    BY <1>1, <2>1 DEF IInv, ClientKnows, Comparing
  <2> QED BY <1>1, <2>2, <2>3, OwedIsOutstanding
<1>2. IInv /\ [Next]_vars =>
        [word.owner = "SAFETY" /\ word'.owner # "SAFETY"
           => ~controlledStop /\ consumed = {} /\ \A r \in Requester : ~Owed(r)]_vars
  BY <1>1
<1> QED BY <1>2, Invariant, PTL DEF Spec, SafetyReleasedWhenApplied

(* No frame of ordinary motion is reserved while a request that has its    *)
(* ticket is owed.                                                         *)
THEOREM OwedRequestsStopFrames == Spec => OwedRequestStopsOrdinaryFrames
<1>1. ASSUME IInv, Next, ~word.reserved, word'.reserved, word.owner # "SAFETY",
             NEW r \in Requester
      PROVE  ~Owed(r)
  <2>1. pc[Rt] = "reserve" /\ word = seen[Rt]
    BY <1>1, Reservation
  <2>2. word.ticket <= acked
    BY <1>1, <2>1 DEF IInv, FrameAcknowledged
  <2>3. pc[Rt] \notin Claiming
    BY <2>1 DEF Claiming
  <2> QED BY <1>1, <2>2, <2>3, OwedIsOutstanding
<1>2. IInv /\ [Next]_vars =>
        [~word.reserved /\ word'.reserved /\ word.owner # "SAFETY"
           => \A r \in Requester : ~Owed(r)]_vars
  BY <1>1
<1> QED BY <1>2, Invariant, PTL DEF Spec, OwedRequestStopsOrdinaryFrames
===============================================================================
