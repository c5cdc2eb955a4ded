--------------------- MODULE SafetyEpochHandshake_proofs ---------------------
(***************************************************************************)
(* Proofs about SafetyEpochHandshake, for every number of helpers,         *)
(* publishers and committers, of requests, generations and epochs.         *)
(*                                                                         *)
(* The argument: as long as the handshake of a generation is open and not  *)
(* fenced, only ordinary epochs follow the one its helpers claimed; who    *)
(* holds the epoch published last and may exchange it holds it because     *)
(* the handshake is still like that (Predecessor), and who acknowledges    *)
(* has seen the fence (Confirming).  A helper of an older generation finds *)
(* a claim or an acknowledgement of its own, and stops there.              *)
(***************************************************************************)
EXTENDS SafetyEpochHandshake, TLAPS

HelperLabel == {"idle", "attempt", "inspect", "close", "claim", "recheck", "reread",
                "publish", "advance", "confirm", "acknowledge"}
PublisherLabel == {"idle", "load", "recheck", "publish", "abort", "abort load",
                   "abort swap", "abort end"}
RtLabel == {"idle", "load", "recheck", "publish"}
CommitterLabel == {"idle", "reserve", "recheck", "commit", "release"}

Labels ==
  /\ \A h \in Helper : pc[h] \in HelperLabel
  /\ \A p \in Publisher : pc[p] \in PublisherLabel
  /\ pc[Rt] \in RtLabel
  /\ \A c \in Committer : pc[c] \in CommitterLabel

(* The ticket is ahead of the acknowledgement; an aborting publication     *)
(* holds both still, and an open handshake belongs to SAFETY.              *)
WordFits ==
  /\ acked <= word.ticket /\ word.gen >= 1
  /\ word.handshake => word.owner = "SAFETY"
  /\ word.reserved => word.owner = "PROGRAM" /\ ~word.handshake /\ ~Unacknowledged

(* Epochs only go up, and an epoch has one source.                         *)
EpochsFit ==
  /\ pub.epoch >= 1
  /\ claim.epoch <= pub.epoch /\ epochAck.epoch <= pub.epoch
  /\ epochAck.gen # 0 => epochAck.epoch # 0
  /\ fenced => pub.source = "SAFETY"
  /\ pub.epoch = 1 => pub.source = "ordinary"

SeenFits(t) ==
  /\ 1 <= seenPub[t].epoch /\ seenPub[t].epoch <= pub.epoch
  /\ seenPub[t].epoch = pub.epoch => seenPub[t].source = pub.source

Abort == {"abort load", "abort swap", "abort end"}

Aborting(p) ==
  /\ pc[p] = "abort" =>
       /\ seenWord[p].owner = "PROGRAM" /\ ~seenWord[p].handshake /\ ~seenWord[p].reserved
       /\ seenWord[p].ticket <= acked
  /\ pc[p] \in Abort => word.reserved /\ word.gen = seenWord[p].gen

OneAborts == \A p, q \in Publisher : pc[p] \in Abort /\ pc[q] \in Abort => p = q

Reserving == {"recheck", "commit", "release"}

Committing(c) == pc[c] \in Reserving => pub = seenPub[c] /\ pub.reserved

OneCommits == \A c, d \in Committer : pc[c] \in Reserving /\ pc[d] \in Reserving => c = d

(* The handshake of generation g waits for its SAFETY epoch.               *)
Open(g) == word.owner = "SAFETY" /\ word.gen = g /\ word.handshake /\ ~fenced

(* An ordinary publisher that can still succeed is not behind the fence.   *)
Publishing(p) ==
  /\ pc[p] \in {"load", "recheck", "publish"} => seenWord[p].owner # "SAFETY"
  /\ pc[p] = "publish" /\ word.owner = "SAFETY" /\ fenced => seenPub[p].epoch < pub.epoch
  /\ pc[p] \in {"recheck", "publish", "abort swap"} => ~seenPub[p].reserved

RtPublishing ==
  /\ pc[Rt] # "idle" => word.owner = "SAFETY" /\ ~word.handshake /\ Unacknowledged
  /\ pc[Rt] \in {"recheck", "publish"} => ~seenPub[Rt].reserved

(* The claim and the acknowledgement belong to takeovers that have begun;  *)
(* the fence comes after the claim and before the acknowledgement.         *)
Takeover ==
  /\ epochAck.gen <= claim.gen /\ claim.gen <= word.gen
  /\ word.owner = "SAFETY" /\ fenced => claim.gen = word.gen
  /\ word.owner = "SAFETY" /\ epochAck.gen = word.gen => fenced
  /\ word.owner = "SAFETY" /\ ~word.handshake => epochAck.gen = word.gen
  /\ claim.epoch = pub.epoch => Open(claim.gen) \/ epochAck.gen = claim.gen
  /\ Open(claim.gen) /\ claim.epoch < pub.epoch => pub.source = "ordinary"

(* A helper of generation g.                                               *)
Helping(h) ==
  LET g == seenWord[h].gen IN
  pc[h] # "idle" =>
    /\ 1 <= g /\ g <= word.gen
    /\ g = word.gen => word.owner = "SAFETY"
    /\ claim.gen < g => Open(g)
    /\ epochAck.gen < g => word.gen = g /\ word.handshake
    /\ pc[h] = "close" => epochAck.gen >= g

(* What it holds of the claim and of the publication.                      *)
Predecessor(h) ==
  LET g == seenWord[h].gen IN
  /\ seenClaim[h].epoch <= pub.epoch
  /\ pc[h] \in {"claim", "publish", "advance"} =>
       (Open(g) /\ seenPub[h].epoch < pub.epoch => pub.source = "ordinary")
  /\ pc[h] \in {"recheck", "reread", "publish", "advance"} =>
       /\ seenClaim[h].gen = g /\ claim.gen >= g
       /\ Open(g) /\ seenClaim[h].epoch < pub.epoch => pub.source = "ordinary"
  /\ pc[h] = "recheck" =>
       /\ seenClaim[h].epoch = pub.epoch => Open(g) \/ epochAck.gen = g
       /\ g < word.gen /\ word.owner = "SAFETY" /\ fenced => seenClaim[h].epoch < pub.epoch
  /\ pc[h] \in {"reread", "publish"} => (seenClaim[h].epoch = pub.epoch => Open(g))
  /\ pc[h] = "publish" => seenPub[h].epoch = seenClaim[h].epoch /\ ~seenPub[h].reserved
  /\ pc[h] = "advance" => seenPub[h].source = "ordinary"

Confirming(h) ==
  pc[h] \in {"confirm", "acknowledge"} =>
    /\ claim.gen >= seenWord[h].gen
    /\ word.gen = seenWord[h].gen => fenced

Globally == WordFits /\ EpochsFit /\ Takeover
HelperFits(h) == Helping(h) /\ Predecessor(h) /\ Confirming(h)
PublisherFits(p) == Publishing(p) /\ Aborting(p)

-----------------------------------------------------------------------------
Label == HelperLabel \cup PublisherLabel \cup RtLabel \cup CommitterLabel

GlobalsTyped ==
  /\ word \in Word /\ acked \in Nat /\ pub \in Publication
  /\ claim \in GenEpoch /\ epochAck \in GenEpoch /\ fenced \in BOOLEAN

LocalsTyped ==
  /\ pc \in [Thread -> Label] /\ seenWord \in [Thread -> Word]
  /\ seenPub \in [Thread -> Publication] /\ seenClaim \in [Thread -> GenEpoch]

IInv ==
  /\ GlobalsTyped /\ LocalsTyped /\ Labels
  /\ Globally /\ OneAborts /\ OneCommits /\ RtPublishing
  /\ \A t \in Thread : SeenFits(t)
  /\ \A h \in Helper : HelperFits(h)
  /\ \A p \in Publisher : PublisherFits(p)
  /\ \A c \in Committer : Committing(c)

(* What every step does to the words: how the facts a thread rests on may  *)
(* change while it stands still.                                           *)
Advances ==
  /\ word.gen <= word'.gen /\ claim.gen <= claim'.gen /\ epochAck.gen <= epochAck'.gen
  /\ pub.epoch <= pub'.epoch /\ acked <= acked'
  /\ pub'.epoch = pub.epoch => pub'.source = pub.source
  /\ word'.gen = word.gen =>
       word'.owner = word.owner /\ (word.owner = "SAFETY" /\ fenced => fenced')
  /\ \A g \in Nat : Open(g) => Open(g)' \/ (pub.epoch < pub'.epoch /\ g <= claim.gen)
  /\ \A g \in Nat : Open(g)' /\ g <= word.gen =>
       Open(g) /\ (pub'.epoch = pub.epoch \/ pub'.source = "ordinary")
  /\ word.handshake /\ epochAck'.gen < word.gen => word'.gen = word.gen /\ word'.handshake
  /\ epochAck'.gen # epochAck.gen =>
       epochAck'.gen = word.gen /\ word.owner = "SAFETY" /\ fenced
  /\ word'.owner = "SAFETY" /\ fenced' =>
       pub.epoch < pub'.epoch \/ (fenced /\ word.owner = "SAFETY" /\ word'.gen = word.gen)
  /\ word.reserved => word'.gen = word.gen

Still(u) ==
  /\ pc'[u] = pc[u] /\ seenWord'[u] = seenWord[u]
  /\ seenPub'[u] = seenPub[u] /\ seenClaim'[u] = seenClaim[u]

(* A step of thread t, after which it stands at l with these locals.       *)
Moves(t, l, w, p, c) ==
  /\ pc'[t] = l /\ seenWord'[t] = w /\ seenPub'[t] = p /\ seenClaim'[t] = c
  /\ \A u \in Thread \ {t} : Still(u)
  /\ LocalsTyped'

LEMMA Disjoint ==
  /\ \A h \in Helper : h \in Thread /\ h \notin Publisher /\ h \notin Committer /\ h # Rt
  /\ \A p \in Publisher : p \in Thread /\ p \notin Helper /\ p \notin Committer /\ p # Rt
  /\ \A c \in Committer : c \in Thread /\ c \notin Helper /\ c \notin Publisher /\ c # Rt
  /\ Rt \in Thread /\ Rt \notin Helper /\ Rt \notin Publisher /\ Rt \notin Committer
BY ThreadAssumption DEF Thread

LEMMA InitialTypes ==
  NoMotion \in Word /\ FirstEpoch \in Publication /\ Nothing \in GenEpoch
BY DEF NoMotion, Word, FirstEpoch, Publication, Nothing, GenEpoch

LEMMA ReturnMoves ==
  ASSUME LocalsTyped, NEW t \in Thread, Return(t)
  PROVE  Moves(t, "idle", NoMotion, FirstEpoch, Nothing)
<1>1. "idle" \in Label
  BY DEF Label, HelperLabel
<1>2. LocalsTyped'
  BY <1>1, InitialTypes DEF LocalsTyped, Return, Goto
<1>3. pc'[t] = "idle" /\ \A u \in Thread \ {t} : pc'[u] = pc[u]
  BY DEF LocalsTyped, Return, Goto
<1>4. seenWord'[t] = NoMotion /\ \A u \in Thread \ {t} : seenWord'[u] = seenWord[u]
  BY DEF LocalsTyped, Return
<1>5. seenPub'[t] = FirstEpoch /\ \A u \in Thread \ {t} : seenPub'[u] = seenPub[u]
  BY DEF LocalsTyped, Return
<1>6. seenClaim'[t] = Nothing /\ \A u \in Thread \ {t} : seenClaim'[u] = seenClaim[u]
  BY DEF LocalsTyped, Return
<1> QED BY <1>2, <1>3, <1>4, <1>5, <1>6 DEF Moves, Still

LEMMA ContinueMoves ==
  ASSUME LocalsTyped, NEW t \in Thread, NEW l \in Label, Continue(t, l)
  PROVE  Moves(t, l, seenWord[t], seenPub[t], seenClaim[t])
<1>1. LocalsTyped'
  BY DEF LocalsTyped, Continue, Goto, locals
<1>2. pc'[t] = l /\ \A u \in Thread \ {t} : pc'[u] = pc[u]
  BY DEF LocalsTyped, Continue, Goto
<1> QED BY <1>1, <1>2 DEF Moves, Still, Continue, locals

LEMMA LoadWordMoves ==
  ASSUME LocalsTyped, word \in Word, NEW t \in Thread, NEW l \in Label,
         LoadWord(t), Goto(t, l), UNCHANGED <<seenPub, seenClaim>>
  PROVE  Moves(t, l, word, seenPub[t], seenClaim[t])
<1>1. LocalsTyped'
  BY DEF LocalsTyped, LoadWord, Goto
<1>2. pc'[t] = l /\ \A u \in Thread \ {t} : pc'[u] = pc[u]
  BY DEF LocalsTyped, Goto
<1>3. seenWord'[t] = word /\ \A u \in Thread \ {t} : seenWord'[u] = seenWord[u]
  BY DEF LocalsTyped, LoadWord
<1> QED BY <1>1, <1>2, <1>3 DEF Moves, Still

LEMMA LoadPubMoves ==
  ASSUME LocalsTyped, NEW p \in Publication, NEW t \in Thread, NEW l \in Label,
         seenPub' = [seenPub EXCEPT ![t] = p], Goto(t, l), UNCHANGED <<seenWord, seenClaim>>
  PROVE  Moves(t, l, seenWord[t], p, seenClaim[t])
<1>1. LocalsTyped'
  BY DEF LocalsTyped, Goto
<1>2. pc'[t] = l /\ \A u \in Thread \ {t} : pc'[u] = pc[u]
  BY DEF LocalsTyped, Goto
<1>3. seenPub'[t] = p /\ \A u \in Thread \ {t} : seenPub'[u] = seenPub[u]
  BY DEF LocalsTyped
<1> QED BY <1>1, <1>2, <1>3 DEF Moves, Still

LEMMA LoadClaimMoves ==
  ASSUME LocalsTyped, NEW c \in GenEpoch, NEW t \in Thread, NEW l \in Label,
         seenClaim' = [seenClaim EXCEPT ![t] = c], Goto(t, l), UNCHANGED <<seenWord, seenPub>>
  PROVE  Moves(t, l, seenWord[t], seenPub[t], c)
<1>1. LocalsTyped'
  BY DEF LocalsTyped, Goto
<1>2. pc'[t] = l /\ \A u \in Thread \ {t} : pc'[u] = pc[u]
  BY DEF LocalsTyped, Goto
<1>3. seenClaim'[t] = c /\ \A u \in Thread \ {t} : seenClaim'[u] = seenClaim[u]
  BY DEF LocalsTyped
<1> QED BY <1>1, <1>2, <1>3 DEF Moves, Still

-----------------------------------------------------------------------------
(* A thread that stands still keeps what it rests on.                      *)

LEMMA SeenTypes ==
  ASSUME LocalsTyped, NEW t \in Thread
  PROVE  /\ seenWord[t] \in Word /\ seenPub[t] \in Publication /\ seenClaim[t] \in GenEpoch
         /\ seenWord[t].gen \in Nat /\ seenWord[t].ticket \in Nat
         /\ seenPub[t].epoch \in Nat /\ seenClaim[t].gen \in Nat /\ seenClaim[t].epoch \in Nat
BY DEF LocalsTyped, Word, Publication, GenEpoch

LEMMA GlobalTypes ==
  ASSUME GlobalsTyped
  PROVE  /\ word.gen \in Nat /\ word.ticket \in Nat /\ acked \in Nat /\ pub.epoch \in Nat
         /\ claim.gen \in Nat /\ claim.epoch \in Nat
         /\ epochAck.gen \in Nat /\ epochAck.epoch \in Nat
BY DEF GlobalsTyped, Word, Publication, GenEpoch

LEMMA StillSeenFits ==
  ASSUME GlobalsTyped, GlobalsTyped', LocalsTyped, Advances, NEW u \in Thread, Still(u),
         SeenFits(u)
  PROVE  SeenFits(u)'
BY GlobalTypes, SeenTypes DEF SeenFits, Still, Advances, GlobalsTyped, Publication

LEMMA HelpingOn ==
  ASSUME GlobalsTyped, GlobalsTyped', LocalsTyped, Globally, Advances,
         NEW u \in Helper, Helping(u), pc[u] # "idle", seenWord'[u].gen = seenWord[u].gen,
         pc'[u] = "close" => epochAck'.gen >= seenWord[u].gen
  PROVE  Helping(u)'
<1>1. PICK g \in Nat : g = seenWord[u].gen
  BY SeenTypes DEF Thread
<1>2. seenWord'[u].gen = g
  BY <1>1
<1>3. word.gen \in Nat /\ claim.gen \in Nat /\ epochAck.gen \in Nat
  BY GlobalTypes
<1>4. word'.gen \in Nat /\ claim'.gen \in Nat /\ epochAck'.gen \in Nat
  BY DEF GlobalsTyped, Word, GenEpoch
<1>5. SUFFICES /\ 1 <= g /\ g <= word'.gen
               /\ g = word'.gen => word'.owner = "SAFETY"
               /\ claim'.gen < g => Open(g)'
               /\ epochAck'.gen < g => word'.gen = g /\ word'.handshake
  BY <1>1, <1>2 DEF Helping, Open
<1>6. /\ 1 <= g /\ g <= word.gen
      /\ g = word.gen => word.owner = "SAFETY"
      /\ claim.gen < g => Open(g)
      /\ epochAck.gen < g => word.gen = g /\ word.handshake
  BY <1>1 DEF Helping, Open
<1>7. 1 <= g /\ g <= word'.gen
  BY <1>3, <1>4, <1>6 DEF Advances
<1>8. g = word'.gen => word'.owner = "SAFETY"
  BY <1>3, <1>4, <1>6 DEF Advances
<1>9. claim'.gen < g => Open(g)'
  <2>1. SUFFICES ASSUME claim'.gen < g PROVE Open(g)'
    OBVIOUS
  <2>2. claim.gen < g
    BY <2>1, <1>3, <1>4 DEF Advances
  <2>3. Open(g)' \/ g <= claim.gen
    BY <2>2, <1>6 DEF Advances
  <2> QED BY <2>2, <2>3, <1>3
<1>10. epochAck'.gen < g => word'.gen = g /\ word'.handshake
  BY <1>3, <1>4, <1>6 DEF Advances
<1> QED BY <1>7, <1>8, <1>9, <1>10

LEMMA StillHelping ==
  ASSUME GlobalsTyped, GlobalsTyped', LocalsTyped, Globally, Advances,
         NEW u \in Helper, Still(u), Helping(u)
  PROVE  Helping(u)'
<1>1. CASE pc[u] = "idle"
  BY <1>1 DEF Helping, Still
<1>2. CASE pc[u] # "idle"
  <2>1. epochAck.gen \in Nat /\ epochAck'.gen \in Nat /\ seenWord[u].gen \in Nat
    BY SeenTypes, GlobalTypes DEF GlobalsTyped, GenEpoch, Thread
  <2>2. pc'[u] = "close" => epochAck'.gen >= seenWord[u].gen
    BY <1>2, <2>1 DEF Helping, Still, Advances
  <2> QED BY <1>2, <2>2, HelpingOn DEF Still
<1> QED BY <1>1, <1>2

LEMMA StillPredecessor ==
  ASSUME GlobalsTyped, GlobalsTyped', LocalsTyped, Globally, Advances,
         NEW u \in Helper, Still(u), SeenFits(u), Helping(u), Predecessor(u),
         pc[u] # "idle"
  PROVE  Predecessor(u)'
<1>1. PICK g \in Nat : g = seenWord[u].gen
  BY SeenTypes DEF Thread
<1>2. PICK e \in Nat, d \in Nat : e = seenClaim[u].epoch /\ d = seenPub[u].epoch
  BY SeenTypes DEF Thread
<1>3. /\ seenWord'[u].gen = g /\ seenClaim'[u].epoch = e /\ seenPub'[u].epoch = d
      /\ pc'[u] = pc[u] /\ seenPub'[u] = seenPub[u] /\ seenClaim'[u] = seenClaim[u]
  BY <1>1, <1>2 DEF Still
<1>4. /\ word.gen \in Nat /\ claim.gen \in Nat /\ epochAck.gen \in Nat /\ pub.epoch \in Nat
      /\ word'.gen \in Nat /\ claim'.gen \in Nat /\ epochAck'.gen \in Nat /\ pub'.epoch \in Nat
  BY GlobalTypes DEF GlobalsTyped, Word, Publication, GenEpoch
<1>5. g <= word.gen /\ d <= pub.epoch
  BY <1>1, <1>2 DEF Helping, SeenFits
<1>6. /\ word.gen <= word'.gen /\ claim.gen <= claim'.gen /\ pub.epoch <= pub'.epoch
      /\ pub'.epoch = pub.epoch => pub'.source = pub.source
  BY DEF Advances
<1>7. Open(g)' => Open(g) /\ (pub'.epoch = pub.epoch \/ pub'.source = "ordinary")
  BY <1>5 DEF Advances
<1>8. Open(g) => Open(g)' \/ pub.epoch < pub'.epoch
  BY DEF Advances
<1>9. e <= pub'.epoch
  BY <1>2, <1>4, <1>6 DEF Predecessor
<1>10. ASSUME NEW k \in Nat, k <= pub.epoch, Open(g) /\ k < pub.epoch => pub.source = "ordinary"
       PROVE  Open(g)' /\ k < pub'.epoch => pub'.source = "ordinary"
  BY <1>4, <1>6, <1>7, <1>10
<1>11. pc[u] \in {"claim", "publish", "advance"} =>
         (Open(g)' /\ d < pub'.epoch => pub'.source = "ordinary")
  BY <1>1, <1>2, <1>5, <1>10 DEF Predecessor
<1>12. pc[u] \in {"recheck", "reread", "publish", "advance"} =>
         /\ seenClaim[u].gen = g /\ claim'.gen >= g
         /\ Open(g)' /\ e < pub'.epoch => pub'.source = "ordinary"
  <2>1. e <= pub.epoch
    BY <1>2 DEF Predecessor
  <2>2. SUFFICES ASSUME pc[u] \in {"recheck", "reread", "publish", "advance"}
        PROVE  /\ seenClaim[u].gen = g /\ claim'.gen >= g
               /\ Open(g)' /\ e < pub'.epoch => pub'.source = "ordinary"
    OBVIOUS
  <2>3. /\ seenClaim[u].gen = g /\ claim.gen >= g
        /\ Open(g) /\ e < pub.epoch => pub.source = "ordinary"
    BY <1>1, <1>2, <2>2 DEF Predecessor
  <2>4. claim'.gen >= g
    BY <2>3, <1>4, <1>6
  <2> QED BY <2>1, <2>3, <2>4, <1>10
<1>13. pc[u] = "recheck" =>
         /\ e = pub'.epoch => Open(g)' \/ epochAck'.gen = g
         /\ g < word'.gen /\ word'.owner = "SAFETY" /\ fenced' => e < pub'.epoch
  <2>1. SUFFICES ASSUME pc[u] = "recheck"
        PROVE  /\ e = pub'.epoch => Open(g)' \/ epochAck'.gen = g
               /\ g < word'.gen /\ word'.owner = "SAFETY" /\ fenced' => e < pub'.epoch
    OBVIOUS
  <2>2. /\ e <= pub.epoch
        /\ e = pub.epoch => Open(g) \/ epochAck.gen = g
        /\ g < word.gen /\ word.owner = "SAFETY" /\ fenced => e < pub.epoch
    BY <1>1, <1>2, <2>1 DEF Predecessor
  <2>3. ASSUME e = pub'.epoch PROVE Open(g)' \/ epochAck'.gen = g
    <3>1. pub'.epoch = pub.epoch /\ e = pub.epoch
      BY <2>2, <2>3, <1>4, <1>6
    <3>2. CASE Open(g)
      BY <3>1, <3>2, <1>8, <1>4
    <3>3. CASE epochAck.gen = g /\ epochAck'.gen # g
      <4>1. epochAck'.gen = word.gen /\ word.owner = "SAFETY" /\ fenced
        BY <3>3 DEF Advances
      <4>2. g < word.gen
        BY <4>1, <3>3, <1>4, <1>5
      <4> QED BY <4>1, <4>2, <2>2, <3>1, <1>4
    <3> QED BY <3>1, <3>2, <3>3, <2>2
  <2>4. ASSUME g < word'.gen, word'.owner = "SAFETY", fenced' PROVE e < pub'.epoch
    <3>1. CASE pub.epoch < pub'.epoch
      BY <3>1, <2>2, <1>4
    <3>2. CASE fenced /\ word.owner = "SAFETY" /\ word'.gen = word.gen
      BY <3>2, <2>4, <2>2, <1>4, <1>6
    <3> QED BY <2>4, <3>1, <3>2 DEF Advances
  <2> QED BY <2>3, <2>4
<1>14. pc[u] \in {"reread", "publish"} => (e = pub'.epoch => Open(g)')
  BY <1>1, <1>2, <1>4, <1>6, <1>8 DEF Predecessor
<1>15. /\ pc[u] = "publish" => d = e /\ ~seenPub[u].reserved
       /\ pc[u] = "advance" => seenPub[u].source = "ordinary"
  BY <1>2 DEF Predecessor
<1> QED BY <1>3, <1>9, <1>11, <1>12, <1>13, <1>14, <1>15 DEF Predecessor, Open

LEMMA StillConfirming ==
  ASSUME GlobalsTyped, GlobalsTyped', LocalsTyped, Globally, Advances,
         NEW u \in Helper, Still(u), Helping(u), Confirming(u)
  PROVE  Confirming(u)'
<1>1. /\ word.gen \in Nat /\ claim.gen \in Nat /\ word'.gen \in Nat /\ claim'.gen \in Nat
      /\ seenWord[u].gen \in Nat
  BY SeenTypes, GlobalTypes DEF GlobalsTyped, Word, GenEpoch, Thread
<1> QED BY <1>1 DEF Confirming, Helping, Still, Advances

LEMMA StillPublishing ==
  ASSUME GlobalsTyped, GlobalsTyped', LocalsTyped, Advances,
         NEW u \in Publisher, Still(u), SeenFits(u), Publishing(u)
  PROVE  Publishing(u)'
<1>1. pub.epoch \in Nat /\ pub'.epoch \in Nat /\ seenPub[u].epoch \in Nat
  BY SeenTypes, GlobalTypes DEF GlobalsTyped, Publication, Thread
<1>2. seenPub[u].epoch <= pub.epoch /\ pub.epoch <= pub'.epoch
  BY DEF SeenFits, Advances
<1>3. ASSUME pc[u] = "publish", word'.owner = "SAFETY", fenced'
      PROVE  seenPub[u].epoch < pub'.epoch
  <2>1. CASE pub.epoch < pub'.epoch
    BY <2>1, <1>1, <1>2
  <2>2. CASE fenced /\ word.owner = "SAFETY"
    <3>1. seenPub[u].epoch < pub.epoch
      BY <2>2, <1>3 DEF Publishing
    <3> QED BY <3>1, <1>1, <1>2
  <2> QED BY <1>3, <2>1, <2>2 DEF Advances
<1>4. pc'[u] \in {"load", "recheck", "publish"} => seenWord'[u].owner # "SAFETY"
  BY DEF Publishing, Still
<1>5. pc'[u] \in {"recheck", "publish", "abort swap"} => ~seenPub'[u].reserved
  BY DEF Publishing, Still
<1>6. pc'[u] = "publish" /\ word'.owner = "SAFETY" /\ fenced' => seenPub'[u].epoch < pub'.epoch
  BY <1>3 DEF Still
<1> QED BY <1>4, <1>5, <1>6 DEF Publishing

LEMMA StillAborting ==
  ASSUME GlobalsTyped, GlobalsTyped', LocalsTyped, Advances,
         NEW u \in Publisher, Still(u), Aborting(u),
         pc[u] \in Abort => word'.reserved
  PROVE  Aborting(u)'
<1>1. acked \in Nat /\ acked' \in Nat /\ seenWord[u].ticket \in Nat /\ acked <= acked'
  BY SeenTypes, GlobalTypes DEF GlobalsTyped, Thread, Advances
<1>2. pc[u] \in Abort => word'.gen = word.gen
  BY DEF Aborting, Advances
<1> QED BY <1>1, <1>2 DEF Aborting, Still

LEMMA StillHelper ==
  ASSUME GlobalsTyped, GlobalsTyped', LocalsTyped, Globally, Advances,
         NEW u \in Helper, Still(u), SeenFits(u), HelperFits(u)
  PROVE  HelperFits(u)'
<1>1. Helping(u)' /\ Confirming(u)'
  BY StillHelping, StillConfirming DEF HelperFits
<1>2. CASE pc[u] # "idle"
  BY <1>1, <1>2, StillPredecessor DEF HelperFits
<1>3. CASE pc[u] = "idle"
  <2>1. seenClaim[u].epoch <= pub'.epoch
    <3>1. seenClaim[u].epoch <= pub.epoch /\ pub.epoch <= pub'.epoch
      BY DEF HelperFits, Predecessor, Advances
    <3>2. seenClaim[u].epoch \in Nat /\ pub.epoch \in Nat /\ pub'.epoch \in Nat
      BY SeenTypes, GlobalTypes DEF GlobalsTyped, Publication, Thread
    <3> QED BY <3>1, <3>2
  <2>2. Predecessor(u)'
    BY <1>3, <2>1 DEF Predecessor, Still
  <2> QED BY <1>1, <2>2 DEF HelperFits
<1> QED BY <1>2, <1>3

(* The global part of a step that keeps every thread's footing but t's.    *)
Keeps(t) ==
  /\ GlobalsTyped' /\ Globally' /\ Advances
  /\ word.reserved /\ (t \notin Publisher \/ pc[t] \notin Abort) => word'.reserved
  /\ pub.reserved /\ (t \notin Committer \/ pc[t] \notin Reserving) => pub' = pub
  /\ t # Rt /\ pc[Rt] # "idle" => word'.owner = "SAFETY" /\ ~word'.handshake /\ Unacknowledged'

LEMMA OthersKeep ==
  ASSUME IInv, NEW t \in Thread, Keeps(t), \A u \in Thread \ {t} : Still(u)
  PROVE  /\ \A u \in Thread \ {t} : SeenFits(u)'
         /\ \A u \in Helper \ {t} : pc'[u] \in HelperLabel /\ HelperFits(u)'
         /\ \A u \in Publisher \ {t} : pc'[u] \in PublisherLabel /\ PublisherFits(u)'
         /\ \A u \in Committer \ {t} : pc'[u] \in CommitterLabel /\ Committing(u)'
         /\ Rt # t => pc'[Rt] \in RtLabel /\ RtPublishing'
<1> USE DEF IInv
<1>1. \A u \in Thread \ {t} : SeenFits(u)'
  BY StillSeenFits DEF Keeps
<1>2. ASSUME NEW u \in Helper \ {t}
      PROVE  pc'[u] \in HelperLabel /\ HelperFits(u)'
  <2>1. Still(u) /\ SeenFits(u) /\ HelperFits(u) /\ pc[u] \in HelperLabel
    BY Disjoint DEF Labels
  <2> QED BY <2>1, StillHelper DEF Keeps, Still
<1>3. ASSUME NEW u \in Publisher \ {t}
      PROVE  pc'[u] \in PublisherLabel /\ PublisherFits(u)'
  <2>1. Still(u) /\ SeenFits(u) /\ PublisherFits(u) /\ pc[u] \in PublisherLabel
    BY Disjoint DEF Labels
  <2>2. Publishing(u)'
    BY <2>1, StillPublishing DEF Keeps, PublisherFits
  <2>3. ASSUME pc[u] \in Abort PROVE word'.reserved
    <3>1. word.reserved
      BY <2>1, <2>3 DEF PublisherFits, Aborting
    <3>2. t \in Publisher => pc[t] \notin Abort
      BY <2>3 DEF OneAborts
    <3> QED BY <3>1, <3>2 DEF Keeps
  <2>4. Aborting(u)'
    BY <2>1, <2>3, StillAborting DEF Keeps, PublisherFits
  <2> QED BY <2>1, <2>2, <2>4 DEF PublisherFits, Still
<1>4. ASSUME NEW u \in Committer \ {t}
      PROVE  pc'[u] \in CommitterLabel /\ Committing(u)'
  <2>1. Still(u) /\ Committing(u) /\ pc[u] \in CommitterLabel
    BY Disjoint DEF Labels
  <2>2. ASSUME pc[u] \in Reserving PROVE pub' = seenPub[u] /\ pub'.reserved
    <3>1. pub = seenPub[u] /\ pub.reserved
      BY <2>1, <2>2 DEF Committing
    <3>2. t \in Committer => pc[t] \notin Reserving
      BY <2>2 DEF OneCommits
    <3> QED BY <3>1, <3>2 DEF Keeps
  <2> QED BY <2>1, <2>2 DEF Committing, Still
<1>5. ASSUME Rt # t
      PROVE  pc'[Rt] \in RtLabel /\ RtPublishing'
  <2>1. Still(Rt) /\ pc[Rt] \in RtLabel
    BY <1>5, Disjoint DEF Labels
  <2> QED BY <1>5, <2>1 DEF Keeps, Still, RtPublishing
<1> QED BY <1>1, <1>2, <1>3, <1>4, <1>5

LEMMA HelperStep ==
  ASSUME IInv, NEW h \in Helper, Keeps(h), \A u \in Thread \ {h} : Still(u), LocalsTyped',
         pc'[h] \in HelperLabel, SeenFits(h)', HelperFits(h)'
  PROVE  IInv'
<1>1. h \in Thread /\ h \notin Publisher /\ h \notin Committer /\ h # Rt
  BY Disjoint
<1>2. /\ \A u \in Thread : SeenFits(u)'
      /\ \A u \in Helper : pc'[u] \in HelperLabel /\ HelperFits(u)'
      /\ \A u \in Publisher : pc'[u] \in PublisherLabel /\ PublisherFits(u)'
      /\ \A u \in Committer : pc'[u] \in CommitterLabel /\ Committing(u)'
      /\ pc'[Rt] \in RtLabel /\ RtPublishing'
  BY <1>1, OthersKeep
<1>3. /\ \A u \in Publisher : pc'[u] = pc[u]
      /\ \A u \in Committer : pc'[u] = pc[u]
  BY <1>1, Disjoint DEF Still
<1>4. OneAborts' /\ OneCommits'
  BY <1>3 DEF IInv, OneAborts, OneCommits
<1> QED BY <1>2, <1>4 DEF IInv, Labels, Keeps

LEMMA PublisherStep ==
  ASSUME IInv, NEW p \in Publisher, Keeps(p), \A u \in Thread \ {p} : Still(u), LocalsTyped',
         pc'[p] \in PublisherLabel, SeenFits(p)', PublisherFits(p)',
         pc'[p] \in Abort => pc[p] \in Abort \/ ~word.reserved
  PROVE  IInv'
<1>1. p \in Thread /\ p \notin Helper /\ p \notin Committer /\ p # Rt
  BY Disjoint
<1>2. /\ \A u \in Thread : SeenFits(u)'
      /\ \A u \in Helper : pc'[u] \in HelperLabel /\ HelperFits(u)'
      /\ \A u \in Publisher : pc'[u] \in PublisherLabel /\ PublisherFits(u)'
      /\ \A u \in Committer : pc'[u] \in CommitterLabel /\ Committing(u)'
      /\ pc'[Rt] \in RtLabel /\ RtPublishing'
  BY <1>1, OthersKeep
<1>3. /\ \A u \in Publisher \ {p} : pc'[u] = pc[u]
      /\ \A u \in Committer : pc'[u] = pc[u]
  BY <1>1, Disjoint DEF Still
<1>4. OneAborts'
  <2>1. \A q \in Publisher : pc[q] \in Abort => word.reserved
    BY DEF IInv, PublisherFits, Aborting
  <2> QED BY <1>3, <2>1 DEF IInv, OneAborts
<1>5. OneCommits'
  BY <1>3 DEF IInv, OneCommits
<1> QED BY <1>2, <1>4, <1>5 DEF IInv, Labels, Keeps

LEMMA RtStep ==
  ASSUME IInv, Keeps(Rt), \A u \in Thread \ {Rt} : Still(u), LocalsTyped',
         pc'[Rt] \in RtLabel, SeenFits(Rt)', RtPublishing'
  PROVE  IInv'
<1>1. Rt \in Thread /\ Rt \notin Helper /\ Rt \notin Committer /\ Rt \notin Publisher
  BY Disjoint
<1>2. /\ \A u \in Thread : SeenFits(u)'
      /\ \A u \in Helper : pc'[u] \in HelperLabel /\ HelperFits(u)'
      /\ \A u \in Publisher : pc'[u] \in PublisherLabel /\ PublisherFits(u)'
      /\ \A u \in Committer : pc'[u] \in CommitterLabel /\ Committing(u)'
  BY <1>1, OthersKeep
<1>3. /\ \A u \in Publisher : pc'[u] = pc[u]
      /\ \A u \in Committer : pc'[u] = pc[u]
  BY <1>1, Disjoint DEF Still
<1>4. OneAborts' /\ OneCommits'
  BY <1>3 DEF IInv, OneAborts, OneCommits
<1> QED BY <1>2, <1>4 DEF IInv, Labels, Keeps

LEMMA CommitterStep ==
  ASSUME IInv, NEW c \in Committer, Keeps(c), \A u \in Thread \ {c} : Still(u), LocalsTyped',
         pc'[c] \in CommitterLabel, SeenFits(c)', Committing(c)',
         pc'[c] \in Reserving => pc[c] \in Reserving \/ ~pub.reserved
  PROVE  IInv'
<1>1. c \in Thread /\ c \notin Helper /\ c \notin Publisher /\ c # Rt
  BY Disjoint
<1>2. /\ \A u \in Thread : SeenFits(u)'
      /\ \A u \in Helper : pc'[u] \in HelperLabel /\ HelperFits(u)'
      /\ \A u \in Publisher : pc'[u] \in PublisherLabel /\ PublisherFits(u)'
      /\ \A u \in Committer : pc'[u] \in CommitterLabel /\ Committing(u)'
      /\ pc'[Rt] \in RtLabel /\ RtPublishing'
  BY <1>1, OthersKeep
<1>3. /\ \A u \in Committer \ {c} : pc'[u] = pc[u]
      /\ \A u \in Publisher : pc'[u] = pc[u]
  BY <1>1, Disjoint DEF Still
<1>4. OneCommits'
  <2>1. \A d \in Committer : pc[d] \in Reserving => pub.reserved
    BY DEF IInv, Committing
  <2> QED BY <1>3, <2>1 DEF IInv, OneCommits
<1>5. OneAborts'
  BY <1>3 DEF IInv, OneAborts
<1> QED BY <1>2, <1>4, <1>5 DEF IInv, Labels, Keeps

(* A step that is no thread's.                                             *)
LEMMA EnvironmentStep ==
  ASSUME IInv, Keeps(Rt), UNCHANGED <<pc, locals>>, RtPublishing'
  PROVE  IInv'
<1>1. \A u \in Thread : Still(u)
  BY DEF Still, locals
<1>2. LocalsTyped'
  BY DEF IInv, LocalsTyped, locals
<1>3. SeenFits(Rt)'
  BY <1>1, Disjoint, StillSeenFits DEF IInv, Keeps
<1>4. pc'[Rt] \in RtLabel
  BY DEF IInv, Labels
<1> QED BY <1>1, <1>2, <1>3, <1>4, RtStep

-----------------------------------------------------------------------------
(* A step that leaves the takeover where it is.                            *)
Quiet ==
  /\ word'.owner = word.owner /\ word'.gen = word.gen /\ (word'.handshake <=> word.handshake)
  /\ (fenced' <=> fenced)
  /\ pub'.epoch = pub.epoch /\ pub'.source = pub.source
  /\ epochAck' = epochAck /\ claim.gen <= claim'.gen /\ acked <= acked'

LEMMA QuietAdvances ==
  ASSUME GlobalsTyped, GlobalsTyped', Quiet
  PROVE  Advances
<1>1. /\ word.gen \in Nat /\ claim.gen \in Nat /\ epochAck.gen \in Nat /\ pub.epoch \in Nat
  BY GlobalTypes
<1>2. \A g \in Nat : Open(g)' <=> Open(g)
  BY DEF Open, Quiet
<1> QED BY <1>1, <1>2 DEF Advances, Quiet

LEMMA UnchangedKeeps ==
  ASSUME IInv, UNCHANGED globals, NEW t
  PROVE  Keeps(t)
<1>1. GlobalsTyped' /\ Globally'
  BY DEF IInv, GlobalsTyped, Globally, WordFits, EpochsFit, Takeover, Open, Unacknowledged, globals
<1>2. Quiet
  BY GlobalTypes DEF IInv, Quiet, globals
<1>3. Advances
  BY <1>1, <1>2, QuietAdvances DEF IInv
<1>4. Unacknowledged' <=> Unacknowledged
  BY DEF Unacknowledged, globals
<1> QED BY <1>1, <1>3, <1>4 DEF Keeps, IInv, RtPublishing, globals

LEMMA RequestSafetyStep ==
  ASSUME IInv, RequestSafety
  PROVE  IInv'
<1>1. /\ word'.owner = word.owner /\ word'.gen = word.gen /\ word'.ticket = word.ticket + 1
      /\ word'.handshake = word.handshake /\ word'.reserved = word.reserved /\ ~word.reserved
      /\ word' \in Word
      /\ UNCHANGED <<acked, pub, claim, epochAck, fenced, pc, locals>>
  BY DEF RequestSafety, IInv, GlobalsTyped, Word
<1>2. GlobalsTyped'
  BY <1>1 DEF IInv, GlobalsTyped
<1>3. Quiet
  BY <1>1, GlobalTypes DEF IInv, Quiet
<1>4. Advances
  BY <1>2, <1>3, QuietAdvances DEF IInv
<1>5. Globally'
  <2>1. acked <= word'.ticket
    BY <1>1, GlobalTypes DEF IInv, Globally, WordFits
  <2>2. WordFits'
    BY <1>1, <2>1 DEF IInv, Globally, WordFits
  <2> QED BY <1>1, <2>2 DEF IInv, Globally, EpochsFit, Takeover, Open
<1>6. RtPublishing'
  <2>1. Unacknowledged'
    BY <1>1, GlobalTypes DEF IInv, Globally, WordFits, Unacknowledged
  <2> QED BY <1>1, <2>1 DEF IInv, RtPublishing, locals
<1> QED BY <1>1, <1>2, <1>4, <1>5, <1>6, EnvironmentStep DEF Keeps

LEMMA AcknowledgeStep ==
  ASSUME IInv, Acknowledge
  PROVE  IInv'
<1>1. /\ acked' = word.ticket /\ At(Rt, "idle") /\ word.owner = "SAFETY"
      /\ UNCHANGED <<word, pub, claim, epochAck, fenced, pc, locals>>
  BY DEF Acknowledge
<1>2. GlobalsTyped'
  BY <1>1, GlobalTypes DEF IInv, GlobalsTyped
<1>3. Quiet
  BY <1>1, GlobalTypes DEF IInv, Quiet, Globally, WordFits
<1>4. Advances
  BY <1>2, <1>3, QuietAdvances DEF IInv
<1>5. Globally'
  <2>1. acked' <= word.ticket
    BY <1>1, GlobalTypes DEF IInv
  <2>2. WordFits'
    BY <1>1, <2>1 DEF IInv, Globally, WordFits
  <2> QED BY <1>1, <2>2 DEF IInv, Globally, EpochsFit, Takeover, Open
<1>6. RtPublishing'
  BY <1>1 DEF IInv, RtPublishing, At
<1> QED BY <1>1, <1>2, <1>4, <1>5, <1>6, EnvironmentStep DEF Keeps

LEMMA ApplyStep ==
  ASSUME IInv, ApplyPendingExecutionEpochChange
  PROVE  IInv'
<1>1. /\ pub'.epoch = pub.epoch /\ pub'.source = pub.source /\ ~pub.reserved
      /\ pub' \in Publication
      /\ UNCHANGED <<word, acked, claim, epochAck, fenced, pc, locals>>
  BY DEF ApplyPendingExecutionEpochChange, IInv, GlobalsTyped, Publication
<1>2. GlobalsTyped'
  BY <1>1 DEF IInv, GlobalsTyped
<1>3. Quiet
  BY <1>1, GlobalTypes DEF IInv, Quiet
<1>4. Advances
  BY <1>2, <1>3, QuietAdvances DEF IInv
<1>5. Globally'
  BY <1>1 DEF IInv, Globally, WordFits, EpochsFit, Takeover, Open, Unacknowledged
<1>6. RtPublishing'
  BY <1>1 DEF IInv, RtPublishing, Unacknowledged, locals
<1> QED BY <1>1, <1>2, <1>4, <1>5, <1>6, EnvironmentStep DEF Keeps

(* The generation goes up: no handshake was open, and none of an older one *)
(* is left.                                                                *)
Turnover ==
  /\ word'.gen = word.gen + 1 /\ ~word.handshake
  /\ word'.ticket = word.ticket /\ word'.reserved = word.reserved /\ ~word.reserved
  /\ word' \in Word /\ fenced' \in BOOLEAN
  /\ word'.owner = "SAFETY" => word'.handshake /\ ~fenced'
  /\ word'.handshake => word'.owner = "SAFETY"
  /\ fenced' => fenced
  /\ UNCHANGED <<acked, pub, claim, epochAck, pc, locals>>

LEMMA TurnoverStep ==
  ASSUME IInv, Turnover, word.owner = "SAFETY" => pc[Rt] = "idle"
  PROVE  IInv'
<1>0. /\ word.gen \in Nat /\ word.ticket \in Nat /\ acked \in Nat /\ pub.epoch \in Nat
      /\ claim.gen \in Nat /\ claim.epoch \in Nat
      /\ epochAck.gen \in Nat /\ epochAck.epoch \in Nat
  BY GlobalTypes DEF IInv
<1>1. GlobalsTyped'
  BY DEF Turnover, IInv, GlobalsTyped
<1>2. WordFits'
  <2>1. word'.gen >= 1
    BY <1>0 DEF Turnover
  <2> QED BY <2>1 DEF Turnover, IInv, Globally, WordFits
<1>3. EpochsFit'
  BY DEF Turnover, IInv, Globally, EpochsFit
<1>4. Takeover'
  <2>1. epochAck.gen <= claim.gen /\ claim.gen <= word.gen /\ word'.gen = word.gen + 1
    BY DEF Turnover, IInv, Globally, Takeover
  <2>2. epochAck.gen < word'.gen /\ claim.gen < word'.gen
    BY <2>1, <1>0
  <2>3. word'.owner = "SAFETY" => ~fenced' /\ word'.handshake
    BY DEF Turnover
  <2>4. ~Open(claim.gen)
    BY DEF Open, Turnover
  <2>5. claim.epoch = pub.epoch => epochAck.gen = claim.gen
    BY <2>4 DEF IInv, Globally, Takeover
  <2>6. word'.gen # claim.gen /\ word'.gen # epochAck.gen /\ claim.gen <= word'.gen
    BY <2>1, <2>2, <1>0
  <2>7. UNCHANGED <<pub, claim, epochAck>>
    BY DEF Turnover
  <2> QED BY <2>1, <2>3, <2>5, <2>6, <2>7 DEF Takeover, Open
<1>5. Advances
  <2>1. UNCHANGED <<acked, pub, claim, epochAck>> /\ word'.gen = word.gen + 1 /\ ~word.handshake
    BY DEF Turnover
  <2>2. \A g \in Nat : ~Open(g)
    BY <2>1 DEF Open
  <2>3. \A g \in Nat : Open(g)' /\ g <= word.gen => FALSE
    BY <2>1, <1>0 DEF Open
  <2>4. word'.gen # word.gen /\ word.gen <= word'.gen
    BY <2>1, <1>0
  <2>5. word'.owner = "SAFETY" => ~fenced'
    BY DEF Turnover
  <2>6. ~word.reserved
    BY DEF Turnover
  <2>7. claim.gen <= claim'.gen /\ epochAck.gen <= epochAck'.gen /\ pub.epoch <= pub'.epoch
        /\ acked <= acked'
    BY <2>1, <1>0
  <2> QED BY <2>1, <2>2, <2>3, <2>4, <2>5, <2>6, <2>7 DEF Advances
<1>6. RtPublishing'
  BY DEF Turnover, IInv, RtPublishing
<1>7. pub' = pub /\ ~word.reserved
  BY DEF Turnover
<1> QED BY <1>1, <1>2, <1>3, <1>4, <1>5, <1>6, <1>7, EnvironmentStep
        DEF Keeps, Turnover, Globally

LEMMA NextGeneration ==
  ASSUME NEW w \in Word, NEW o \in {"NONE", "PROGRAM", "SAFETY"}, NEW g \in Nat,
         NEW b \in BOOLEAN
  PROVE  /\ [w EXCEPT !.owner = o, !.gen = g] \in Word
         /\ [w EXCEPT !.owner = o, !.gen = g, !.handshake = b] \in Word
BY DEF Word

LEMMA AcquireOrdinaryStep ==
  ASSUME IInv, AcquireOrdinary
  PROVE  IInv'
<1>1. ~word.handshake
  BY DEF AcquireOrdinary, IInv, Globally, WordFits
<1>2. word \in Word /\ word.gen \in Nat
  BY GlobalTypes DEF IInv, GlobalsTyped
<1>3. word' = [word EXCEPT !.owner = "PROGRAM", !.gen = @ + 1]
  BY DEF AcquireOrdinary
<1>4. /\ word'.gen = word.gen + 1 /\ word'.owner = "PROGRAM"
      /\ word'.ticket = word.ticket
  BY <1>2, <1>3 DEF Word
<1>5. word' \in Word
  <2>1. word.gen + 1 \in Nat
    BY <1>2
  <2> QED BY <2>1, <1>2, <1>3, NextGeneration
<1>6. word'.handshake = word.handshake /\ word'.reserved = word.reserved
  BY <1>2, <1>3 DEF Word
<1>7. fenced' \in BOOLEAN /\ (fenced' => fenced)
  BY DEF AcquireOrdinary, IInv, GlobalsTyped
<1>8. Turnover
  BY <1>1, <1>4, <1>5, <1>6, <1>7 DEF AcquireOrdinary, Turnover
<1> QED BY <1>8, TurnoverStep DEF AcquireOrdinary

LEMMA TakeSafetyStep ==
  ASSUME IInv, TakeSafety
  PROVE  IInv'
<1>1. ~word.handshake
  BY DEF TakeSafety, IInv, Globally, WordFits
<1>2. word \in Word /\ word.gen \in Nat
  BY GlobalTypes DEF IInv, GlobalsTyped
<1>3. word' = [word EXCEPT !.owner = "SAFETY", !.gen = @ + 1, !.handshake = TRUE]
  BY DEF TakeSafety
<1>4. /\ word'.gen = word.gen + 1 /\ word'.owner = "SAFETY"
      /\ word'.ticket = word.ticket
  BY <1>2, <1>3 DEF Word
<1>5. word' \in Word
  <2>1. word.gen + 1 \in Nat
    BY <1>2
  <2> QED BY <2>1, <1>2, <1>3, NextGeneration
<1>6. word'.handshake /\ word'.reserved = word.reserved
  BY <1>2, <1>3 DEF Word
<1>7. fenced' \in BOOLEAN /\ (fenced' => fenced)
  BY DEF TakeSafety, IInv, GlobalsTyped
<1>8. Turnover
  BY <1>1, <1>4, <1>5, <1>6, <1>7 DEF TakeSafety, Turnover
<1> QED BY <1>8, TurnoverStep DEF TakeSafety

LEMMA ReleaseStep ==
  ASSUME IInv, Release
  PROVE  IInv'
<1>1. ~word.handshake
  BY DEF Release
<1>2. word \in Word /\ word.gen \in Nat
  BY GlobalTypes DEF IInv, GlobalsTyped
<1>3. word' = [word EXCEPT !.owner = "NONE", !.gen = @ + 1]
  BY DEF Release
<1>4. /\ word'.gen = word.gen + 1 /\ word'.owner = "NONE"
      /\ word'.ticket = word.ticket
  BY <1>2, <1>3 DEF Word
<1>5. word' \in Word
  <2>1. word.gen + 1 \in Nat
    BY <1>2
  <2> QED BY <2>1, <1>2, <1>3, NextGeneration
<1>6. word'.handshake = word.handshake /\ word'.reserved = word.reserved
  BY <1>2, <1>3 DEF Word
<1>7. fenced' \in BOOLEAN /\ (fenced' => fenced)
  BY DEF Release, IInv, GlobalsTyped
<1>8. Turnover
  BY <1>1, <1>4, <1>5, <1>6, <1>7 DEF Release, Turnover
<1> QED BY <1>8, TurnoverStep DEF Release, At

-----------------------------------------------------------------------------
(* The steps of a helper.                                                  *)

LEMMA LabelsAreLabels ==
  HelperLabel \subseteq Label /\ PublisherLabel \subseteq Label /\ RtLabel \subseteq Label
  /\ CommitterLabel \subseteq Label
BY DEF Label

(* What a helper knows where it stands.                                    *)
LEMMA HelperKnows ==
  ASSUME IInv, NEW h \in Helper
  PROVE  /\ GlobalsTyped /\ LocalsTyped /\ Globally /\ SeenFits(h) /\ HelperFits(h)
         /\ Helping(h) /\ Predecessor(h) /\ Confirming(h) /\ h \in Thread
         /\ pub.epoch \in Nat /\ word.gen \in Nat /\ claim.gen \in Nat /\ claim.epoch \in Nat
         /\ epochAck.gen \in Nat /\ epochAck.epoch \in Nat
         /\ seenWord[h].gen \in Nat /\ seenPub[h].epoch \in Nat /\ seenClaim[h].epoch \in Nat
         /\ seenClaim[h].gen \in Nat
BY SeenTypes, GlobalTypes, Disjoint DEF IInv, HelperFits

LEMMA HelperReturns ==
  ASSUME IInv, NEW h \in Helper, Keeps(h), Return(h)
  PROVE  IInv'
<1>1. h \in Thread /\ LocalsTyped
  BY Disjoint DEF IInv
<1>2. Moves(h, "idle", NoMotion, FirstEpoch, Nothing)
  BY <1>1, ReturnMoves
<1>3. pub'.epoch \in Nat /\ pub'.epoch >= 1 /\ (pub'.epoch = 1 => pub'.source = "ordinary")
  BY DEF Keeps, GlobalsTyped, Publication, Globally, EpochsFit
<1>4. SeenFits(h)'
  BY <1>2, <1>3 DEF Moves, SeenFits, FirstEpoch
<1>5. HelperFits(h)'
  BY <1>2, <1>3 DEF Moves, HelperFits, Helping, Predecessor, Confirming, Nothing
<1>6. pc'[h] \in HelperLabel
  BY <1>2 DEF Moves, HelperLabel
<1> QED BY <1>2, <1>4, <1>5, <1>6, HelperStep DEF Moves

(* Back to the top of the loop: nothing is held any more.                  *)
LEMMA HelperRetries ==
  ASSUME IInv, NEW h \in Helper, Keeps(h), pc[h] # "idle", Continue(h, "attempt")
  PROVE  IInv'
<1>1. "attempt" \in HelperLabel /\ "attempt" \in Label
  BY LabelsAreLabels DEF HelperLabel
<1>2. Moves(h, "attempt", seenWord[h], seenPub[h], seenClaim[h])
  BY <1>1, HelperKnows, ContinueMoves
<1>3. SeenFits(h)'
  <2>1. /\ pub.epoch \in Nat /\ pub'.epoch \in Nat /\ seenPub[h].epoch \in Nat
    BY HelperKnows DEF Keeps, GlobalsTyped, Publication
  <2> QED BY <1>2, <2>1, HelperKnows DEF Moves, SeenFits, Keeps, Advances
<1>4. Helping(h)'
  BY <1>2, HelperKnows, HelpingOn DEF Moves, Keeps
<1>5. Predecessor(h)'
  <2>1. seenClaim[h].epoch <= pub'.epoch
    <3>1. pub.epoch \in Nat /\ pub'.epoch \in Nat /\ seenClaim[h].epoch \in Nat
      BY HelperKnows DEF Keeps, GlobalsTyped, Publication
    <3> QED BY <3>1, HelperKnows DEF Predecessor, Keeps, Advances
  <2> QED BY <1>2, <2>1 DEF Moves, Predecessor
<1>6. Confirming(h)'
  BY <1>2 DEF Moves, Confirming
<1> QED BY <1>1, <1>2, <1>3, <1>4, <1>5, <1>6, HelperStep DEF Moves, HelperFits

(* A step that only reads.                                                 *)
LEMMA HelperReads ==
  ASSUME IInv, NEW h \in Helper, UNCHANGED globals,
         NEW l \in HelperLabel, NEW w, NEW p, NEW c, Moves(h, l, w, p, c),
         SeenFits(h)', Helping(h)', Predecessor(h)', Confirming(h)'
  PROVE  IInv'
<1>1. Keeps(h)
  BY UnchangedKeeps
<1> QED BY <1>1, HelperStep DEF Moves, HelperFits

LEMMA EnsureCallStep ==
  ASSUME IInv, NEW h \in Helper, EnsureCall(h)
  PROVE  IInv'
<1>1. "attempt" \in HelperLabel /\ "attempt" \in Label /\ word \in Word
  BY LabelsAreLabels DEF HelperLabel, IInv, GlobalsTyped
<1>2. Moves(h, "attempt", word, seenPub[h], seenClaim[h]) /\ UNCHANGED globals
  BY <1>1, HelperKnows, LoadWordMoves DEF EnsureCall
<1>3. word.owner = "SAFETY" /\ word.handshake
  BY DEF EnsureCall
<1>4. SeenFits(h)' /\ Predecessor(h)' /\ Confirming(h)'
  BY <1>2, HelperKnows DEF Moves, SeenFits, Predecessor, Confirming, globals
<1>5. word.gen >= 1 /\ (claim.gen < word.gen => Open(word.gen))
  BY <1>3, HelperKnows DEF Globally, Takeover, Open, WordFits
<1>6. Helping(h)'
  BY <1>2, <1>3, <1>5, HelperKnows DEF Moves, Helping, Open, globals
<1> QED BY <1>1, <1>2, <1>4, <1>6, HelperReads

LEMMA EnsureLoadWordStep ==
  ASSUME IInv, NEW h \in Helper, EnsureLoadWord(h)
  PROVE  IInv'
<1>1. UNCHANGED globals /\ Keeps(h)
  BY UnchangedKeeps DEF EnsureLoadWord
<1>2. CASE Return(h)
  BY <1>1, <1>2, HelperReturns
<1>3. CASE /\ word.gen = seenWord[h].gen /\ word.owner = "SAFETY"
           /\ LoadWord(h) /\ Goto(h, "inspect") /\ UNCHANGED <<seenPub, seenClaim>>
  <2>1. "inspect" \in HelperLabel /\ "inspect" \in Label /\ word \in Word
    BY LabelsAreLabels DEF HelperLabel, IInv, GlobalsTyped
  <2>2. Moves(h, "inspect", word, seenPub[h], seenClaim[h])
    BY <1>3, <2>1, HelperKnows, LoadWordMoves
  <2>3. SeenFits(h)' /\ Predecessor(h)' /\ Confirming(h)'
    BY <1>1, <2>2, HelperKnows DEF Moves, SeenFits, Predecessor, Confirming, globals
  <2>4. Helping(h)'
    BY <1>1, <1>3, <2>2, HelperKnows, HelpingOn DEF Moves, Keeps, EnsureLoadWord, At
  <2> QED BY <1>1, <2>1, <2>2, <2>3, <2>4, HelperReads
<1> QED BY <1>2, <1>3 DEF EnsureLoadWord

LEMMA EnsureInspectStep ==
  ASSUME IInv, NEW h \in Helper, EnsureInspect(h)
  PROVE  IInv'
<1>1. UNCHANGED globals /\ Keeps(h) /\ pc[h] = "inspect"
  BY UnchangedKeeps DEF EnsureInspect, At
<1>2. CASE Return(h)
  BY <1>1, <1>2, HelperReturns
<1>3. CASE AcknowledgedFor(seenWord[h].gen) /\ Continue(h, "close")
  <2>1. "close" \in HelperLabel /\ "close" \in Label
    BY LabelsAreLabels DEF HelperLabel
  <2>2. Moves(h, "close", seenWord[h], seenPub[h], seenClaim[h])
    BY <1>3, <2>1, HelperKnows, ContinueMoves
  <2>3. SeenFits(h)' /\ Predecessor(h)' /\ Confirming(h)'
    BY <1>1, <2>2, HelperKnows DEF Moves, SeenFits, Predecessor, Confirming, globals
  <2>4. epochAck'.gen >= seenWord[h].gen
    BY <1>1, <1>3, HelperKnows DEF AcknowledgedFor, globals
  <2>5. Helping(h)'
    BY <1>1, <2>2, <2>4, HelperKnows, HelpingOn DEF Moves, Keeps
  <2> QED BY <1>1, <2>1, <2>2, <2>3, <2>5, HelperReads
<1>4. CASE LoadPub(h) /\ Goto(h, "claim") /\ UNCHANGED <<seenWord, seenClaim>>
  <2>1. "claim" \in HelperLabel /\ "claim" \in Label /\ pub \in Publication
    BY LabelsAreLabels DEF HelperLabel, IInv, GlobalsTyped
  <2>2. Moves(h, "claim", seenWord[h], pub, seenClaim[h])
    BY <1>4, <2>1, HelperKnows, LoadPubMoves DEF LoadPub
  <2>3. pub.epoch >= 1
    BY HelperKnows DEF Globally, EpochsFit
  <2>4. SeenFits(h)' /\ Confirming(h)'
    BY <1>1, <2>2, <2>3, HelperKnows DEF Moves, SeenFits, Confirming, globals
  <2>5. Predecessor(h)'
    BY <1>1, <2>2, HelperKnows DEF Moves, Predecessor, globals
  <2>6. Helping(h)'
    BY <1>1, <2>2, HelperKnows, HelpingOn DEF Moves, Keeps
  <2> QED BY <1>1, <2>1, <2>2, <2>4, <2>5, <2>6, HelperReads
<1> QED BY <1>2, <1>3, <1>4 DEF EnsureInspect

LEMMA EnsureCloseStep ==
  ASSUME IInv, NEW h \in Helper, EnsureClose(h)
  PROVE  IInv'
<1>1. UNCHANGED <<acked, pub, claim, epochAck, fenced>> /\ pc[h] = "close"
  BY DEF EnsureClose, At
<1>2. CASE UNCHANGED word /\ Continue(h, "attempt")
  BY <1>1, <1>2, HelperRetries, UnchangedKeeps DEF globals
<1>3. CASE word = seenWord[h] /\ word' = [word EXCEPT !.handshake = FALSE] /\ Return(h)
  <2>1. /\ word'.owner = word.owner /\ word'.gen = word.gen /\ word'.ticket = word.ticket
        /\ word'.reserved = word.reserved /\ word'.handshake = FALSE /\ word' \in Word
    BY <1>3 DEF IInv, GlobalsTyped, Word
  <2>2. word.owner = "SAFETY" /\ epochAck.gen >= word.gen
    BY <1>1, <1>3, HelperKnows DEF Helping
  <2>3. epochAck.gen = word.gen /\ claim.gen = word.gen /\ fenced
    BY <2>2, HelperKnows DEF Globally, Takeover
  <2>4. GlobalsTyped'
    BY <1>1, <2>1 DEF IInv, GlobalsTyped
  <2>5. WordFits'
    BY <1>1, <2>1, <2>2, HelperKnows DEF Globally, WordFits
  <2>6. Globally'
    BY <1>1, <2>1, <2>3, <2>5, HelperKnows DEF Globally, EpochsFit, Takeover, Open
  <2>7. Advances
    <3>1. \A g \in Nat : ~Open(g) /\ ~Open(g)'
      BY <1>1, <2>3 DEF Open
    <3>2. ~(epochAck'.gen < word.gen)
      BY <1>1, <2>3, HelperKnows
    <3>3. word.gen <= word'.gen /\ claim.gen <= claim'.gen /\ epochAck.gen <= epochAck'.gen
          /\ pub.epoch <= pub'.epoch /\ acked <= acked'
      BY <1>1, <2>1, GlobalTypes DEF IInv
    <3> QED BY <1>1, <2>1, <2>2, <2>3, <3>1, <3>2, <3>3 DEF Advances
  <2>8. pc[Rt] # "idle" => Unacknowledged' /\ ~word'.handshake /\ word'.owner = "SAFETY"
    BY <1>1, <2>1, <2>2 DEF IInv, RtPublishing, Unacknowledged
  <2>9. Keeps(h)
    BY <1>1, <2>1, <2>4, <2>6, <2>7, <2>8 DEF Keeps
  <2> QED BY <1>3, <2>9, HelperReturns
<1> QED BY <1>2, <1>3 DEF EnsureClose

(* A helper's step on the claim, the words standing still.                 *)
LEMMA ClaimKeeps ==
  ASSUME IInv, NEW h \in Helper, UNCHANGED <<word, acked, pub, epochAck, fenced>>,
         claim' \in GenEpoch, claim.gen <= claim'.gen, Globally'
  PROVE  Keeps(h)
<1>1. GlobalsTyped'
  BY DEF IInv, GlobalsTyped
<1>2. Quiet
  BY GlobalTypes DEF IInv, Quiet
<1>3. Advances
  BY <1>1, <1>2, QuietAdvances DEF IInv
<1>4. Unacknowledged' <=> Unacknowledged
  BY DEF Unacknowledged
<1> QED BY <1>1, <1>3, <1>4 DEF Keeps, IInv, RtPublishing

(* With a claim of its own generation in hand a helper looks again.        *)
LEMMA ClaimedRechecks ==
  ASSUME IInv, NEW h \in Helper, Keeps(h), pc[h] = "claim",
         UNCHANGED <<word, pub, epochAck, fenced>>,
         claim' \in GenEpoch, claim'.gen = seenWord[h].gen,
         seenClaim' = [seenClaim EXCEPT ![h] = claim'], Goto(h, "recheck"),
         UNCHANGED <<seenWord, seenPub>>
  PROVE  IInv'
<1>1. "recheck" \in HelperLabel /\ "recheck" \in Label
  BY LabelsAreLabels DEF HelperLabel
<1>2. Moves(h, "recheck", seenWord[h], seenPub[h], claim')
  BY <1>1, HelperKnows, LoadClaimMoves
<1>3. Helping(h)'
  BY <1>2, HelperKnows, HelpingOn DEF Moves, Keeps
<1>4. SeenFits(h)' /\ Confirming(h)'
  BY <1>2, HelperKnows DEF Moves, SeenFits, Confirming
<1>5. Predecessor(h)'
  <2>1. PICK g \in Nat : g = seenWord[h].gen
    BY HelperKnows
  <2>2. claim'.gen = g /\ seenWord'[h].gen = g /\ claim'.epoch \in Nat
    BY <1>2, <2>1 DEF Moves, GenEpoch
  <2>3. Takeover' /\ claim'.epoch <= pub.epoch
    BY DEF Keeps, Globally, EpochsFit
  <2>4. /\ claim'.epoch = pub.epoch => Open(g) \/ epochAck.gen = g
        /\ Open(g) /\ claim'.epoch < pub.epoch => pub.source = "ordinary"
        /\ word.owner = "SAFETY" /\ fenced => g = word.gen
    BY <2>2, <2>3 DEF Takeover, Open
  <2>5. ~(g < word.gen /\ word.owner = "SAFETY" /\ fenced)
    BY <2>4, HelperKnows
  <2>6. claim'.gen >= g
    BY <2>2
  <2>7. pc'[h] = "recheck" /\ seenClaim'[h] = claim'
    BY <1>2 DEF Moves
  <2> QED BY <2>2, <2>3, <2>4, <2>5, <2>6, <2>7 DEF Predecessor, Open
<1> QED BY <1>1, <1>2, <1>3, <1>4, <1>5, HelperStep DEF Moves, HelperFits

LEMMA EnsureClaimStep ==
  ASSUME IInv, NEW h \in Helper, EnsureClaim(h)
  PROVE  IInv'
<1> DEFINE mine == [gen |-> seenWord[h].gen, epoch |-> seenPub[h].epoch]
<1>1. UNCHANGED <<word, acked, pub, epochAck, fenced>> /\ pc[h] = "claim"
  BY DEF EnsureClaim, At
<1>2. CASE UNCHANGED claim /\ (Return(h) \/ Continue(h, "attempt"))
  BY <1>1, <1>2, HelperReturns, HelperRetries, UnchangedKeeps DEF globals
<1>3. CASE /\ claim.gen = seenWord[h].gen
           /\ seenClaim' = [seenClaim EXCEPT ![h] = claim]
           /\ Goto(h, "recheck") /\ UNCHANGED <<claim, seenWord, seenPub>>
  <2>1. Keeps(h) /\ claim \in GenEpoch
    BY <1>1, <1>3, UnchangedKeeps DEF globals, IInv, GlobalsTyped
  <2> QED BY <1>1, <1>3, <2>1, ClaimedRechecks
<1>4. CASE /\ claim.gen # seenWord[h].gen /\ ~(claim.gen > seenWord[h].gen)
           /\ claim' = mine /\ seenClaim' = [seenClaim EXCEPT ![h] = mine]
           /\ Goto(h, "recheck") /\ UNCHANGED <<seenWord, seenPub>>
  <2>1. PICK g \in Nat, d \in Nat : g = seenWord[h].gen /\ d = seenPub[h].epoch
    BY HelperKnows
  <2>2. claim' = [gen |-> g, epoch |-> d]
    BY <1>4, <2>1
  <2>3. claim' \in GenEpoch /\ claim'.gen = g /\ claim'.epoch = d
    BY <2>2 DEF GenEpoch
  <2>4. claim.gen < g
    BY <1>4, <2>1, HelperKnows
  <2>5. Open(g) /\ word.gen = g /\ ~fenced
    BY <1>1, <2>1, <2>4, HelperKnows DEF Helping, Open
  <2>6. d <= pub.epoch /\ (d < pub.epoch => pub.source = "ordinary")
    BY <1>1, <2>1, <2>5, HelperKnows DEF Predecessor, SeenFits
  <2>7. Takeover'
    <3>1. epochAck.gen <= g /\ g <= word.gen
      BY <2>4, <2>5, HelperKnows DEF Globally, Takeover
    <3>2. epochAck.gen # word.gen
      BY <2>4, <2>5, HelperKnows DEF Globally, Takeover
    <3> QED BY <1>1, <2>3, <2>5, <2>6, <3>1, <3>2 DEF Takeover, Open
  <2>8. Globally'
    BY <1>1, <2>3, <2>6, <2>7, HelperKnows DEF Globally, WordFits, EpochsFit, Unacknowledged
  <2>9. Keeps(h)
    BY <1>1, <2>3, <2>4, <2>8, HelperKnows, ClaimKeeps
  <2>10. seenClaim' = [seenClaim EXCEPT ![h] = claim']
    BY <1>4
  <2> QED BY <1>1, <1>4, <2>1, <2>3, <2>9, <2>10, ClaimedRechecks
<1> QED BY <1>2, <1>3, <1>4 DEF EnsureClaim

LEMMA EnsureRecheckAckStep ==
  ASSUME IInv, NEW h \in Helper, EnsureRecheckAck(h)
  PROVE  IInv'
<1>1. UNCHANGED globals /\ Keeps(h) /\ pc[h] = "recheck"
  BY UnchangedKeeps DEF EnsureRecheckAck, At
<1>2. CASE Continue(h, "attempt")
  BY <1>1, <1>2, HelperRetries
<1>3. CASE ~AcknowledgedFor(seenWord[h].gen) /\ Continue(h, "reread")
  <2>1. "reread" \in HelperLabel /\ "reread" \in Label
    BY LabelsAreLabels DEF HelperLabel
  <2>2. Moves(h, "reread", seenWord[h], seenPub[h], seenClaim[h])
    BY <1>3, <2>1, HelperKnows, ContinueMoves
  <2>3. Helping(h)'
    BY <1>1, <2>2, HelperKnows, HelpingOn DEF Moves, Keeps
  <2>4. SeenFits(h)' /\ Confirming(h)'
    BY <1>1, <2>2, HelperKnows DEF Moves, SeenFits, Confirming, globals
  <2>5. epochAck.gen # seenWord[h].gen
    BY <1>1, <1>3, HelperKnows DEF AcknowledgedFor, Globally, EpochsFit, Helping
  <2>6. seenClaim[h].epoch = pub.epoch => Open(seenWord[h].gen)
    BY <1>1, <2>5, HelperKnows DEF Predecessor
  <2>7. Predecessor(h)'
    BY <1>1, <2>2, <2>6, HelperKnows DEF Moves, Predecessor, Open, globals
  <2> QED BY <1>1, <2>1, <2>2, <2>3, <2>4, <2>7, HelperReads
<1> QED BY <1>2, <1>3 DEF EnsureRecheckAck

LEMMA EnsureRereadPubStep ==
  ASSUME IInv, NEW h \in Helper, EnsureRereadPub(h)
  PROVE  IInv'
<1>1. UNCHANGED globals /\ Keeps(h) /\ pc[h] = "reread"
  BY UnchangedKeeps DEF EnsureRereadPub, At, globals
<1> DEFINE l == IF pub.reserved THEN "attempt"
                ELSE IF pub.epoch = seenClaim[h].epoch THEN "publish"
                ELSE IF pub.source # "SAFETY" THEN "advance"
                ELSE "confirm"
<1>2. l \in HelperLabel /\ l \in Label /\ l # "close" /\ pub \in Publication
  BY LabelsAreLabels DEF HelperLabel, IInv, GlobalsTyped
<1>3. Goto(h, l) /\ LoadPub(h) /\ UNCHANGED <<seenWord, seenClaim>>
  BY DEF EnsureRereadPub, globals
<1> HIDE DEF l
<1>4. Moves(h, l, seenWord[h], pub, seenClaim[h])
  BY <1>2, <1>3, HelperKnows, LoadPubMoves DEF LoadPub
<1>5. Helping(h)'
  BY <1>1, <1>2, <1>4, HelperKnows, HelpingOn DEF Moves, Keeps
<1>6. SeenFits(h)'
  <2>1. pub.epoch >= 1
    BY HelperKnows DEF Globally, EpochsFit
  <2> QED BY <1>1, <1>4, <2>1, HelperKnows DEF Moves, SeenFits, globals
<1>7. /\ seenClaim[h].epoch <= pub.epoch
      /\ seenClaim[h].gen = seenWord[h].gen /\ claim.gen >= seenWord[h].gen
      /\ Open(seenWord[h].gen) /\ seenClaim[h].epoch < pub.epoch => pub.source = "ordinary"
      /\ seenClaim[h].epoch = pub.epoch => Open(seenWord[h].gen)
  BY <1>1, HelperKnows DEF Predecessor
<1>8. /\ l \in {"attempt", "publish", "advance", "confirm"}
      /\ l = "publish" => pub.epoch = seenClaim[h].epoch /\ ~pub.reserved
      /\ l = "advance" => pub.source = "ordinary"
      /\ l = "confirm" => pub.epoch # seenClaim[h].epoch /\ pub.source = "SAFETY"
  BY HelperKnows DEF l, GlobalsTyped, Publication
<1>9. Predecessor(h)'
  <2>1. ~(pub.epoch < pub.epoch)
    BY HelperKnows
  <2>2. pc'[h] \in {"attempt", "publish", "advance", "confirm"}
    BY <1>4, <1>8 DEF Moves
  <2>3. /\ pc'[h] = "publish" => pub.epoch = seenClaim[h].epoch /\ ~pub.reserved
        /\ pc'[h] = "advance" => pub.source = "ordinary"
    BY <1>4, <1>8 DEF Moves
  <2>4. /\ seenWord'[h] = seenWord[h] /\ seenPub'[h] = pub /\ seenClaim'[h] = seenClaim[h]
        /\ pub' = pub /\ word' = word /\ claim' = claim /\ (fenced' <=> fenced)
    BY <1>1, <1>4 DEF Moves, globals
  <2> QED BY <2>1, <2>2, <2>3, <2>4, <1>7 DEF Predecessor, Open
<1>10. Confirming(h)'
  <2>1. ASSUME pc'[h] \in {"confirm", "acknowledge"}, word.gen = seenWord[h].gen PROVE fenced
    <3>1. l = "confirm"
      BY <1>4, <1>8, <2>1 DEF Moves
    <3>2. seenClaim[h].epoch < pub.epoch /\ pub.source = "SAFETY"
      BY <1>7, <1>8, <3>1, HelperKnows
    <3>3. ~Open(seenWord[h].gen)
      BY <1>7, <3>2
    <3>4. word.owner = "SAFETY"
      BY <1>1, <2>1, HelperKnows DEF Helping
    <3>5. ~word.handshake => fenced
      BY <3>4, HelperKnows DEF Globally, Takeover
    <3> QED BY <2>1, <3>3, <3>4, <3>5 DEF Open
  <2>2. seenWord'[h] = seenWord[h] /\ word' = word /\ claim' = claim /\ (fenced' <=> fenced)
    BY <1>1, <1>4 DEF Moves, globals
  <2> QED BY <2>1, <2>2, <1>7 DEF Confirming
<1> QED BY <1>1, <1>2, <1>4, <1>5, <1>6, <1>9, <1>10, HelperReads

(* The fence goes up: SAFETY publishes the epoch after the one that was     *)
(* last, and the takeover stands on its own claim.                         *)
Fences ==
  /\ pub'.epoch = pub.epoch + 1 /\ pub'.source = "SAFETY" /\ pub' \in Publication
  /\ fenced' = TRUE /\ ~pub.reserved
  /\ UNCHANGED <<word, acked, claim, epochAck>>

LEMMA FencesKeep ==
  ASSUME IInv, Fences, word.owner = "SAFETY", claim.gen = word.gen,
         word.handshake \/ epochAck.gen = word.gen, NEW t
  PROVE  Keeps(t)
<1>1. GlobalsTyped'
  BY DEF Fences, IInv, GlobalsTyped
<1>2. /\ pub.epoch \in Nat /\ pub'.epoch = pub.epoch + 1 /\ word.gen \in Nat
      /\ claim.epoch \in Nat /\ claim.gen \in Nat
      /\ epochAck.epoch \in Nat /\ epochAck.gen \in Nat /\ acked \in Nat
  BY GlobalTypes DEF IInv, Fences
<1>3. /\ claim'.epoch < pub'.epoch /\ epochAck'.epoch <= pub'.epoch
      /\ pub'.epoch >= 1 /\ pub'.epoch # 1
  BY <1>2 DEF Fences, IInv, Globally, EpochsFit
<1>4. claim'.epoch <= pub'.epoch /\ claim'.epoch # pub'.epoch
  BY <1>2, <1>3 DEF Fences
<1>5. EpochsFit'
  BY <1>3, <1>4 DEF Fences, IInv, Globally, EpochsFit
<1>6. WordFits'
  BY DEF Fences, IInv, Globally, WordFits, Unacknowledged
<1>7. Takeover'
  BY <1>4 DEF Fences, IInv, Globally, Takeover, Open
<1>8. Advances
  <2>1. \A g \in Nat : ~Open(g)'
    BY DEF Fences, Open
  <2>2. \A g \in Nat : Open(g) => g <= claim.gen
    BY <1>2 DEF Open
  <2>3. pub.epoch < pub'.epoch /\ pub.epoch <= pub'.epoch /\ pub'.epoch # pub.epoch
    BY <1>2
  <2>4. word' = word /\ claim' = claim /\ epochAck' = epochAck /\ acked' = acked
    BY DEF Fences
  <2>5. /\ word.gen <= word'.gen /\ claim.gen <= claim'.gen /\ epochAck.gen <= epochAck'.gen
        /\ acked <= acked'
    BY <2>4, <1>2
  <2>6. fenced'
    BY DEF Fences
  <2> QED BY <2>1, <2>2, <2>3, <2>4, <2>5, <2>6 DEF Advances
<1>9. Unacknowledged' <=> Unacknowledged
  BY DEF Fences, Unacknowledged
<1> QED BY <1>1, <1>5, <1>6, <1>7, <1>8, <1>9 DEF Keeps, Globally, Fences, IInv, RtPublishing

LEMMA EnsurePublishStep ==
  ASSUME IInv, NEW h \in Helper, EnsurePublish(h)
  PROVE  IInv'
<1>1. UNCHANGED <<word, acked, claim, epochAck>> /\ pc[h] = "publish"
  BY DEF EnsurePublish, At
<1>2. CASE UNCHANGED <<pub, fenced>> /\ Continue(h, "attempt")
  BY <1>1, <1>2, HelperRetries, UnchangedKeeps DEF globals
<1>3. CASE /\ pub = seenPub[h]
           /\ pub' = [epoch |-> pub.epoch + 1, source |-> "SAFETY",
                      pending |-> TRUE, reserved |-> FALSE]
           /\ fenced' = TRUE /\ seenPub' = [seenPub EXCEPT ![h] = pub']
           /\ Goto(h, "confirm") /\ UNCHANGED <<seenWord, seenClaim>>
  <2>1. ~pub.reserved /\ seenClaim[h].epoch = pub.epoch
    BY <1>1, <1>3, HelperKnows DEF Predecessor
  <2>2. Open(seenWord[h].gen) /\ claim.gen >= seenWord[h].gen
    BY <1>1, <2>1, HelperKnows DEF Predecessor
  <2>3. word.owner = "SAFETY" /\ word.handshake /\ word.gen = seenWord[h].gen
    BY <2>2 DEF Open
  <2>4. claim.gen = word.gen
    BY <2>2, <2>3, HelperKnows DEF Globally, Takeover
  <2>5. Fences
    <3>1. PICK e \in Nat : e = pub.epoch + 1
      BY HelperKnows
    <3>2. pub' = [epoch |-> e, source |-> "SAFETY", pending |-> TRUE, reserved |-> FALSE]
      BY <1>3, <3>1
    <3>3. pub' \in Publication
      BY <3>2 DEF Publication
    <3> QED BY <1>1, <1>3, <2>1, <3>3 DEF Fences
  <2>6. Keeps(h)
    BY <2>3, <2>4, <2>5, FencesKeep
  <2>7. "confirm" \in HelperLabel /\ "confirm" \in Label /\ pub' \in Publication
    BY <2>5, LabelsAreLabels DEF HelperLabel, Fences
  <2>8. Moves(h, "confirm", seenWord[h], pub', seenClaim[h])
    BY <1>3, <2>7, HelperKnows, LoadPubMoves
  <2>9. Helping(h)'
    BY <1>1, <2>6, <2>8, HelperKnows, HelpingOn DEF Moves, Keeps
  <2>10. pub'.epoch \in Nat /\ pub'.epoch >= 1 /\ pub.epoch <= pub'.epoch
    BY <1>3, HelperKnows
  <2>11. SeenFits(h)'
    BY <2>8, <2>10 DEF Moves, SeenFits
  <2>12. Predecessor(h)'
    <3>1. seenClaim[h].epoch <= pub'.epoch
      BY <2>1, <2>10
    <3> QED BY <2>8, <3>1 DEF Moves, Predecessor
  <2>13. Confirming(h)'
    BY <1>1, <1>3, <2>2, <2>8 DEF Moves, Confirming
  <2> QED BY <2>6, <2>7, <2>8, <2>9, <2>11, <2>12, <2>13, HelperStep DEF Moves, HelperFits
<1> QED BY <1>2, <1>3 DEF EnsurePublish

LEMMA EnsureAdvanceStep ==
  ASSUME IInv, NEW h \in Helper, EnsureAdvance(h)
  PROVE  IInv'
<1>1. UNCHANGED <<word, acked, pub, epochAck, fenced>> /\ pc[h] = "advance"
      /\ Continue(h, "attempt")
  BY DEF EnsureAdvance, At
<1>2. CASE UNCHANGED claim
  BY <1>1, <1>2, HelperRetries, UnchangedKeeps DEF globals
<1>3. CASE claim = seenClaim[h] /\ claim' = [claim EXCEPT !.epoch = seenPub[h].epoch]
  <2>1. PICK g \in Nat, d \in Nat : g = seenWord[h].gen /\ d = seenPub[h].epoch
    BY HelperKnows
  <2>2. claim.gen = g
    BY <1>1, <1>3, <2>1, HelperKnows DEF Predecessor
  <2>3. claim' \in GenEpoch /\ claim'.gen = g /\ claim'.epoch = d
    BY <1>3, <2>1, <2>2, HelperKnows DEF GlobalsTyped, GenEpoch
  <2>4. /\ d <= pub.epoch /\ (d = pub.epoch => pub.source = "ordinary")
        /\ Open(g) /\ d < pub.epoch => pub.source = "ordinary"
    BY <1>1, <2>1, HelperKnows DEF Predecessor, SeenFits
  <2>5. d = pub.epoch => Open(g) \/ epochAck.gen = g
    <3>1. SUFFICES ASSUME d = pub.epoch, epochAck.gen # g PROVE Open(g)
      OBVIOUS
    <3>2. ~fenced
      BY <2>4, <3>1, HelperKnows DEF Globally, EpochsFit
    <3>3. epochAck.gen < g
      BY <2>2, <3>1, HelperKnows DEF Globally, Takeover
    <3>4. word.gen = g /\ word.handshake /\ word.owner = "SAFETY"
      BY <1>1, <2>1, <3>3, HelperKnows DEF Helping
    <3> QED BY <3>2, <3>4 DEF Open
  <2>6. Takeover'
    BY <1>1, <2>2, <2>3, <2>4, <2>5, HelperKnows DEF Globally, Takeover, Open
  <2>7. Globally'
    BY <1>1, <2>3, <2>4, <2>6, HelperKnows DEF Globally, WordFits, EpochsFit, Unacknowledged
  <2>8. claim.gen <= claim'.gen
    BY <2>2, <2>3
  <2>9. Keeps(h)
    BY <1>1, <2>3, <2>7, <2>8, ClaimKeeps
  <2> QED BY <1>1, <2>9, HelperRetries
<1> QED BY <1>2, <1>3 DEF EnsureAdvance

LEMMA EnsureConfirmStep ==
  ASSUME IInv, NEW h \in Helper, EnsureConfirm(h)
  PROVE  IInv'
<1>1. UNCHANGED globals /\ Keeps(h) /\ pc[h] = "confirm"
  BY UnchangedKeeps DEF EnsureConfirm, At
<1>2. CASE Return(h)
  BY <1>1, <1>2, HelperReturns
<1>3. CASE Continue(h, "acknowledge")
  <2>1. "acknowledge" \in HelperLabel /\ "acknowledge" \in Label
    BY LabelsAreLabels DEF HelperLabel
  <2>2. Moves(h, "acknowledge", seenWord[h], seenPub[h], seenClaim[h])
    BY <1>3, <2>1, HelperKnows, ContinueMoves
  <2>3. Helping(h)'
    BY <1>1, <2>2, HelperKnows, HelpingOn DEF Moves, Keeps
  <2>4. SeenFits(h)' /\ Confirming(h)' /\ Predecessor(h)'
    BY <1>1, <2>2, HelperKnows DEF Moves, SeenFits, Confirming, Predecessor, globals
  <2> QED BY <1>1, <2>1, <2>2, <2>3, <2>4, HelperReads
<1> QED BY <1>2, <1>3 DEF EnsureConfirm

LEMMA EnsureAcknowledgeStep ==
  ASSUME IInv, NEW h \in Helper, EnsureAcknowledge(h)
  PROVE  IInv'
<1>1. UNCHANGED <<word, acked, pub, claim, fenced>> /\ pc[h] = "acknowledge"
      /\ Continue(h, "attempt")
  BY DEF EnsureAcknowledge, At
<1>2. CASE UNCHANGED epochAck
  BY <1>1, <1>2, HelperRetries, UnchangedKeeps DEF globals
<1>3. CASE /\ seenWord[h].gen > epochAck.gen
           /\ epochAck' = [gen |-> seenWord[h].gen, epoch |-> seenPub[h].epoch]
  <2>1. PICK g \in Nat, d \in Nat : g = seenWord[h].gen /\ d = seenPub[h].epoch
    BY HelperKnows
  <2>2. epochAck' \in GenEpoch /\ epochAck'.gen = g /\ epochAck'.epoch = d
    BY <1>3, <2>1 DEF GenEpoch
  <2>3. epochAck.gen < g
    BY <1>3, <2>1, HelperKnows
  <2>4. word.gen = g /\ word.handshake /\ word.owner = "SAFETY"
    BY <1>1, <2>1, <2>3, HelperKnows DEF Helping
  <2>5. claim.gen >= g /\ fenced
    BY <1>1, <2>1, <2>4, HelperKnows DEF Confirming
  <2>6. claim.gen = g
    BY <2>1, <2>4, <2>5, HelperKnows DEF Globally, Takeover
  <2>7. 1 <= d /\ d <= pub.epoch
    BY <2>1, HelperKnows DEF SeenFits
  <2>8. GlobalsTyped'
    BY <1>1, <2>2 DEF IInv, GlobalsTyped
  <2>9. Takeover'
    BY <1>1, <2>2, <2>4, <2>5, <2>6 DEF Takeover, Open
  <2>10. Globally'
    <3>1. d # 0
      BY <2>7
    <3> QED BY <1>1, <2>2, <2>7, <2>9, <3>1, HelperKnows
            DEF Globally, WordFits, EpochsFit, Unacknowledged
  <2>11. Advances
    <3>1. \A k \in Nat : ~Open(k) /\ ~Open(k)'
      BY <1>1, <2>5 DEF Open
    <3>2. ~(epochAck'.gen < word.gen) /\ epochAck.gen <= epochAck'.gen /\ epochAck'.gen = word.gen
      BY <2>2, <2>3, <2>4, HelperKnows
    <3>3. word.gen <= word'.gen /\ claim.gen <= claim'.gen /\ pub.epoch <= pub'.epoch
          /\ acked <= acked'
      BY <1>1, GlobalTypes DEF IInv
    <3> QED BY <1>1, <2>4, <2>5, <3>1, <3>2, <3>3 DEF Advances
  <2>12. Unacknowledged' <=> Unacknowledged
    BY <1>1 DEF Unacknowledged
  <2>13. Keeps(h)
    BY <1>1, <2>8, <2>10, <2>11, <2>12 DEF Keeps, IInv, RtPublishing
  <2> QED BY <1>1, <2>13, HelperRetries
<1> QED BY <1>2, <1>3 DEF EnsureAcknowledge

-----------------------------------------------------------------------------
(* The steps of an ordinary publisher.                                     *)

LEMMA PublisherKnows ==
  ASSUME IInv, NEW p \in Publisher
  PROVE  /\ GlobalsTyped /\ LocalsTyped /\ Globally /\ SeenFits(p) /\ PublisherFits(p)
         /\ Publishing(p) /\ Aborting(p) /\ p \in Thread /\ p # Rt
         /\ pub.epoch \in Nat /\ word.gen \in Nat /\ word.ticket \in Nat /\ acked \in Nat
         /\ seenWord[p].ticket \in Nat /\ seenPub[p].epoch \in Nat
BY SeenTypes, GlobalTypes, Disjoint DEF IInv, PublisherFits

LEMMA FirstFits ==
  ASSUME GlobalsTyped', Globally', NEW t, seenPub'[t] = FirstEpoch
  PROVE  SeenFits(t)'
<1>1. pub'.epoch \in Nat /\ pub'.epoch >= 1 /\ (pub'.epoch = 1 => pub'.source = "ordinary")
  BY DEF GlobalsTyped, Publication, Globally, EpochsFit
<1> QED BY <1>1 DEF SeenFits, FirstEpoch

LEMMA SeenStaysFit ==
  ASSUME IInv, NEW t \in Thread, Keeps(t), seenPub'[t] = seenPub[t]
  PROVE  SeenFits(t)'
<1>1. /\ pub.epoch \in Nat /\ pub'.epoch \in Nat /\ seenPub[t].epoch \in Nat
  BY GlobalTypes, SeenTypes DEF IInv, Keeps, GlobalsTyped, Publication
<1> QED BY <1>1 DEF IInv, SeenFits, Keeps, Advances

LEMMA PublisherReturns ==
  ASSUME IInv, NEW p \in Publisher, Keeps(p), Return(p)
  PROVE  IInv'
<1>1. Moves(p, "idle", NoMotion, FirstEpoch, Nothing)
  BY PublisherKnows, ReturnMoves
<1>2. SeenFits(p)'
  BY <1>1, FirstFits DEF Moves, Keeps
<1>3. PublisherFits(p)'
  BY <1>1 DEF Moves, PublisherFits, Publishing, Aborting, Abort
<1>4. pc'[p] \in PublisherLabel /\ pc'[p] \notin Abort
  BY <1>1 DEF Moves, PublisherLabel, Abort
<1> QED BY <1>1, <1>2, <1>3, <1>4, PublisherStep DEF Moves

(* An ordinary epoch is published: not behind the fence of SAFETY.         *)
Overtakes ==
  /\ pub'.epoch = pub.epoch + 1 /\ pub'.source = "ordinary" /\ pub' \in Publication
  /\ fenced' = FALSE /\ ~pub.reserved
  /\ UNCHANGED <<word, acked, claim, epochAck>>

LEMMA OvertakesKeep ==
  ASSUME IInv, Overtakes, word.owner = "SAFETY" => ~fenced, NEW t
  PROVE  Keeps(t)
<1>1. GlobalsTyped'
  BY DEF Overtakes, IInv, GlobalsTyped
<1>2. /\ pub.epoch \in Nat /\ pub'.epoch = pub.epoch + 1 /\ word.gen \in Nat
      /\ claim.epoch \in Nat /\ claim.gen \in Nat
      /\ epochAck.epoch \in Nat /\ epochAck.gen \in Nat /\ acked \in Nat
  BY GlobalTypes DEF IInv, Overtakes
<1>3. /\ claim'.epoch < pub'.epoch /\ epochAck'.epoch <= pub'.epoch
      /\ pub'.epoch >= 1 /\ pub'.epoch # 1
  BY <1>2 DEF Overtakes, IInv, Globally, EpochsFit
<1>4. claim'.epoch <= pub'.epoch /\ claim'.epoch # pub'.epoch
  BY <1>2, <1>3 DEF Overtakes
<1>5. EpochsFit'
  BY <1>3, <1>4 DEF Overtakes, IInv, Globally, EpochsFit
<1>6. WordFits'
  BY DEF Overtakes, IInv, Globally, WordFits, Unacknowledged
<1>7. Takeover'
  BY <1>4 DEF Overtakes, IInv, Globally, Takeover, Open
<1>8. Advances
  <2>1. \A g \in Nat : Open(g) => Open(g)'
    BY DEF Overtakes, Open
  <2>2. \A g \in Nat : Open(g)' => Open(g)
    BY DEF Overtakes, Open
  <2>3. pub.epoch <= pub'.epoch /\ pub'.epoch # pub.epoch
    BY <1>2
  <2>4. word' = word /\ claim' = claim /\ epochAck' = epochAck /\ acked' = acked
        /\ pub'.source = "ordinary" /\ ~fenced'
    BY DEF Overtakes
  <2>5. /\ word.gen <= word'.gen /\ claim.gen <= claim'.gen /\ epochAck.gen <= epochAck'.gen
        /\ acked <= acked'
    BY <2>4, <1>2
  <2> QED BY <2>1, <2>2, <2>3, <2>4, <2>5 DEF Advances
<1>9. Unacknowledged' <=> Unacknowledged
  BY DEF Overtakes, Unacknowledged
<1> QED BY <1>1, <1>5, <1>6, <1>7, <1>8, <1>9 DEF Keeps, Globally, Overtakes, IInv, RtPublishing

LEMMA OrdinarySwap ==
  ASSUME IInv, NEW p \in Publisher, PublishSwap(p) \/ AbortSwap(p)
  PROVE  Keeps(p)
<1>0. /\ pc[p] \in {"publish", "abort swap"}
      /\ SwapPublication(p, Successor(p)) /\ UNCHANGED <<word, acked, claim, epochAck>>
  BY DEF PublishSwap, AbortSwap, At
<1>1. CASE pub # seenPub[p]
  BY <1>0, <1>1, UnchangedKeeps DEF SwapPublication, globals
<1>2. CASE pub = seenPub[p]
  <2>0. pub.epoch \in Nat
    BY PublisherKnows
  <2>1. PICK e \in Nat : e = pub.epoch + 1
    BY <2>0
  <2>2. pub' = [epoch |-> e, source |-> "ordinary", pending |-> TRUE, reserved |-> FALSE]
    BY <1>0, <1>2, <2>1, PublisherKnows DEF SwapPublication, Successor
  <2>3. pub' \in Publication /\ pub'.epoch = e /\ pub'.source = "ordinary"
    BY <2>2 DEF Publication
  <2>4. fenced' = FALSE
    BY <1>0, <1>2, PublisherKnows DEF SwapPublication, Successor
  <2>5. ~pub.reserved
    BY <1>0, <1>2, PublisherKnows DEF Publishing
  <2>6. ASSUME word.owner = "SAFETY", fenced PROVE FALSE
    <3>1. CASE pc[p] = "publish"
      <4>1. seenPub[p].epoch < pub.epoch
        BY <2>6, <3>1, PublisherKnows DEF Publishing
      <4> QED BY <1>2, <2>0, <4>1
    <3>2. CASE pc[p] = "abort swap"
      BY <2>6, <3>2, PublisherKnows DEF Aborting, Abort, Globally, WordFits
    <3> QED BY <1>0, <3>1, <3>2
  <2>7. Overtakes
    BY <1>0, <2>1, <2>3, <2>4, <2>5 DEF Overtakes
  <2> QED BY <2>6, <2>7, OvertakesKeep
<1> QED BY <1>1, <1>2

LEMMA PublishCallStep ==
  ASSUME IInv, NEW p \in Publisher, PublishCall(p)
  PROVE  IInv'
<1>1. "load" \in PublisherLabel /\ "load" \in Label /\ word \in Word
  BY LabelsAreLabels DEF PublisherLabel, IInv, GlobalsTyped
<1>2. Moves(p, "load", word, seenPub[p], seenClaim[p]) /\ UNCHANGED globals /\ Keeps(p)
  BY <1>1, PublisherKnows, LoadWordMoves, UnchangedKeeps DEF PublishCall
<1>3. SeenFits(p)'
  BY <1>2, PublisherKnows, SeenStaysFit DEF Moves
<1>4. word.owner # "SAFETY"
  BY PublisherKnows DEF PublishCall
<1>5. PublisherFits(p)'
  BY <1>2, <1>4 DEF Moves, PublisherFits, Publishing, Aborting, Abort
<1>6. pc'[p] \notin Abort
  BY <1>2 DEF Moves, Abort
<1> QED BY <1>1, <1>2, <1>3, <1>5, <1>6, PublisherStep DEF Moves

LEMMA PublishLoadStep ==
  ASSUME IInv, NEW p \in Publisher, PublishLoad(p)
  PROVE  IInv'
<1>1. UNCHANGED globals /\ Keeps(p) /\ pc[p] = "load"
  BY UnchangedKeeps DEF PublishLoad, At
<1>2. CASE Return(p)
  BY <1>1, <1>2, PublisherReturns
<1>3. CASE ~pub.reserved /\ LoadPub(p) /\ Goto(p, "recheck") /\ UNCHANGED <<seenWord, seenClaim>>
  <2>1. "recheck" \in PublisherLabel /\ "recheck" \in Label /\ pub \in Publication
    BY LabelsAreLabels DEF PublisherLabel, IInv, GlobalsTyped
  <2>2. Moves(p, "recheck", seenWord[p], pub, seenClaim[p])
    BY <1>3, <2>1, PublisherKnows, LoadPubMoves DEF LoadPub
  <2>3. SeenFits(p)'
    <3>1. pub.epoch >= 1
      BY PublisherKnows DEF Globally, EpochsFit
    <3> QED BY <1>1, <2>2, <3>1, PublisherKnows DEF Moves, SeenFits, globals
  <2>4. PublisherFits(p)'
    BY <1>1, <1>3, <2>2, PublisherKnows DEF Moves, PublisherFits, Publishing, Aborting, Abort
  <2>5. pc'[p] \notin Abort
    BY <2>2 DEF Moves, Abort
  <2> QED BY <1>1, <2>1, <2>2, <2>3, <2>4, <2>5, PublisherStep DEF Moves
<1> QED BY <1>2, <1>3 DEF PublishLoad

LEMMA PublishRecheckStep ==
  ASSUME IInv, NEW p \in Publisher, PublishRecheck(p)
  PROVE  IInv'
<1>1. UNCHANGED globals /\ Keeps(p) /\ pc[p] = "recheck"
  BY UnchangedKeeps DEF PublishRecheck, At
<1>2. CASE Return(p)
  BY <1>1, <1>2, PublisherReturns
<1>3. CASE word = seenWord[p] /\ Continue(p, "publish")
  <2>1. "publish" \in PublisherLabel /\ "publish" \in Label
    BY LabelsAreLabels DEF PublisherLabel
  <2>2. Moves(p, "publish", seenWord[p], seenPub[p], seenClaim[p])
    BY <1>3, <2>1, PublisherKnows, ContinueMoves
  <2>3. SeenFits(p)'
    BY <1>1, <2>2, PublisherKnows, SeenStaysFit DEF Moves
  <2>4. PublisherFits(p)'
    BY <1>1, <1>3, <2>2, PublisherKnows
       DEF Moves, PublisherFits, Publishing, Aborting, Abort, globals
  <2>5. pc'[p] \notin Abort
    BY <2>2 DEF Moves, Abort
  <2> QED BY <1>1, <2>1, <2>2, <2>3, <2>4, <2>5, PublisherStep DEF Moves
<1> QED BY <1>2, <1>3 DEF PublishRecheck

LEMMA PublishSwapStep ==
  ASSUME IInv, NEW p \in Publisher, PublishSwap(p)
  PROVE  IInv'
<1>1. Keeps(p)
  BY OrdinarySwap DEF PublishSwap, At
<1> QED BY <1>1, PublisherReturns DEF PublishSwap

LEMMA AbortCallStep ==
  ASSUME IInv, NEW p \in Publisher, AbortCall(p)
  PROVE  IInv'
<1>1. "abort" \in PublisherLabel /\ "abort" \in Label /\ word \in Word
  BY LabelsAreLabels DEF PublisherLabel, IInv, GlobalsTyped
<1>2. Moves(p, "abort", word, seenPub[p], seenClaim[p]) /\ UNCHANGED globals /\ Keeps(p)
  BY <1>1, PublisherKnows, LoadWordMoves, UnchangedKeeps DEF AbortCall
<1>3. SeenFits(p)'
  BY <1>2, PublisherKnows, SeenStaysFit DEF Moves
<1>4. word.ticket <= acked'
  BY <1>2, PublisherKnows DEF AbortCall, Unacknowledged, globals
<1>5. PublisherFits(p)'
  BY <1>2, <1>4 DEF Moves, PublisherFits, Publishing, Aborting, Abort, AbortCall
<1>6. pc'[p] \notin Abort
  BY <1>2 DEF Moves, Abort
<1> QED BY <1>1, <1>2, <1>3, <1>5, <1>6, PublisherStep DEF Moves

(* The reservation in the word is set or cleared.                          *)
LEMMA ReservationKeeps ==
  ASSUME IInv, NEW p \in Publisher, NEW b \in BOOLEAN,
         word' = [word EXCEPT !.reserved = b],
         word.owner = "PROGRAM" /\ ~word.handshake /\ ~Unacknowledged,
         UNCHANGED <<acked, pub, claim, epochAck, fenced>>,
         b \/ pc[p] \in Abort
  PROVE  Keeps(p) /\ word'.gen = word.gen /\ (word'.reserved <=> b)
<1>1. /\ word'.owner = word.owner /\ word'.gen = word.gen /\ word'.ticket = word.ticket
      /\ word'.handshake = word.handshake /\ word'.reserved = b /\ word' \in Word
  BY PublisherKnows DEF GlobalsTyped, Word
<1>2. GlobalsTyped'
  BY <1>1, PublisherKnows DEF GlobalsTyped
<1>3. Quiet
  BY <1>1, GlobalTypes DEF IInv, Quiet
<1>4. Advances
  BY <1>2, <1>3, QuietAdvances DEF IInv
<1>5. Unacknowledged' <=> Unacknowledged
  BY <1>1 DEF Unacknowledged
<1>6. Globally'
  BY <1>1, <1>5, PublisherKnows DEF Globally, WordFits, EpochsFit, Takeover, Open
<1> QED BY <1>1, <1>2, <1>4, <1>5, <1>6, PublisherKnows DEF Keeps, IInv, RtPublishing

LEMMA AbortReserveStep ==
  ASSUME IInv, NEW p \in Publisher, AbortReserve(p)
  PROVE  IInv'
<1>1. UNCHANGED <<acked, pub, claim, epochAck, fenced>> /\ pc[p] = "abort"
  BY DEF AbortReserve, At
<1>2. CASE UNCHANGED word /\ Return(p)
  BY <1>1, <1>2, PublisherReturns, UnchangedKeeps DEF globals
<1>3. CASE word = seenWord[p] /\ word' = [word EXCEPT !.reserved = TRUE]
           /\ Continue(p, "abort load")
  <2>1. word.owner = "PROGRAM" /\ ~word.handshake /\ ~word.reserved /\ word.ticket <= acked
    BY <1>1, <1>3, PublisherKnows DEF Aborting
  <2>2. ~Unacknowledged
    <3>1. acked <= word.ticket
      BY PublisherKnows DEF Globally, WordFits
    <3> QED BY <2>1, <3>1, PublisherKnows DEF Unacknowledged
  <2>3. Keeps(p) /\ word'.gen = word.gen /\ word'.reserved
    BY <1>1, <1>3, <2>1, <2>2, ReservationKeeps
  <2>4. "abort load" \in PublisherLabel /\ "abort load" \in Label
    BY LabelsAreLabels DEF PublisherLabel
  <2>5. Moves(p, "abort load", seenWord[p], seenPub[p], seenClaim[p])
    BY <1>3, <2>4, PublisherKnows, ContinueMoves
  <2>6. SeenFits(p)'
    BY <2>3, <2>5, PublisherKnows, SeenStaysFit DEF Moves
  <2>7. PublisherFits(p)'
    BY <1>3, <2>3, <2>5 DEF Moves, PublisherFits, Publishing, Aborting, Abort
  <2> QED BY <2>1, <2>3, <2>4, <2>5, <2>6, <2>7, PublisherStep DEF Moves
<1> QED BY <1>2, <1>3 DEF AbortReserve

LEMMA AbortLoadStep ==
  ASSUME IInv, NEW p \in Publisher, AbortLoad(p)
  PROVE  IInv'
<1>1. UNCHANGED globals /\ Keeps(p) /\ pc[p] = "abort load"
  BY UnchangedKeeps DEF AbortLoad, At, globals
<1> DEFINE l == IF pub.reserved THEN "abort end" ELSE "abort swap"
<1>2. l \in PublisherLabel /\ l \in Label /\ l \in Abort /\ pub \in Publication
  BY LabelsAreLabels DEF PublisherLabel, Abort, IInv, GlobalsTyped
<1>3. Goto(p, l) /\ LoadPub(p) /\ UNCHANGED <<seenWord, seenClaim>>
  BY DEF AbortLoad, globals
<1>4. l \in {"abort end", "abort swap"} /\ (l = "abort swap" => ~pub.reserved)
  OBVIOUS
<1> HIDE DEF l
<1>5. Moves(p, l, seenWord[p], pub, seenClaim[p])
  BY <1>2, <1>3, PublisherKnows, LoadPubMoves DEF LoadPub
<1>6. SeenFits(p)'
  <2>1. pub.epoch >= 1
    BY PublisherKnows DEF Globally, EpochsFit
  <2>2. pub.epoch \in Nat /\ pub' = pub /\ seenPub'[p] = pub
    BY <1>1, <1>5, PublisherKnows DEF Moves, globals
  <2> QED BY <2>1, <2>2 DEF SeenFits
<1>7. word.reserved /\ word.gen = seenWord[p].gen
  BY <1>1, PublisherKnows DEF Aborting, Abort
<1>8. PublisherFits(p)'
  <2>1. Publishing(p)'
    BY <1>1, <1>4, <1>5 DEF Moves, Publishing
  <2>2. Aborting(p)'
    BY <1>1, <1>4, <1>5, <1>7 DEF Moves, Aborting, globals
  <2> QED BY <2>1, <2>2 DEF PublisherFits
<1>9. pc[p] \in Abort
  BY <1>1 DEF Abort
<1> QED BY <1>1, <1>2, <1>5, <1>6, <1>8, <1>9, PublisherStep DEF Moves

LEMMA AbortSwapStep ==
  ASSUME IInv, NEW p \in Publisher, AbortSwap(p)
  PROVE  IInv'
<1>1. Keeps(p) /\ pc[p] = "abort swap" /\ UNCHANGED word /\ Continue(p, "abort end")
  BY OrdinarySwap DEF AbortSwap, At
<1>2. "abort end" \in PublisherLabel /\ "abort end" \in Label
  BY LabelsAreLabels DEF PublisherLabel
<1>3. Moves(p, "abort end", seenWord[p], seenPub[p], seenClaim[p])
  BY <1>1, <1>2, PublisherKnows, ContinueMoves
<1>4. SeenFits(p)'
  BY <1>1, <1>3, PublisherKnows, SeenStaysFit DEF Moves
<1>5. PublisherFits(p)' /\ pc[p] \in Abort
  BY <1>1, <1>3, PublisherKnows DEF Moves, PublisherFits, Publishing, Aborting, Abort
<1> QED BY <1>1, <1>2, <1>3, <1>4, <1>5, PublisherStep DEF Moves

LEMMA AbortEndStep ==
  ASSUME IInv, NEW p \in Publisher, AbortEnd(p)
  PROVE  IInv'
<1>1. pc[p] \in Abort
  BY DEF AbortEnd, At, Abort
<1>2. word.owner = "PROGRAM" /\ ~word.handshake /\ ~Unacknowledged
  BY <1>1, PublisherKnows DEF Aborting, Globally, WordFits
<1>3. Keeps(p)
  BY <1>1, <1>2, ReservationKeeps DEF AbortEnd
<1> QED BY <1>3, PublisherReturns DEF AbortEnd

-----------------------------------------------------------------------------
(* The steps of the motion thread, which publishes SAFETY's epochs.        *)

LEMMA RtKnows ==
  ASSUME IInv
  PROVE  /\ GlobalsTyped /\ LocalsTyped /\ Globally /\ SeenFits(Rt) /\ Rt \in Thread
         /\ pub.epoch \in Nat /\ seenPub[Rt].epoch \in Nat
BY SeenTypes, GlobalTypes, Disjoint DEF IInv

LEMMA RtReturns ==
  ASSUME IInv, Keeps(Rt), Return(Rt)
  PROVE  IInv'
<1>1. Moves(Rt, "idle", NoMotion, FirstEpoch, Nothing)
  BY RtKnows, ReturnMoves
<1>2. SeenFits(Rt)'
  BY <1>1, FirstFits DEF Moves, Keeps
<1>3. RtPublishing' /\ pc'[Rt] \in RtLabel
  BY <1>1 DEF Moves, RtPublishing, RtLabel
<1> QED BY <1>1, <1>2, <1>3, RtStep DEF Moves

LEMMA RtCallStep ==
  ASSUME IInv, PublishCall(Rt)
  PROVE  IInv'
<1>1. "load" \in RtLabel /\ "load" \in Label /\ word \in Word
  BY LabelsAreLabels DEF RtLabel, IInv, GlobalsTyped
<1>2. Moves(Rt, "load", word, seenPub[Rt], seenClaim[Rt]) /\ UNCHANGED globals /\ Keeps(Rt)
  BY <1>1, RtKnows, LoadWordMoves, UnchangedKeeps DEF PublishCall
<1>3. SeenFits(Rt)'
  BY <1>2, RtKnows, SeenStaysFit DEF Moves
<1>4. RtPublishing'
  BY <1>2 DEF Moves, RtPublishing, PublishCall, Unacknowledged, globals
<1> QED BY <1>1, <1>2, <1>3, <1>4, RtStep DEF Moves

LEMMA RtLoadStep ==
  ASSUME IInv, PublishLoad(Rt)
  PROVE  IInv'
<1>1. UNCHANGED globals /\ Keeps(Rt) /\ pc[Rt] = "load"
  BY UnchangedKeeps DEF PublishLoad, At
<1>2. CASE Return(Rt)
  BY <1>1, <1>2, RtReturns
<1>3. CASE ~pub.reserved /\ LoadPub(Rt) /\ Goto(Rt, "recheck")
           /\ UNCHANGED <<seenWord, seenClaim>>
  <2>1. "recheck" \in RtLabel /\ "recheck" \in Label /\ pub \in Publication
    BY LabelsAreLabels DEF RtLabel, IInv, GlobalsTyped
  <2>2. Moves(Rt, "recheck", seenWord[Rt], pub, seenClaim[Rt])
    BY <1>3, <2>1, RtKnows, LoadPubMoves DEF LoadPub
  <2>3. SeenFits(Rt)'
    <3>1. pub.epoch >= 1
      BY RtKnows DEF Globally, EpochsFit
    <3>2. pub.epoch \in Nat /\ pub' = pub /\ seenPub'[Rt] = pub
      BY <1>1, <2>2, RtKnows DEF Moves, globals
    <3> QED BY <3>1, <3>2 DEF SeenFits
  <2>4. RtPublishing'
    BY <1>1, <1>3, <2>2 DEF Moves, RtPublishing, Unacknowledged, globals, IInv
  <2> QED BY <1>1, <2>1, <2>2, <2>3, <2>4, RtStep DEF Moves
<1> QED BY <1>2, <1>3 DEF PublishLoad

LEMMA RtRecheckStep ==
  ASSUME IInv, PublishRecheck(Rt)
  PROVE  IInv'
<1>1. UNCHANGED globals /\ Keeps(Rt) /\ pc[Rt] = "recheck"
  BY UnchangedKeeps DEF PublishRecheck, At
<1>2. CASE Return(Rt)
  BY <1>1, <1>2, RtReturns
<1>3. CASE Continue(Rt, "publish")
  <2>1. "publish" \in RtLabel /\ "publish" \in Label
    BY LabelsAreLabels DEF RtLabel
  <2>2. Moves(Rt, "publish", seenWord[Rt], seenPub[Rt], seenClaim[Rt])
    BY <1>3, <2>1, RtKnows, ContinueMoves
  <2>3. SeenFits(Rt)'
    BY <1>1, <2>2, RtKnows, SeenStaysFit DEF Moves
  <2>4. RtPublishing'
    BY <1>1, <2>2 DEF Moves, RtPublishing, Unacknowledged, globals, IInv
  <2> QED BY <1>1, <2>1, <2>2, <2>3, <2>4, RtStep DEF Moves
<1> QED BY <1>2, <1>3 DEF PublishRecheck

LEMMA RtSwapStep ==
  ASSUME IInv, PublishSwap(Rt)
  PROVE  IInv'
<1>1. SwapPublication(Rt, Successor(Rt)) /\ UNCHANGED <<word, acked, claim, epochAck>>
      /\ Return(Rt) /\ pc[Rt] = "publish"
  BY DEF PublishSwap, At
<1>2. CASE pub # seenPub[Rt]
  BY <1>1, <1>2, UnchangedKeeps, RtReturns DEF SwapPublication, globals
<1>3. CASE pub = seenPub[Rt]
  <2>1. pub.epoch \in Nat
    BY RtKnows
  <2>2. PICK e \in Nat : e = pub.epoch + 1
    BY <2>1
  <2>3. pub' = [epoch |-> e, source |-> "SAFETY", pending |-> TRUE, reserved |-> FALSE]
    BY <1>1, <1>3, <2>2 DEF SwapPublication, Successor
  <2>4. pub' \in Publication /\ pub'.epoch = e /\ pub'.source = "SAFETY"
    BY <2>3 DEF Publication
  <2>5. fenced' = TRUE
    BY <1>1, <1>3 DEF SwapPublication, Successor
  <2>6. ~pub.reserved /\ word.owner = "SAFETY" /\ ~word.handshake
    BY <1>1, <1>3 DEF IInv, RtPublishing
  <2>7. epochAck.gen = word.gen /\ claim.gen = word.gen
    BY <2>6, RtKnows DEF Globally, Takeover
  <2>8. Fences
    BY <1>1, <2>2, <2>4, <2>5, <2>6 DEF Fences
  <2>9. Keeps(Rt)
    BY <2>6, <2>7, <2>8, FencesKeep
  <2> QED BY <1>1, <2>9, RtReturns
<1> QED BY <1>2, <1>3

-----------------------------------------------------------------------------
(* The steps of a lifecycle commit.                                        *)

LEMMA CommitterKnows ==
  ASSUME IInv, NEW c \in Committer
  PROVE  GlobalsTyped /\ LocalsTyped /\ Globally /\ SeenFits(c) /\ Committing(c)
         /\ c \in Thread /\ pub \in Publication /\ pub.epoch \in Nat
BY GlobalTypes, Disjoint DEF IInv, GlobalsTyped

LEMMA CommitterReturns ==
  ASSUME IInv, NEW c \in Committer, Keeps(c), Return(c)
  PROVE  IInv'
<1>1. Moves(c, "idle", NoMotion, FirstEpoch, Nothing)
  BY CommitterKnows, ReturnMoves
<1>2. SeenFits(c)'
  BY <1>1, FirstFits DEF Moves, Keeps
<1>3. Committing(c)' /\ pc'[c] \in CommitterLabel /\ pc'[c] \notin Reserving
  BY <1>1 DEF Moves, Committing, CommitterLabel, Reserving
<1> QED BY <1>1, <1>2, <1>3, CommitterStep DEF Moves

LEMMA CommitCallStep ==
  ASSUME IInv, NEW c \in Committer, CommitCall(c)
  PROVE  IInv'
<1>1. "reserve" \in CommitterLabel /\ "reserve" \in Label /\ word \in Word
  BY LabelsAreLabels DEF CommitterLabel, IInv, GlobalsTyped
<1>2. Moves(c, "reserve", word, seenPub[c], seenClaim[c]) /\ Keeps(c)
  BY <1>1, CommitterKnows, LoadWordMoves, UnchangedKeeps DEF CommitCall
<1>3. SeenFits(c)'
  BY <1>2, CommitterKnows, SeenStaysFit DEF Moves
<1>4. Committing(c)' /\ pc'[c] \notin Reserving
  BY <1>2 DEF Moves, Committing, Reserving
<1> QED BY <1>1, <1>2, <1>3, <1>4, CommitterStep DEF Moves

(* The reservation in the publication is set or cleared.                   *)
LEMMA CommitKeeps ==
  ASSUME IInv, NEW c \in Committer, NEW b \in BOOLEAN,
         pub' = [pub EXCEPT !.reserved = b],
         UNCHANGED <<word, acked, claim, epochAck, fenced>>,
         ~pub.reserved \/ pc[c] \in Reserving
  PROVE  Keeps(c) /\ pub' \in Publication
<1>1. pub'.epoch = pub.epoch /\ pub'.source = pub.source /\ pub' \in Publication
  BY CommitterKnows DEF Publication
<1>2. GlobalsTyped'
  BY <1>1, CommitterKnows DEF GlobalsTyped
<1>3. Quiet
  BY <1>1, GlobalTypes DEF IInv, Quiet
<1>4. Advances
  BY <1>2, <1>3, QuietAdvances DEF IInv
<1>5. Unacknowledged' <=> Unacknowledged
  BY DEF Unacknowledged
<1>6. Globally'
  BY <1>1, <1>5, CommitterKnows DEF Globally, WordFits, EpochsFit, Takeover, Open
<1> QED BY <1>1, <1>2, <1>4, <1>5, <1>6 DEF Keeps, IInv, RtPublishing

LEMMA CommitReserveStep ==
  ASSUME IInv, NEW c \in Committer, CommitReserve(c)
  PROVE  IInv'
<1>1. CASE UNCHANGED <<word, acked, pub, claim, epochAck, fenced>> /\ Return(c)
  BY <1>1, CommitterReturns, UnchangedKeeps DEF globals
<1>2. CASE /\ ~pub.reserved /\ pub' = [pub EXCEPT !.reserved = TRUE]
           /\ seenPub' = [seenPub EXCEPT ![c] = pub']
           /\ Goto(c, "recheck") /\ UNCHANGED <<seenWord, seenClaim>>
           /\ UNCHANGED <<word, acked, claim, epochAck, fenced>>
  <2>1. Keeps(c) /\ pub' \in Publication
    BY <1>2, CommitKeeps
  <2>2. "recheck" \in CommitterLabel /\ "recheck" \in Label
    BY LabelsAreLabels DEF CommitterLabel
  <2>3. Moves(c, "recheck", seenWord[c], pub', seenClaim[c])
    BY <1>2, <2>1, <2>2, CommitterKnows, LoadPubMoves
  <2>4. pub'.reserved
    BY <1>2, CommitterKnows DEF Publication
  <2>5. SeenFits(c)'
    <3>1. pub'.epoch \in Nat /\ pub'.epoch >= 1
      BY <2>1 DEF Keeps, GlobalsTyped, Publication, Globally, EpochsFit
    <3> QED BY <2>3, <3>1 DEF Moves, SeenFits
  <2>6. Committing(c)'
    BY <2>3, <2>4 DEF Moves, Committing
  <2> QED BY <1>2, <2>1, <2>2, <2>3, <2>5, <2>6, CommitterStep DEF Moves
<1> QED BY <1>1, <1>2 DEF CommitReserve

LEMMA CommitGoesOn ==
  ASSUME IInv, NEW c \in Committer, UNCHANGED globals, pc[c] \in Reserving,
         NEW l \in Reserving, Continue(c, l)
  PROVE  IInv'
<1>1. l \in CommitterLabel /\ l \in Label
  BY LabelsAreLabels DEF CommitterLabel, Reserving
<1>2. Moves(c, l, seenWord[c], seenPub[c], seenClaim[c]) /\ Keeps(c)
  BY <1>1, CommitterKnows, ContinueMoves, UnchangedKeeps
<1>3. SeenFits(c)'
  BY <1>2, CommitterKnows, SeenStaysFit DEF Moves
<1>4. Committing(c)'
  BY <1>2, CommitterKnows DEF Moves, Committing, globals
<1> QED BY <1>1, <1>2, <1>3, <1>4, CommitterStep DEF Moves

LEMMA CommitRecheckStep ==
  ASSUME IInv, NEW c \in Committer, CommitRecheck(c) \/ Commit(c)
  PROVE  IInv'
<1>1. pc[c] \in Reserving /\ UNCHANGED globals
  BY DEF CommitRecheck, Commit, At, Reserving
<1>2. "commit" \in Reserving /\ "release" \in Reserving
  BY DEF Reserving
<1>3. Continue(c, "commit") \/ Continue(c, "release")
  BY DEF CommitRecheck, Commit
<1> QED BY <1>1, <1>2, <1>3, CommitGoesOn

LEMMA CommitReleaseStep ==
  ASSUME IInv, NEW c \in Committer, CommitRelease(c)
  PROVE  IInv'
<1>1. pc[c] \in Reserving
  BY DEF CommitRelease, At, Reserving
<1>2. Keeps(c)
  BY <1>1, CommitKeeps DEF CommitRelease
<1> QED BY <1>2, CommitterReturns DEF CommitRelease

-----------------------------------------------------------------------------
LEMMA InitIInv ==
  ASSUME Init
  PROVE  IInv
<1>1. /\ GlobalsTyped /\ LocalsTyped
      /\ \A t \in Thread : pc[t] = "idle" /\ seenPub[t] = FirstEpoch /\ seenClaim[t] = Nothing
  <2>1. "idle" \in Label
    BY DEF Label, HelperLabel
  <2> QED BY <2>1, InitialTypes DEF Init, GlobalsTyped, LocalsTyped
<1>2. Globally
  BY DEF Init, Globally, WordFits, EpochsFit, Takeover, Open, Unacknowledged,
         NoMotion, FirstEpoch, Nothing
<1>3. \A t \in Thread : SeenFits(t)
  BY <1>1 DEF Init, SeenFits, FirstEpoch
<1>4. Labels /\ RtPublishing /\ OneAborts /\ OneCommits
  BY <1>1, Disjoint DEF Labels, HelperLabel, PublisherLabel, RtLabel, CommitterLabel,
     RtPublishing, OneAborts, OneCommits, Abort, Reserving
<1>5. \A h \in Helper : HelperFits(h)
  <2>1. \A h \in Helper : seenClaim[h].epoch <= pub.epoch /\ pc[h] = "idle"
    <3>1. Nothing.epoch = 0 /\ pub.epoch = 1
      BY DEF Init, Nothing, FirstEpoch
    <3>2. \A h \in Helper : seenClaim[h] = Nothing /\ pc[h] = "idle"
      BY <1>1, Disjoint
    <3>3. 0 <= 1
      OBVIOUS
    <3>4. Nothing.epoch <= pub.epoch
      BY <3>1, <3>3
    <3> QED BY <3>2, <3>4
  <2> QED BY <2>1 DEF HelperFits, Helping, Predecessor, Confirming
<1>6. \A p \in Publisher : PublisherFits(p)
  BY <1>1, Disjoint DEF PublisherFits, Publishing, Aborting, Abort
<1>7. \A c \in Committer : Committing(c)
  BY <1>1, Disjoint DEF Committing, Reserving
<1> QED BY <1>1, <1>2, <1>3, <1>4, <1>5, <1>6, <1>7 DEF IInv

LEMMA NextIInv ==
  ASSUME IInv, [Next]_vars
  PROVE  IInv'
<1>1. CASE Ownership
  BY <1>1, RequestSafetyStep, AcquireOrdinaryStep, TakeSafetyStep, AcknowledgeStep, ReleaseStep
     DEF Ownership
<1>2. ASSUME NEW h \in Helper, EnsureSafetyMotionOwnerEpoch(h) PROVE IInv'
  BY <1>2, EnsureCallStep, EnsureLoadWordStep, EnsureInspectStep, EnsureCloseStep,
     EnsureClaimStep, EnsureRecheckAckStep, EnsureRereadPubStep, EnsurePublishStep,
     EnsureAdvanceStep, EnsureConfirmStep, EnsureAcknowledgeStep
     DEF EnsureSafetyMotionOwnerEpoch
<1>3. ASSUME NEW p \in Publisher, PublishNewExecutionEpoch(p) PROVE IInv'
  BY <1>3, PublishCallStep, PublishLoadStep, PublishRecheckStep, PublishSwapStep
     DEF PublishNewExecutionEpoch
<1>4. ASSUME NEW p \in Publisher, TryPublishOwnerAuthorizedAbortingExecutionEpoch(p) PROVE IInv'
  BY <1>4, AbortCallStep, AbortReserveStep, AbortLoadStep, AbortSwapStep, AbortEndStep
     DEF TryPublishOwnerAuthorizedAbortingExecutionEpoch
<1>5. CASE PublishNewExecutionEpoch(Rt)
  BY <1>5, RtCallStep, RtLoadStep, RtRecheckStep, RtSwapStep DEF PublishNewExecutionEpoch
<1>6. ASSUME NEW c \in Committer, LifecycleCommit(c) PROVE IInv'
  BY <1>6, CommitCallStep, CommitReserveStep, CommitRecheckStep, CommitReleaseStep
     DEF LifecycleCommit
<1>7. CASE ApplyPendingExecutionEpochChange
  BY <1>7, ApplyStep
<1>8. CASE UNCHANGED vars
  <2>1. UNCHANGED globals /\ UNCHANGED <<pc, locals>>
    BY <1>8 DEF vars
  <2>2. RtPublishing'
    BY <2>1 DEF IInv, RtPublishing, Unacknowledged, globals, locals
  <2> QED BY <2>1, <2>2, UnchangedKeeps, EnvironmentStep
<1> QED BY <1>1, <1>2, <1>3, <1>4, <1>5, <1>6, <1>7, <1>8 DEF Next

(* The inductive invariant holds in every reachable state, however the     *)
(* helpers, the publishers, the motion thread and the commits interleave.  *)
THEOREM Invariance == Spec => []IInv
<1>1. Init => IInv
  BY InitIInv
<1>2. IInv /\ [Next]_vars => IInv'
  BY NextIInv
<1> QED BY <1>1, <1>2, PTL DEF Spec

(* Every variable keeps its type, and a claim and an acknowledgement name  *)
(* epochs that have been published.                                        *)
THEOREM TypeCorrect == Spec => []TypeOK
<1>1. IInv => TypeOK
  BY DEF IInv, TypeOK, GlobalsTyped, LocalsTyped, Label, HelperLabel, PublisherLabel, RtLabel,
         CommitterLabel, Globally, EpochsFit
<1> QED BY <1>1, Invariance, PTL

(* The handshake of EnsureSafetyMotionOwnerEpoch is closed only behind a   *)
(* SAFETY epoch acknowledged for the owner's generation.                   *)
THEOREM ClosedMeansFenced == Spec => []ClosedTakeoverIsFenced
<1>1. IInv => ClosedTakeoverIsFenced
  BY DEF IInv, Globally, EpochsFit, Takeover, ClosedTakeoverIsFenced
<1> QED BY <1>1, Invariance, PTL

(* The lifecycle commit releases the publication it reserved.              *)
THEOREM CommitsAreExact == Spec => []CommitReservationExact
<1>1. IInv => CommitReservationExact
  BY DEF IInv, Committing, Reserving, CommitReservationExact
<1> QED BY <1>1, Invariance, PTL

(* No safety ticket appears between the owner proof of an aborting         *)
(* publication and its compare-exchange.                                   *)
THEOREM AbortsPrecedeSafety == Spec => []AbortingEpochPrecedesSafety
<1>1. IInv => AbortingEpochPrecedesSafety
  BY DEF IInv, PublisherFits, Aborting, Abort, Globally, WordFits, AbortingEpochPrecedesSafety
<1> QED BY <1>1, Invariance, PTL

-----------------------------------------------------------------------------
(* The handshake implements the abstract takeover.                         *)

LEMMA Standstill ==
  ASSUME word'.owner = word.owner, word'.gen = word.gen, word'.handshake <=> word.handshake,
         fenced' <=> fenced, pub'.epoch = pub.epoch, pub'.source = pub.source
  PROVE  UNCHANGED Abstract!takeoverVars
BY DEF Abstract!takeoverVars

LEMMA AbstractOwnership ==
  ASSUME IInv, Ownership
  PROVE  [Abstract!TakeoverNext]_Abstract!takeoverVars
<1>1. word \in Word
  BY DEF IInv, GlobalsTyped
<1>2. CASE RequestSafety
  <2>1. /\ word'.owner = word.owner /\ word'.gen = word.gen /\ word'.handshake = word.handshake
        /\ UNCHANGED <<pub, fenced>>
    BY <1>1, <1>2 DEF RequestSafety, Word
  <2> QED BY <2>1, Standstill
<1>3. CASE Acknowledge
  BY <1>3, Standstill DEF Acknowledge
<1>4. CASE AcquireOrdinary
  <2>1. /\ word'.owner = "PROGRAM" /\ word'.gen = word.gen + 1 /\ word.owner = "NONE"
        /\ UNCHANGED <<pub, fenced>>
    BY <1>1, <1>4 DEF AcquireOrdinary, Word
  <2>2. Abstract!ChangeOwner
    BY <2>1 DEF Abstract!ChangeOwner
  <2> QED BY <2>2 DEF Abstract!TakeoverNext
<1>5. CASE TakeSafety
  <2>1. /\ word'.owner = "SAFETY" /\ word'.gen = word.gen + 1 /\ word'.handshake = TRUE
        /\ word.owner # "SAFETY" /\ fenced' = FALSE /\ pub' = pub
    BY <1>1, <1>5 DEF TakeSafety, Word
  <2>2. Abstract!TakeOver
    BY <2>1 DEF Abstract!TakeOver
  <2> QED BY <2>2 DEF Abstract!TakeoverNext
<1>6. CASE Release
  <2>1. /\ word'.owner = "NONE" /\ word'.gen = word.gen + 1 /\ ~word.handshake
        /\ UNCHANGED <<pub, fenced>>
    BY <1>1, <1>6 DEF Release, Word
  <2>2. CASE word.owner = "SAFETY"
    <3>1. Abstract!Release
      BY <2>1, <2>2 DEF Abstract!Release
    <3> QED BY <3>1 DEF Abstract!TakeoverNext
  <2>3. CASE word.owner # "SAFETY"
    <3>1. Abstract!ChangeOwner
      BY <2>1, <2>3 DEF Abstract!ChangeOwner
    <3> QED BY <3>1 DEF Abstract!TakeoverNext
  <2> QED BY <2>2, <2>3
<1> QED BY <1>2, <1>3, <1>4, <1>5, <1>6 DEF Ownership

LEMMA AbstractHelper ==
  ASSUME IInv, NEW h \in Helper, EnsureSafetyMotionOwnerEpoch(h)
  PROVE  [Abstract!TakeoverNext]_Abstract!takeoverVars
<1>1. CASE UNCHANGED <<word, pub, fenced>>
  BY <1>1, Standstill
<1>2. CASE EnsureClose(h) /\ word' # word
  <2>1. /\ pc[h] = "close" /\ word = seenWord[h] /\ UNCHANGED <<pub, fenced>>
        /\ word' = [word EXCEPT !.handshake = FALSE]
    BY <1>2 DEF EnsureClose, At
  <2>2. word'.owner = word.owner /\ word'.gen = word.gen /\ ~word'.handshake
    BY <2>1, HelperKnows DEF GlobalsTyped, Word
  <2>3. word.owner = "SAFETY" /\ epochAck.gen >= word.gen
    BY <2>1, HelperKnows DEF Helping
  <2>4. fenced
    BY <2>3, HelperKnows DEF Globally, Takeover
  <2>5. CASE word.handshake
    <3>1. Abstract!Complete
      BY <2>1, <2>2, <2>3, <2>4, <2>5 DEF Abstract!Complete
    <3> QED BY <3>1 DEF Abstract!TakeoverNext
  <2>6. CASE ~word.handshake
    BY <2>1, <2>2, <2>6, Standstill
  <2> QED BY <2>5, <2>6
<1>3. CASE EnsurePublish(h) /\ pub' # pub
  <2>1. /\ pc[h] = "publish" /\ pub = seenPub[h] /\ UNCHANGED word /\ fenced' = TRUE
        /\ pub' = [epoch |-> pub.epoch + 1, source |-> "SAFETY", pending |-> TRUE,
                   reserved |-> FALSE]
    BY <1>3 DEF EnsurePublish, At
  <2>2. pub'.epoch = pub.epoch + 1 /\ pub'.source = "SAFETY"
    BY <2>1
  <2>3. Open(seenWord[h].gen)
    BY <2>1, HelperKnows DEF Predecessor
  <2>4. word.owner = "SAFETY" /\ word.handshake /\ ~fenced
    BY <2>3 DEF Open
  <2>5. Abstract!Fence
    BY <2>1, <2>2, <2>4 DEF Abstract!Fence
  <2> QED BY <2>5 DEF Abstract!TakeoverNext
<1>4. \/ UNCHANGED <<word, pub, fenced>>
      \/ EnsureClose(h) /\ word' # word
      \/ EnsurePublish(h) /\ pub' # pub
  <2>1. CASE EnsureClose(h)
    BY <2>1 DEF EnsureClose
  <2>2. CASE EnsurePublish(h)
    <3>1. UNCHANGED <<word, pub, fenced>> \/ pub' = [epoch |-> pub.epoch + 1,
             source |-> "SAFETY", pending |-> TRUE, reserved |-> FALSE]
      BY <2>2 DEF EnsurePublish
    <3>2. pub.epoch + 1 # pub.epoch
      BY HelperKnows
    <3>3. UNCHANGED <<word, pub, fenced>> \/ pub'.epoch # pub.epoch
      BY <3>1, <3>2
    <3> QED BY <2>2, <3>3
  <2>3. CASE EnsureClaim(h) \/ EnsureAdvance(h) \/ EnsureAcknowledge(h)
    BY <2>3 DEF EnsureClaim, EnsureAdvance, EnsureAcknowledge
  <2>4. CASE UNCHANGED globals
    BY <2>4 DEF globals
  <2> QED BY <2>1, <2>2, <2>3, <2>4 DEF EnsureSafetyMotionOwnerEpoch, EnsureCall,
          EnsureLoadWord, EnsureInspect, EnsureRecheckAck, EnsureRereadPub, EnsureConfirm
<1> QED BY <1>1, <1>2, <1>3, <1>4

LEMMA AbstractPublisher ==
  ASSUME IInv, NEW p \in Publisher,
         PublishNewExecutionEpoch(p) \/ TryPublishOwnerAuthorizedAbortingExecutionEpoch(p)
  PROVE  [Abstract!TakeoverNext]_Abstract!takeoverVars
<1>1. CASE UNCHANGED globals
  BY <1>1, Standstill DEF globals
<1>2. CASE PublishSwap(p) \/ AbortSwap(p)
  <2>1. /\ pc[p] \in {"publish", "abort swap"} /\ UNCHANGED word
        /\ SwapPublication(p, Successor(p))
    BY <1>2 DEF PublishSwap, AbortSwap, At
  <2>2. CASE pub # seenPub[p]
    BY <2>1, <2>2, Standstill DEF SwapPublication
  <2>3. CASE pub = seenPub[p]
    <3>1. pub'.epoch = pub.epoch + 1 /\ pub'.source = "ordinary" /\ fenced' = FALSE
      BY <2>1, <2>3, PublisherKnows DEF SwapPublication, Successor
    <3>2. ASSUME word.owner = "SAFETY", fenced PROVE FALSE
      <4>1. pub.epoch \in Nat
        BY PublisherKnows
      <4>2. CASE pc[p] = "publish"
        <5>1. seenPub[p].epoch < pub.epoch
          BY <3>2, <4>2, PublisherKnows DEF Publishing
        <5> QED BY <2>3, <4>1, <5>1
      <4>3. CASE pc[p] = "abort swap"
        BY <3>2, <4>3, PublisherKnows DEF Aborting, Abort, Globally, WordFits
      <4> QED BY <2>1, <4>2, <4>3
    <3>3. word.owner = "SAFETY" => word.handshake
      BY <3>2, PublisherKnows DEF Globally, Takeover
    <3>4. Abstract!PublishOrdinary
      BY <2>1, <3>1, <3>2, <3>3 DEF Abstract!PublishOrdinary
    <3> QED BY <3>4 DEF Abstract!TakeoverNext
  <2> QED BY <2>2, <2>3
<1>3. CASE AbortReserve(p) \/ AbortEnd(p)
  <2>1. /\ word'.owner = word.owner /\ word'.gen = word.gen
        /\ word'.handshake = word.handshake /\ UNCHANGED <<pub, fenced>>
    BY <1>3, PublisherKnows DEF AbortReserve, AbortEnd, GlobalsTyped, Word
  <2> QED BY <2>1, Standstill
<1> QED BY <1>1, <1>2, <1>3 DEF PublishNewExecutionEpoch,
        TryPublishOwnerAuthorizedAbortingExecutionEpoch, PublishCall, PublishLoad,
        PublishRecheck, AbortCall, AbortLoad

LEMMA AbstractRt ==
  ASSUME IInv, PublishNewExecutionEpoch(Rt)
  PROVE  [Abstract!TakeoverNext]_Abstract!takeoverVars
<1>1. CASE UNCHANGED globals
  BY <1>1, Standstill DEF globals
<1>2. CASE PublishSwap(Rt)
  <2>1. pc[Rt] = "publish" /\ UNCHANGED word /\ SwapPublication(Rt, Successor(Rt))
    BY <1>2 DEF PublishSwap, At
  <2>2. CASE pub # seenPub[Rt]
    BY <2>1, <2>2, Standstill DEF SwapPublication
  <2>3. CASE pub = seenPub[Rt]
    <3>1. pub'.epoch = pub.epoch + 1 /\ pub'.source = "SAFETY"
      BY <2>1, <2>3 DEF SwapPublication, Successor
    <3>2. word.owner = "SAFETY" /\ ~word.handshake
      BY <2>1 DEF IInv, RtPublishing
    <3>3. Abstract!PublishSafety
      BY <2>1, <3>1, <3>2 DEF Abstract!PublishSafety
    <3> QED BY <3>3 DEF Abstract!TakeoverNext
  <2> QED BY <2>2, <2>3
<1> QED BY <1>1, <1>2 DEF PublishNewExecutionEpoch, PublishCall, PublishLoad, PublishRecheck

LEMMA AbstractQuiet ==
  ASSUME IInv, ApplyPendingExecutionEpochChange \/ \E c \in Committer : LifecycleCommit(c)
  PROVE  UNCHANGED Abstract!takeoverVars
<1>1. pub \in Publication
  BY DEF IInv, GlobalsTyped
<1>2. CASE ApplyPendingExecutionEpochChange
  <2>1. pub'.epoch = pub.epoch /\ pub'.source = pub.source /\ UNCHANGED <<word, fenced>>
    BY <1>1, <1>2 DEF ApplyPendingExecutionEpochChange, Publication
  <2> QED BY <2>1, Standstill
<1>3. ASSUME NEW c \in Committer, LifecycleCommit(c)
      PROVE  UNCHANGED Abstract!takeoverVars
  <2>1. CASE UNCHANGED globals
    BY <2>1, Standstill DEF globals
  <2>2. CASE CommitReserve(c) \/ CommitRelease(c)
    <3>1. pub'.epoch = pub.epoch /\ pub'.source = pub.source /\ UNCHANGED <<word, fenced>>
      BY <1>1, <2>2 DEF CommitReserve, CommitRelease, Publication
    <3> QED BY <3>1, Standstill
  <2> QED BY <1>3, <2>1, <2>2 DEF LifecycleCommit, CommitCall, CommitRecheck, Commit
<1> QED BY <1>2, <1>3

(* EnsureSafetyMotionOwnerEpoch and the publishers around it do what       *)
(* SafetyTakeover promises: one SAFETY epoch ends an open takeover, and    *)
(* no ordinary publisher gets past it.                                     *)
THEOREM HandshakeImplementsTakeover == Spec => TakeoverRefined
<1>1. Init => Abstract!TakeoverInit
  BY DEF Init, Abstract!TakeoverInit, NoMotion, FirstEpoch
<1>2. IInv /\ [Next]_vars => [Abstract!TakeoverNext]_Abstract!takeoverVars
  <2>1. ASSUME IInv, Next PROVE [Abstract!TakeoverNext]_Abstract!takeoverVars
    BY <2>1, AbstractOwnership, AbstractHelper, AbstractPublisher, AbstractRt, AbstractQuiet
       DEF Next
  <2>2. ASSUME UNCHANGED vars PROVE UNCHANGED Abstract!takeoverVars
    BY <2>2, Standstill DEF vars, globals
  <2> QED BY <2>1, <2>2
<1> QED BY <1>1, <1>2, Invariance, PTL
        DEF Spec, TakeoverRefined, Abstract!TakeoverSpec
=============================================================================
