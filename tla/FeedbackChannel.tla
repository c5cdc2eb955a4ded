--------------------------- MODULE FeedbackChannel ---------------------------
(***************************************************************************)
(* EDM53::Channel: the latest value of one real-time writer, for readers   *)
(* of other threads.  Two banks are written in turn.  Each has a sequence  *)
(* word, twice the publication it holds, odd while it is being written;    *)
(* then publication_ names the bank to read.                               *)
(*                                                                         *)
(* Every atomic store and load is a step.  The stores are releases and the *)
(* loads acquires, so those of one thread are seen in their order.  A word *)
(* is modelled by the number of the publication it was written for.        *)
(***************************************************************************)
EXTENDS Naturals

CONSTANTS
  Reader,    (* the threads that call Read                                 *)
  WordCount, (* words of a value                                           *)
  Last,      (* MaximumPublication()                                       *)
  Attempts   (* attempts of a read                                         *)

ASSUME ChannelAssumption ==
  WordCount \in Nat \ {0} /\ Last \in Nat \ {0} /\ Attempts \in Nat \ {0}

VARIABLES
  sequence,    (* the sequence word of each bank                           *)
  words,       (* the words of each bank                                   *)
  publication, (* publication_                                             *)
  next,        (* nextPublication_, of the writer                          *)
  writer,      (* where the writer is                                      *)
  written,     (* words it has stored                                      *)
  pc,          (* where each reader is                                     *)
  try,         (* attempts it has made                                     *)
  stamp,       (* the publication it reads                                 *)
  value,       (* the words it has loaded                                  *)
  loaded,      (* how many                                                 *)
  answer,      (* the answer of its last read                              *)
  floor        (* history: publication_ when the read was called           *)

banks == <<sequence, words>>
writerVars == <<next, writer, written>>
attemptVars == <<stamp, value, loaded>>
readerVars == <<pc, try, attemptVars, answer, floor>>
vars == <<banks, publication, writerVars, readerVars>>

Word == 1 .. WordCount
Bank == 0 .. 1
Closed == Last + 1

Register == INSTANCE LatestRegister WITH latest <- publication

Init ==
  /\ sequence = [b \in Bank |-> 0]
  /\ words = [b \in Bank |-> Register!Nothing]
  /\ publication = 0
  /\ next = 0 /\ writer = "idle" /\ written = 0
  /\ pc = [r \in Reader |-> "idle"]
  /\ try = [r \in Reader |-> 0]
  /\ stamp = [r \in Reader |-> 0]
  /\ value = [r \in Reader |-> Register!Nothing]
  /\ loaded = [r \in Reader |-> 0]
  /\ answer = [r \in Reader |-> Register!Status("Empty")]
  /\ floor = [r \in Reader |-> 0]

(* Mutant: there is one bank. *)
OnlyBank(p) == 0

BankOf(p) == p % 2

-----------------------------------------------------------------------------
(* Publish.                                                                *)

WriterAt(label) == writer = label
WriterTo(label) == writer' = label

PublishBegin ==
  /\ WriterAt("idle") /\ publication # Closed /\ next < Last
  /\ next' = next + 1
  /\ WriterTo("open")
  /\ UNCHANGED <<banks, publication, written, readerVars>>

(* An exhausted channel closes, for good. *)
PublishClose ==
  /\ WriterAt("idle") /\ publication # Closed /\ next >= Last
  /\ publication' = Closed
  /\ UNCHANGED <<banks, writerVars, readerVars>>

OpenBank ==
  /\ WriterAt("open")
  /\ sequence' = [sequence EXCEPT ![BankOf(next)] = next * 2 + 1]
  /\ WriterTo("store")
  /\ UNCHANGED <<words, publication, next, written, readerVars>>

StoreWord ==
  /\ WriterAt("store") /\ written < WordCount
  /\ words' = [words EXCEPT ![BankOf(next)][written + 1] = next]
  /\ written' = written + 1
  /\ UNCHANGED <<sequence, publication, next, writer, readerVars>>

CloseBank ==
  /\ WriterAt("store") /\ written = WordCount
  /\ sequence' = [sequence EXCEPT ![BankOf(next)] = next * 2]
  /\ written' = 0
  /\ WriterTo("publish")
  /\ UNCHANGED <<words, publication, next, readerVars>>

StorePublication ==
  /\ WriterAt("publish")
  /\ publication' = next
  /\ WriterTo("idle")
  /\ UNCHANGED <<banks, next, written, readerVars>>

Publish ==
  \/ PublishBegin \/ PublishClose \/ OpenBank \/ StoreWord \/ CloseBank
  \/ StorePublication

-----------------------------------------------------------------------------
(* Read.                                                                   *)

At(r, label) == pc[r] = label
Goto(r, label) == pc' = [pc EXCEPT ![r] = label]

Answer(r, a) ==
  /\ answer' = [answer EXCEPT ![r] = a]
  /\ Goto(r, "idle")

(* The next attempt, or the last look at the status. *)
Again(r) ==
  /\ try' = [try EXCEPT ![r] = @ + 1]
  /\ Goto(r, IF try[r] + 1 < Attempts THEN "current" ELSE "give up")

ReadCall(r) ==
  /\ At(r, "idle")
  /\ floor' = [floor EXCEPT ![r] = publication]
  /\ try' = [try EXCEPT ![r] = 0]
  /\ Goto(r, "current")
  /\ UNCHANGED <<banks, publication, writerVars, attemptVars, answer>>

Current(r) ==
  /\ At(r, "current")
  /\ IF publication \in 1 .. Last
     THEN /\ stamp' = [stamp EXCEPT ![r] = publication]
          /\ Goto(r, "sequence") /\ UNCHANGED answer
     ELSE /\ Answer(r, Register!Status(IF publication = 0 THEN "Empty" ELSE "Closed"))
          /\ UNCHANGED stamp
  /\ UNCHANGED <<banks, publication, writerVars, try, value, loaded, floor>>

LoadSequence(r) ==
  /\ At(r, "sequence")
  /\ IF sequence[BankOf(stamp[r])] # stamp[r] * 2
     THEN Again(r)
     ELSE Goto(r, "load") /\ UNCHANGED try
  /\ loaded' = [loaded EXCEPT ![r] = 0]
  /\ UNCHANGED <<banks, publication, writerVars, stamp, value, answer, floor>>

LoadWord(r) ==
  /\ At(r, "load") /\ loaded[r] < WordCount
  /\ value' = [value EXCEPT ![r][loaded[r] + 1] = words[BankOf(stamp[r])][loaded[r] + 1]]
  /\ loaded' = [loaded EXCEPT ![r] = @ + 1]
  /\ UNCHANGED <<banks, publication, writerVars, pc, try, stamp, answer, floor>>

Ready(r) == [status |-> "Ready", stamp |-> stamp[r], value |-> value[r]]

RecheckSequence(r) ==
  /\ At(r, "load") /\ loaded[r] = WordCount
  /\ IF sequence[BankOf(stamp[r])] # stamp[r] * 2
     THEN Again(r)
     ELSE Goto(r, "recheck") /\ UNCHANGED try
  /\ UNCHANGED <<banks, publication, writerVars, attemptVars, answer, floor>>

(* Mutant: the publication is not looked at again. *)
RecheckPublicationOnce(r) ==
  /\ At(r, "recheck")
  /\ Answer(r, Ready(r)) /\ UNCHANGED try
  /\ UNCHANGED <<banks, publication, writerVars, attemptVars, floor>>

RecheckPublication(r) ==
  /\ At(r, "recheck")
  /\ IF publication # stamp[r]
     THEN Again(r) /\ UNCHANGED answer
     ELSE Answer(r, Ready(r)) /\ UNCHANGED try
  /\ UNCHANGED <<banks, publication, writerVars, attemptVars, floor>>

GiveUp(r) ==
  /\ At(r, "give up")
  /\ Answer(r, Register!Status(IF publication = Closed THEN "Closed" ELSE "Busy"))
  /\ UNCHANGED <<banks, publication, writerVars, try, attemptVars, floor>>

Read(r) ==
  \/ ReadCall(r) \/ Current(r) \/ LoadSequence(r) \/ LoadWord(r)
  \/ RecheckSequence(r) \/ RecheckPublication(r) \/ GiveUp(r)

Next == Publish \/ \E r \in Reader : Read(r)

Spec == Init /\ [][Next]_vars

-----------------------------------------------------------------------------
Answers == [status : {"Empty", "Ready", "Busy", "Closed"}, stamp : 0 .. Last,
            value : [Word -> 0 .. Last]]

TypeOK ==
  /\ sequence \in [Bank -> 0 .. 2 * Last + 1]
  /\ words \in [Bank -> [Word -> 0 .. Last]]
  /\ publication \in 0 .. Closed
  /\ next \in 0 .. Last /\ writer \in {"idle", "open", "store", "publish"}
  /\ written \in 0 .. WordCount
  /\ pc \in [Reader -> {"idle", "current", "sequence", "load", "recheck", "give up"}]
  /\ try \in [Reader -> 0 .. Attempts]
  /\ stamp \in [Reader -> 0 .. Last]
  /\ value \in [Reader -> [Word -> 0 .. Last]]
  /\ loaded \in [Reader -> 0 .. WordCount]
  /\ answer \in [Reader -> Answers]
  /\ floor \in [Reader -> 0 .. Closed]

(* A Ready read gives the words of one publication, the one in its stamp,  *)
(* never a mixture, whatever the writer stored meanwhile.                  *)
ReadyIsOnePublication ==
  \A r \in Reader : answer[r].status = "Ready" =>
    \A w \in Word : answer[r].value[w] = answer[r].stamp

(* A read is Busy only when the writer overtook it in every attempt: with  *)
(* two banks, a publication in progress does not disturb the reader of the *)
(* latest one.                                                             *)
BusyOnlyWhenOvertaken ==
  \A r \in Reader : At(r, "idle") /\ answer[r].status = "Busy" =>
    publication >= floor[r] + Attempts

(* The channel is a register: each answer is the whole latest publication  *)
(* at one instant of the read, or Busy.                                    *)
RegisterRefined == Register!Spec
=============================================================================
