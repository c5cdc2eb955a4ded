--------------------------- MODULE Reports_proofs ---------------------------
(***************************************************************************)
(* The channel of EDMExecutionFeedbackChannel.h is a register of its       *)
(* latest publication, for any number of readers, words and attempts.      *)
(*                                                                         *)
(* The alarm image of AlarmManager.cpp is correct for every set of threads *)
(* that raise, clear and admit, and for every size of the image and of the *)
(* deferred count: no alarm is lost, and while an admission lasts nobody   *)
(* but its holder writes what is shown.                                    *)
(***************************************************************************)
EXTENDS MCReports, Sequences, FiniteSetTheorems, TLAPS

(* The value of a publication. *)
Of(p) == [w \in Word |-> p]

(* Where the writer stands: the publication in progress is one ahead.      *)
WriterKnows ==
  /\ writer = "idle" => publication = next \/ (publication = Closed /\ next = Last)
  /\ writer # "idle" => publication + 1 = next
  /\ writer # "store" => written = 0

(* A bank whose sequence is even holds the whole publication it names; the *)
(* latest publication is in such a bank.                                   *)
BanksWhole ==
  /\ \A b \in Bank, s \in 0 .. Last : sequence[b] = 2 * s => words[b] = Of(s)
  /\ publication \in 1 .. Last => sequence[BankOf(publication)] = 2 * publication

(* What the sequence of the bank in progress is, and how far the words are *)
(* stored.                                                                 *)
BankInProgress ==
  /\ \A b \in Bank : sequence[b] <= 2 * next + 1
  /\ writer = "open" => \A b \in Bank : sequence[b] < 2 * next
  /\ writer = "store" =>
       /\ sequence[BankOf(next)] = 2 * next + 1
       /\ \A w \in Word : w <= written => words[BankOf(next)][w] = next
  /\ writer = "publish" => sequence[BankOf(next)] = 2 * next

(* What a reader has is of its stamp, or its bank was taken since; each    *)
(* attempt that failed was overtaken.                                      *)
ReaderKnows(r) ==
  /\ pc[r] \in {"sequence", "load", "recheck"} =>
       stamp[r] \in 1 .. Last /\ stamp[r] <= publication /\ floor[r] + try[r] <= stamp[r]
  /\ pc[r] = "load" =>
       \/ sequence[BankOf(stamp[r])] > 2 * stamp[r]
       \/ /\ sequence[BankOf(stamp[r])] = 2 * stamp[r]
          /\ \A w \in Word : w <= loaded[r] => value[r][w] = stamp[r]
  /\ pc[r] = "recheck" => value[r] = Of(stamp[r])
  /\ pc[r] \in {"current", "give up"} => floor[r] + try[r] <= publication
  /\ pc[r] = "give up" => try[r] = Attempts
  /\ pc[r] \notin {"idle", "give up"} => try[r] < Attempts
  /\ pc[r] = "idle" /\ answer[r].status = "Busy" => floor[r] + Attempts <= publication
  /\ answer[r].status = "Ready" => \A w \in Word : answer[r].value[w] = answer[r].stamp

IInv ==
  /\ TypeOK
  /\ WriterKnows
  /\ BanksWhole
  /\ BankInProgress
  /\ \A r \in Reader : ReaderKnows(r)

-----------------------------------------------------------------------------
(* Successive publications are in different banks. *)
LEMMA Alternate ==
  ASSUME NEW p \in Nat
  PROVE  BankOf(p) \in Bank /\ BankOf(p + 1) # BankOf(p)
  BY DEF BankOf, Bank

(* The arithmetic of stamps and banks. *)
LEMMA Numbers ==
  ASSUME TypeOK
  PROVE  /\ next \in Nat /\ next <= Last /\ publication \in Nat /\ publication <= Last + 1
         /\ written \in Nat /\ WordCount \in Nat /\ Last \in Nat /\ Attempts \in Nat
         /\ Last > 0 /\ Attempts > 0 /\ WordCount > 0
         /\ \A b \in Bank : sequence[b] \in Nat
         /\ \A r \in Reader : stamp[r] \in Nat /\ stamp[r] <= Last /\ loaded[r] \in Nat
                              /\ try[r] \in Nat /\ floor[r] \in Nat
<1>1. /\ next \in 0 .. Last /\ publication \in 0 .. Last + 1 /\ written \in 0 .. WordCount
      /\ sequence \in [Bank -> 0 .. 2 * Last + 1] /\ stamp \in [Reader -> 0 .. Last]
      /\ loaded \in [Reader -> 0 .. WordCount] /\ try \in [Reader -> 0 .. Attempts]
      /\ floor \in [Reader -> 0 .. Last + 1]
  BY DEF TypeOK, Closed
<1>2. WordCount \in Nat \ {0} /\ Last \in Nat \ {0} /\ Attempts \in Nat \ {0}
  BY ChannelAssumption
<1>3. \A b \in Bank : sequence[b] \in Nat
  BY <1>1, <1>2
<1>4. \A r \in Reader : stamp[r] \in Nat /\ stamp[r] <= Last /\ loaded[r] \in Nat
                        /\ try[r] \in Nat /\ floor[r] \in Nat
  BY <1>1, <1>2
<1> QED BY <1>1, <1>2, <1>3, <1>4

(* The answers are those of the register. *)
LEMMA AnswersTyped ==
  /\ \A s \in {"Empty", "Busy", "Closed"} : Register!Status(s) \in Answers
  /\ \A s : Register!Status(s).status = s
<1>1. 0 \in 0 .. Last
  BY ChannelAssumption
<1>2. Register!Nothing \in [Word -> 0 .. Last]
  BY <1>1 DEF Register!Nothing
<1> QED BY <1>1, <1>2 DEF Answers, Register!Status

(* It holds before anything is published. *)
LEMMA InitIInv == Init => IInv
<1> SUFFICES ASSUME Init PROVE IInv
  OBVIOUS
<1>1. Last \in Nat \ {0} /\ Attempts \in Nat \ {0} /\ WordCount \in Nat \ {0}
  BY ChannelAssumption
<1>2. Register!Nothing \in [Word -> 0 .. Last] /\ Register!Nothing = Of(0)
  BY <1>1 DEF Register!Nothing, Of
<1>3. TypeOK
  <2>1. /\ sequence \in [Bank -> 0 .. 2 * Last + 1] /\ words \in [Bank -> [Word -> 0 .. Last]]
        /\ value \in [Reader -> [Word -> 0 .. Last]]
    BY <1>1, <1>2 DEF Init
  <2>2. /\ publication \in 0 .. Closed /\ next \in 0 .. Last /\ written \in 0 .. WordCount
        /\ writer \in {"idle", "open", "store", "publish"}
    BY <1>1 DEF Init, Closed
  <2>3. /\ pc \in [Reader -> {"idle", "current", "sequence", "load", "recheck", "give up"}]
        /\ try \in [Reader -> 0 .. Attempts] /\ stamp \in [Reader -> 0 .. Last]
        /\ loaded \in [Reader -> 0 .. WordCount] /\ floor \in [Reader -> 0 .. Closed]
    BY <1>1 DEF Init, Closed
  <2>4. answer \in [Reader -> Answers]
    BY AnswersTyped DEF Init
  <2> QED BY <2>1, <2>2, <2>3, <2>4 DEF TypeOK
<1>4. WriterKnows
  BY DEF Init, WriterKnows
<1>5. BanksWhole
  <2>1. ASSUME NEW b \in Bank, NEW s \in 0 .. Last, sequence[b] = 2 * s
        PROVE  words[b] = Of(s)
    <3>1. s = 0 /\ words[b] = Of(0)
      BY <2>1, <1>1, <1>2 DEF Init
    <3> QED BY <3>1
  <2> QED BY <2>1, <1>1 DEF Init, BanksWhole
<1>6. BankInProgress
  BY DEF Init, BankInProgress
<1>7. ASSUME NEW r \in Reader
      PROVE  ReaderKnows(r)
  <2>1. pc[r] = "idle" /\ try[r] = 0 /\ answer[r].status = "Empty"
    BY AnswersTyped DEF Init
  <2> QED BY <2>1 DEF ReaderKnows
<1> QED BY <1>3, <1>4, <1>5, <1>6, <1>7 DEF IInv

-----------------------------------------------------------------------------
(* The writer.                                                             *)

(* The writer keeps the types. *)
LEMMA WriterTypes ==
  ASSUME IInv, Publish
  PROVE  TypeOK'
<1> USE DEF WriterAt, WriterTo, banks, readerVars, attemptVars, writerVars
<1>1. UNCHANGED readerVars
  BY DEF Publish, PublishBegin, PublishClose, OpenBank, StoreWord, CloseBank, StorePublication
<1>2. /\ next \in Nat /\ next <= Last /\ written \in Nat /\ written <= WordCount
      /\ Last \in Nat /\ Last > 0 /\ WordCount \in Nat
  <2>1. TypeOK /\ written \in 0 .. WordCount
    BY DEF IInv, TypeOK
  <2> QED BY <2>1, Numbers
<1>3. /\ sequence \in [Bank -> 0 .. 2 * Last + 1] /\ words \in [Bank -> [Word -> 0 .. Last]]
      /\ publication \in 0 .. Closed /\ next \in 0 .. Last /\ written \in 0 .. WordCount
      /\ writer \in {"idle", "open", "store", "publish"}
  BY DEF IInv, TypeOK
<1>4. BankOf(next) \in Bank
  BY <1>2, Alternate
<1>5. /\ sequence' \in [Bank -> 0 .. 2 * Last + 1] /\ words' \in [Bank -> [Word -> 0 .. Last]]
      /\ publication' \in 0 .. Closed /\ next' \in 0 .. Last /\ written' \in 0 .. WordCount
      /\ writer' \in {"idle", "open", "store", "publish"}
  <2>1. CASE PublishBegin
    <3>1. next' = next + 1 /\ next < Last
      BY <2>1 DEF PublishBegin
    <3>2. next' \in 0 .. Last
      BY <3>1, <1>2
    <3> QED BY <2>1, <3>2, <1>3 DEF PublishBegin
  <2>2. CASE PublishClose
    <3>1. Closed \in 0 .. Closed
      BY <1>2 DEF Closed
    <3> QED BY <2>2, <3>1, <1>3 DEF PublishClose
  <2>3. CASE OpenBank \/ CloseBank
    <3>1. next * 2 + 1 \in 0 .. 2 * Last + 1 /\ next * 2 \in 0 .. 2 * Last + 1
          /\ 0 \in 0 .. WordCount
      BY <1>2
    <3> QED BY <2>3, <3>1, <1>3 DEF OpenBank, CloseBank
  <2>4. CASE StoreWord
    <3>1. written' = written + 1 /\ written < WordCount
          /\ words' = [words EXCEPT ![BankOf(next)][written + 1] = next]
          /\ UNCHANGED <<sequence, publication, next, writer>>
      BY <2>4 DEF StoreWord
    <3>2. written' \in 0 .. WordCount
      BY <3>1, <1>2
    <3>3. words' \in [Bank -> [Word -> 0 .. Last]]
      BY <3>1, <1>3, <1>4
    <3> QED BY <3>1, <3>2, <3>3, <1>3
  <2>5. CASE StorePublication
    <3>1. next \in 0 .. Closed
      BY <1>2 DEF Closed
    <3> QED BY <2>5, <3>1, <1>3 DEF StorePublication
  <2> QED BY <2>1, <2>2, <2>3, <2>4, <2>5 DEF Publish
<1> QED BY <1>1, <1>5, <1>3 DEF IInv, TypeOK, Answers

(* What a reader has is not spoiled by the writer, which only moves the    *)
(* sequence of a bank up and the publication forward.                      *)
LEMMA Undisturbed ==
  ASSUME IInv, UNCHANGED readerVars, publication' >= publication,
         publication' \in Nat,
         \A b \in Bank, s \in Nat : s <= publication =>
           /\ sequence[b] > 2 * s => sequence'[b] > 2 * s
           /\ sequence[b] = 2 * s => sequence'[b] = 2 * s \/ sequence'[b] > 2 * s
  PROVE  \A r \in Reader : ReaderKnows(r)'
<1> SUFFICES ASSUME NEW r \in Reader PROVE ReaderKnows(r)'
  OBVIOUS
<1>1. UNCHANGED <<pc, try, stamp, value, loaded, answer, floor>>
  BY DEF readerVars, attemptVars
<1>2. /\ publication \in Nat /\ stamp[r] \in Nat /\ try[r] \in Nat /\ floor[r] \in Nat
      /\ Attempts \in Nat /\ BankOf(stamp[r]) \in Bank
  BY Numbers, Alternate DEF IInv
<1>3. ReaderKnows(r)
  BY DEF IInv
<1>4. stamp[r] <= publication =>
        /\ sequence[BankOf(stamp[r])] > 2 * stamp[r]
           => sequence'[BankOf(stamp[r])] > 2 * stamp[r]
        /\ sequence[BankOf(stamp[r])] = 2 * stamp[r] =>
             sequence'[BankOf(stamp[r])] = 2 * stamp[r] \/ sequence'[BankOf(stamp[r])] > 2 * stamp[r]
  BY <1>2
<1>5. \A n \in Nat : n <= publication => n <= publication'
  BY <1>2
<1>6. floor[r] + try[r] \in Nat /\ floor[r] + Attempts \in Nat
  BY <1>2
<1> QED BY <1>1, <1>2, <1>3, <1>4, <1>5, <1>6 DEF ReaderKnows, Of, BankOf

(* Every step of the writer keeps it. *)
LEMMA WriterIInv ==
  ASSUME IInv, Publish
  PROVE  IInv'
<1> USE DEF WriterAt, WriterTo, banks, writerVars
<1>1. /\ TypeOK /\ TypeOK' /\ WriterKnows /\ BanksWhole /\ BankInProgress
      /\ \A r \in Reader : ReaderKnows(r)
  BY WriterTypes DEF IInv
<1>2. /\ next \in Nat /\ next <= Last /\ publication \in Nat /\ publication <= Last + 1
      /\ written \in Nat /\ Last \in Nat /\ Last > 0 /\ WordCount \in Nat
  BY <1>1, Numbers
<1>3. \A b \in Bank : sequence[b] \in Nat
  BY <1>1, Numbers
<1>4. /\ sequence \in [Bank -> 0 .. 2 * Last + 1] /\ words \in [Bank -> [Word -> 0 .. Last]]
      /\ written \in 0 .. WordCount /\ writer \in {"idle", "open", "store", "publish"}
  BY <1>1 DEF TypeOK
<1>5. BankOf(next) \in Bank
  BY <1>2, Alternate
<1>6. publication + 1 = next /\ publication \in 1 .. Last =>
        BankOf(publication) \in Bank /\ BankOf(publication) # BankOf(next)
  BY <1>2, Alternate
<1>7. UNCHANGED readerVars
  BY DEF Publish, PublishBegin, PublishClose, OpenBank, StoreWord, CloseBank, StorePublication
<1>8. CASE PublishBegin
  <2>1. /\ writer = "idle" /\ writer' = "open" /\ next' = next + 1
        /\ publication # Closed /\ UNCHANGED <<sequence, words, publication, written>>
    BY <1>8 DEF PublishBegin
  <2>2. WriterKnows'
    BY <2>1, <1>1 DEF WriterKnows
  <2>3. BanksWhole'
    BY <2>1, <1>1 DEF BanksWhole
  <2>4. \A b \in Bank : sequence'[b] < 2 * next' /\ sequence'[b] <= 2 * next' + 1
    <3>1. \A b \in Bank : sequence[b] <= 2 * next + 1
      BY <1>1 DEF BankInProgress
    <3> QED BY <3>1, <2>1, <1>2, <1>3
  <2>5. BankInProgress'
    BY <2>1, <2>4 DEF BankInProgress
  <2>6. \A r \in Reader : ReaderKnows(r)'
    BY <2>1, <1>2, <1>7, Undisturbed
  <2> QED BY <1>1, <2>2, <2>3, <2>5, <2>6 DEF IInv
<1>9. CASE PublishClose
  <2>1. /\ writer = "idle" /\ writer' = "idle" /\ publication' = Closed /\ next >= Last
        /\ UNCHANGED <<sequence, words, next, written>>
    BY <1>9 DEF PublishClose
  <2>2. WriterKnows'
    BY <2>1, <1>1, <1>2 DEF WriterKnows
  <2>3. publication' = Last + 1
    BY <2>1 DEF Closed
  <2>4. BanksWhole'
    BY <2>1, <2>3, <1>1, <1>2 DEF BanksWhole
  <2>5. BankInProgress'
    BY <2>1, <1>1 DEF BankInProgress
  <2>6. \A r \in Reader : ReaderKnows(r)'
    BY <2>1, <2>3, <1>2, <1>7, Undisturbed
  <2> QED BY <1>1, <2>2, <2>4, <2>5, <2>6 DEF IInv
<1>10. CASE OpenBank
  <2>1. /\ writer = "open" /\ writer' = "store" /\ publication + 1 = next /\ written = 0
        /\ sequence' = [sequence EXCEPT ![BankOf(next)] = next * 2 + 1]
        /\ UNCHANGED <<words, publication, next, written>>
    BY <1>10, <1>1 DEF OpenBank, WriterKnows
  <2>2. /\ sequence'[BankOf(next)] = 2 * next + 1
        /\ \A b \in Bank : b # BankOf(next) => sequence'[b] = sequence[b]
    BY <2>1, <1>2, <1>4, <1>5
  <2>3. WriterKnows'
    BY <2>1 DEF WriterKnows
  <2>4. BanksWhole'
    <3>1. ASSUME NEW b \in Bank, NEW s \in 0 .. Last, sequence'[b] = 2 * s
          PROVE  words'[b] = Of(s)
      <4>1. b # BankOf(next)
        BY <3>1, <2>2, <1>2
      <4> QED BY <4>1, <3>1, <2>1, <2>2, <1>1 DEF BanksWhole
    <3>2. publication \in 1 .. Last => sequence'[BankOf(publication)] = 2 * publication
      BY <2>1, <2>2, <1>1, <1>6 DEF BanksWhole
    <3> QED BY <3>1, <3>2, <2>1 DEF BanksWhole, Of, BankOf
  <2>5. BankInProgress'
    <3>1. \A b \in Bank : sequence'[b] <= 2 * next + 1
      BY <2>2, <1>1, <1>2, <1>3 DEF BankInProgress
    <3>2. \A w \in Word : ~(w <= 0)
      BY DEF Word
    <3> QED BY <3>1, <3>2, <2>1, <2>2, <1>5 DEF BankInProgress, BankOf
  <2>6. \A b \in Bank, s \in Nat : s <= publication =>
          /\ sequence[b] > 2 * s => sequence'[b] > 2 * s
          /\ sequence[b] = 2 * s => sequence'[b] = 2 * s \/ sequence'[b] > 2 * s
    BY <2>1, <2>2, <1>2, <1>3
  <2>7. \A r \in Reader : ReaderKnows(r)'
    BY <2>1, <2>6, <1>2, <1>7, Undisturbed
  <2> QED BY <1>1, <2>3, <2>4, <2>5, <2>7 DEF IInv
<1>11. CASE StoreWord
  <2>1. /\ writer = "store" /\ writer' = "store" /\ written' = written + 1
           /\ publication + 1 = next
        /\ written < WordCount
        /\ words' = [words EXCEPT ![BankOf(next)][written + 1] = next]
        /\ UNCHANGED <<sequence, publication, next>>
    BY <1>11, <1>1 DEF StoreWord, WriterKnows
  <2>2. /\ sequence[BankOf(next)] = 2 * next + 1
        /\ \A w \in Word : w <= written => words[BankOf(next)][w] = next
    BY <2>1, <1>1 DEF BankInProgress
  <2>3. written + 1 \in Word
    BY <2>1, <1>2 DEF Word
  <2>4. /\ words'[BankOf(next)] = [words[BankOf(next)] EXCEPT ![written + 1] = next]
        /\ \A b \in Bank : b # BankOf(next) => words'[b] = words[b]
    BY <2>1, <1>4, <1>5
  <2>5. WriterKnows'
    BY <2>1, <1>1 DEF WriterKnows
  <2>6. BanksWhole'
    <3>1. ASSUME NEW b \in Bank, NEW s \in 0 .. Last, sequence[b] = 2 * s
          PROVE  words'[b] = Of(s)
      <4>1. b # BankOf(next)
        BY <3>1, <2>2, <1>2
      <4> QED BY <4>1, <3>1, <2>4, <1>1 DEF BanksWhole
    <3> QED BY <3>1, <2>1, <1>1 DEF BanksWhole, Of, BankOf
  <2>7. BankInProgress'
    <3>1. ASSUME NEW w \in Word, w <= written + 1
          PROVE  words'[BankOf(next)][w] = next
      <4>1. words[BankOf(next)] \in [Word -> 0 .. Last]
        BY <1>4, <1>5
      <4>2. w = written + 1 \/ w <= written
        BY <3>1, <1>2 DEF Word
      <4> QED BY <4>1, <4>2, <2>2, <2>3, <2>4
    <3> QED BY <3>1, <2>1, <2>2, <1>1 DEF BankInProgress, BankOf
  <2>8. \A r \in Reader : ReaderKnows(r)'
    BY <2>1, <1>2, <1>7, Undisturbed
  <2> QED BY <1>1, <2>5, <2>6, <2>7, <2>8 DEF IInv
<1>12. CASE CloseBank
  <2>1. /\ writer = "store" /\ writer' = "publish" /\ written = WordCount /\ written' = 0
        /\ publication + 1 = next
        /\ sequence' = [sequence EXCEPT ![BankOf(next)] = next * 2]
        /\ UNCHANGED <<words, publication, next>>
    BY <1>12, <1>1 DEF CloseBank, WriterKnows
  <2>2. /\ sequence'[BankOf(next)] = 2 * next
        /\ \A b \in Bank : b # BankOf(next) => sequence'[b] = sequence[b]
    BY <2>1, <1>2, <1>4, <1>5
  <2>3. words[BankOf(next)] = Of(next)
    <3>1. \A w \in Word : words[BankOf(next)][w] = next
      BY <2>1, <1>1, <1>2 DEF BankInProgress, Word
    <3>2. words[BankOf(next)] \in [Word -> 0 .. Last]
      BY <1>4, <1>5
    <3> QED BY <3>1, <3>2 DEF Of
  <2>4. WriterKnows'
    BY <2>1 DEF WriterKnows
  <2>5. BanksWhole'
    <3>1. ASSUME NEW b \in Bank, NEW s \in 0 .. Last, sequence'[b] = 2 * s
          PROVE  words[b] = Of(s)
      <4>1. CASE b = BankOf(next)
        <5>1. s = next
          BY <4>1, <3>1, <2>2, <1>2
        <5> QED BY <5>1, <4>1, <2>3
      <4>2. CASE b # BankOf(next)
        BY <4>2, <3>1, <2>2, <1>1 DEF BanksWhole
      <4> QED BY <4>1, <4>2
    <3>2. publication \in 1 .. Last => sequence'[BankOf(publication)] = 2 * publication
      BY <2>1, <2>2, <1>1, <1>6 DEF BanksWhole
    <3> QED BY <3>1, <3>2, <2>1 DEF BanksWhole, Of, BankOf
  <2>6. BankInProgress'
    <3>1. \A b \in Bank : sequence'[b] <= 2 * next + 1
      BY <2>2, <1>1, <1>2, <1>3 DEF BankInProgress
    <3> QED BY <3>1, <2>1, <2>2 DEF BankInProgress, BankOf
  <2>7. \A b \in Bank, s \in Nat : s <= publication =>
          /\ sequence[b] > 2 * s => sequence'[b] > 2 * s
          /\ sequence[b] = 2 * s => sequence'[b] = 2 * s \/ sequence'[b] > 2 * s
    BY <2>1, <2>2, <1>2, <1>3
  <2>8. \A r \in Reader : ReaderKnows(r)'
    BY <2>1, <2>7, <1>2, <1>7, Undisturbed
  <2> QED BY <1>1, <2>4, <2>5, <2>6, <2>8 DEF IInv
<1>13. CASE StorePublication
  <2>1. /\ writer = "publish" /\ writer' = "idle" /\ publication' = next
           /\ publication + 1 = next
        /\ written = 0 /\ UNCHANGED <<sequence, words, next, written>>
    BY <1>13, <1>1 DEF StorePublication, WriterKnows
  <2>2. WriterKnows'
    BY <2>1 DEF WriterKnows
  <2>3. BanksWhole'
    BY <2>1, <1>1 DEF BanksWhole, BankInProgress, Of, BankOf
  <2>4. BankInProgress'
    BY <2>1, <1>1 DEF BankInProgress
  <2>5. \A r \in Reader : ReaderKnows(r)'
    BY <2>1, <1>2, <1>7, Undisturbed
  <2> QED BY <1>1, <2>2, <2>3, <2>4, <2>5 DEF IInv
<1> QED BY <1>8, <1>9, <1>10, <1>11, <1>12, <1>13 DEF Publish

-----------------------------------------------------------------------------
(* A reader.                                                               *)

(* A reader keeps the types. *)
LEMMA ReaderTypes ==
  ASSUME IInv, NEW r \in Reader, Read(r)
  PROVE  TypeOK'
<1> USE DEF At, Goto, banks, writerVars, attemptVars
<1>1. /\ TypeOK /\ ReaderKnows(r)
  BY DEF IInv
<1>2. /\ pc \in [Reader -> {"idle", "current", "sequence", "load", "recheck", "give up"}]
      /\ try \in [Reader -> 0 .. Attempts] /\ stamp \in [Reader -> 0 .. Last]
      /\ value \in [Reader -> [Word -> 0 .. Last]] /\ loaded \in [Reader -> 0 .. WordCount]
      /\ answer \in [Reader -> Answers] /\ floor \in [Reader -> 0 .. Closed]
      /\ publication \in 0 .. Closed /\ words \in [Bank -> [Word -> 0 .. Last]]
  BY <1>1 DEF TypeOK
<1>3. /\ stamp[r] \in Nat /\ loaded[r] \in Nat /\ try[r] \in Nat /\ Attempts \in Nat
      /\ WordCount \in Nat /\ Last \in Nat /\ BankOf(stamp[r]) \in Bank
  BY <1>1, Numbers, Alternate
<1>4. 0 \in 0 .. Attempts /\ 0 \in 0 .. WordCount
  BY <1>3
<1>5. ASSUME pc[r] \notin {"idle", "give up"}
      PROVE  try[r] + 1 \in 0 .. Attempts
  <2>1. try[r] < Attempts
    BY <1>1, <1>5 DEF ReaderKnows
  <2> QED BY <2>1, <1>3
<1>6. UNCHANGED <<banks, publication, writerVars>>
  BY DEF Read, ReadCall, Current, LoadSequence, LoadWord, RecheckSequence, RecheckPublication, GiveUp
<1>7. \A a \in Answers : Answer(r, a) =>
        /\ answer' \in [Reader -> Answers]
        /\ pc' \in [Reader -> {"idle", "current", "sequence", "load", "recheck", "give up"}]
  BY <1>2 DEF Answer
<1>8. pc[r] \notin {"idle", "give up"} /\ Again(r) =>
        /\ try' \in [Reader -> 0 .. Attempts]
        /\ pc' \in [Reader -> {"idle", "current", "sequence", "load", "recheck", "give up"}]
  BY <1>2, <1>5 DEF Again
<1>9. Ready(r) \in Answers
  BY <1>2 DEF Ready, Answers
<1>10. \A s \in {"Empty", "Busy", "Closed"} : Register!Status(s) \in Answers
  BY AnswersTyped
<1>11. /\ pc' \in [Reader -> {"idle", "current", "sequence", "load", "recheck", "give up"}]
       /\ try' \in [Reader -> 0 .. Attempts] /\ stamp' \in [Reader -> 0 .. Last]
       /\ value' \in [Reader -> [Word -> 0 .. Last]] /\ loaded' \in [Reader -> 0 .. WordCount]
       /\ answer' \in [Reader -> Answers] /\ floor' \in [Reader -> 0 .. Closed]
  <2>1. CASE ReadCall(r)
    BY <2>1, <1>2, <1>4 DEF ReadCall
  <2>2. CASE Current(r)
    <3>1. CASE publication \in 1 .. Last
      <4>1. publication \in 0 .. Last
        BY <3>1, <1>3
      <4> QED BY <4>1, <3>1, <2>2, <1>2 DEF Current
    <3>2. CASE publication \notin 1 .. Last
      BY <3>2, <2>2, <1>2, <1>7, <1>10 DEF Current
    <3> QED BY <3>1, <3>2
  <2>3. CASE LoadSequence(r)
    BY <2>3, <1>2, <1>4, <1>8 DEF LoadSequence
  <2>4. CASE LoadWord(r)
    <3>1. loaded[r] + 1 \in Word /\ loaded[r] + 1 \in 0 .. WordCount
      BY <2>4, <1>3 DEF LoadWord, Word
    <3>2. words[BankOf(stamp[r])][loaded[r] + 1] \in 0 .. Last
      BY <3>1, <1>2, <1>3
    <3>3. value' \in [Reader -> [Word -> 0 .. Last]]
      BY <3>1, <3>2, <2>4, <1>2 DEF LoadWord
    <3> QED BY <3>1, <3>3, <2>4, <1>2 DEF LoadWord
  <2>5. CASE RecheckSequence(r)
    BY <2>5, <1>2, <1>8 DEF RecheckSequence
  <2>6. CASE RecheckPublication(r)
    BY <2>6, <1>2, <1>7, <1>8, <1>9 DEF RecheckPublication
  <2>7. CASE GiveUp(r)
    BY <2>7, <1>2, <1>7, <1>10 DEF GiveUp
  <2> QED BY <2>1, <2>2, <2>3, <2>4, <2>5, <2>6, <2>7 DEF Read
<1> QED BY <1>1, <1>6, <1>11 DEF TypeOK, Answers

(* A bank found overtaken shows that the publication has moved on. *)
LEMMA Overtaken ==
  ASSUME IInv, NEW r \in Reader, pc[r] \in {"sequence", "load", "recheck"},
         \/ sequence[BankOf(stamp[r])] # stamp[r] * 2
         \/ publication # stamp[r]
  PROVE  stamp[r] < publication
<1>1. stamp[r] \in 1 .. Last /\ stamp[r] <= publication /\ publication \in Nat
  BY Numbers DEF IInv, ReaderKnows
<1>2. CASE publication # stamp[r]
  BY <1>1, <1>2
<1>3. CASE publication = stamp[r]
  <2>1. sequence[BankOf(stamp[r])] = 2 * stamp[r]
    BY <1>1, <1>3 DEF IInv, BanksWhole
  <2> QED BY <2>1, <1>1, <1>3
<1> QED BY <1>2, <1>3

(* A failed attempt is counted, and was overtaken. *)
LEMMA AttemptFailed ==
  ASSUME IInv, NEW r \in Reader, pc[r] \in {"sequence", "load", "recheck"},
         stamp[r] < publication, Again(r), UNCHANGED <<answer, publication, floor>>
  PROVE  ReaderKnows(r)'
<1>1. /\ stamp[r] \in Nat /\ publication \in Nat /\ try[r] \in Nat /\ floor[r] \in Nat
      /\ Attempts \in Nat
  BY Numbers DEF IInv
<1>2. ReaderKnows(r) /\ try \in [Reader -> 0 .. Attempts]
      /\ pc \in [Reader -> {"idle", "current", "sequence", "load", "recheck", "give up"}]
  BY DEF IInv, TypeOK
<1>3. try[r] < Attempts /\ floor[r] + try[r] <= stamp[r]
  BY <1>2 DEF ReaderKnows
<1>4. /\ try'[r] = try[r] + 1
      /\ pc'[r] = IF try[r] + 1 < Attempts THEN "current" ELSE "give up"
  BY <1>2 DEF Again, Goto
<1>a. try'[r] = try[r] + 1
  BY <1>4
<1>5. floor[r] + try'[r] <= publication
  BY <1>1, <1>3, <1>a
<1>6. pc'[r] = "give up" => try'[r] = Attempts
  <2>1. try[r] + 1 < Attempts \/ try[r] + 1 = Attempts
    BY <1>1, <1>3
  <2> QED BY <2>1, <1>4
<1>7. pc'[r] # "give up" => try'[r] < Attempts
  BY <1>4
<1> QED BY <1>2, <1>4, <1>5, <1>6, <1>7 DEF ReaderKnows

(* Every step of a reader keeps it. *)
LEMMA ReaderIInv ==
  ASSUME IInv, NEW r \in Reader, Read(r)
  PROVE  IInv'
<1> USE DEF At, Goto, banks, writerVars, attemptVars
<1>1. TypeOK /\ TypeOK' /\ ReaderKnows(r) /\ BanksWhole
  BY ReaderTypes DEF IInv
<1>2. UNCHANGED <<sequence, words, publication, next, writer, written>>
  BY DEF Read, ReadCall, Current, LoadSequence, LoadWord, RecheckSequence, RecheckPublication, GiveUp
<1>3. WriterKnows' /\ BanksWhole' /\ BankInProgress'
  BY <1>2 DEF IInv, WriterKnows, BanksWhole, BankInProgress, Of, BankOf
<1>4. /\ pc \in [Reader -> {"idle", "current", "sequence", "load", "recheck", "give up"}]
      /\ try \in [Reader -> 0 .. Attempts] /\ stamp \in [Reader -> 0 .. Last]
      /\ value \in [Reader -> [Word -> 0 .. Last]] /\ loaded \in [Reader -> 0 .. WordCount]
      /\ answer \in [Reader -> Answers] /\ floor \in [Reader -> 0 .. Closed]
  BY <1>1 DEF TypeOK
<1>5. /\ stamp[r] \in Nat /\ loaded[r] \in Nat /\ try[r] \in Nat /\ floor[r] \in Nat
      /\ publication \in Nat /\ publication <= Last + 1 /\ Attempts \in Nat /\ Attempts > 0
      /\ WordCount \in Nat /\ Last \in Nat /\ BankOf(stamp[r]) \in Bank
  BY <1>1, Numbers, Alternate
<1>6. \A q \in Reader \ {r} : ReaderKnows(q)'
  <2>1. SUFFICES ASSUME NEW q \in Reader \ {r}
        PROVE  ReaderKnows(q)'
    OBVIOUS
  <2>2. /\ pc'[q] = pc[q] /\ try'[q] = try[q] /\ stamp'[q] = stamp[q]
        /\ value'[q] = value[q] /\ loaded'[q] = loaded[q]
        /\ answer'[q] = answer[q] /\ floor'[q] = floor[q]
    BY <1>4 DEF Read, ReadCall, Current, LoadSequence, LoadWord, RecheckSequence,
       RecheckPublication, GiveUp, Again, Answer
  <2>3. ReaderKnows(q)
    BY DEF IInv
  <2> QED BY <2>2, <2>3, <1>2 DEF ReaderKnows, Of, BankOf
<1>7. ReaderKnows(r)'
  <2>1. CASE ReadCall(r)
    <3>1. /\ pc'[r] = "current" /\ floor'[r] = publication /\ try'[r] = 0
          /\ UNCHANGED <<publication, answer>>
      BY <2>1, <1>4 DEF ReadCall
    <3>2. floor'[r] + try'[r] <= publication' /\ try'[r] < Attempts
      <4>1. floor'[r] = publication /\ try'[r] = 0 /\ publication' = publication
        BY <3>1
      <4> QED BY <4>1, <1>5
    <3> QED BY <3>1, <3>2, <1>1 DEF ReaderKnows
  <2>2. CASE Current(r) /\ publication \in 1 .. Last
    <3>1. /\ pc[r] = "current" /\ pc'[r] = "sequence" /\ stamp'[r] = publication
          /\ UNCHANGED <<publication, answer, try, floor>>
      BY <2>2, <1>4 DEF Current
    <3> QED BY <3>1, <2>2, <1>1, <1>5 DEF ReaderKnows
  <2>3. CASE Current(r) /\ publication \notin 1 .. Last
    <3>1. /\ pc'[r] = "idle"
          /\ answer'[r] = Register!Status(IF publication = 0 THEN "Empty" ELSE "Closed")
      BY <2>3, <1>4 DEF Current, Answer
    <3>2. answer'[r].status \in {"Empty", "Closed"}
      BY <3>1, AnswersTyped
    <3> QED BY <3>1, <3>2 DEF ReaderKnows
  <2>4. CASE LoadSequence(r) /\ sequence[BankOf(stamp[r])] # stamp[r] * 2
    BY <2>4, Overtaken, AttemptFailed DEF LoadSequence
  <2>5. CASE LoadSequence(r) /\ sequence[BankOf(stamp[r])] = stamp[r] * 2
    <3>1. /\ pc[r] = "sequence" /\ pc'[r] = "load" /\ loaded'[r] = 0
          /\ UNCHANGED <<publication, sequence, stamp, answer, try, floor>>
      BY <2>5, <1>4 DEF LoadSequence
    <3>2. \A w \in Word : ~(w <= 0)
      BY DEF Word
    <3>3. sequence[BankOf(stamp[r])] = 2 * stamp[r]
      BY <2>5, <1>5
    <3> QED BY <3>1, <3>2, <3>3, <1>1 DEF ReaderKnows, BankOf
  <2>6. CASE LoadWord(r)
    <3>1. /\ pc[r] = "load" /\ pc'[r] = "load" /\ loaded'[r] = loaded[r] + 1
          /\ loaded[r] < WordCount
          /\ value'[r] = [value[r] EXCEPT ![loaded[r] + 1] =
                            words[BankOf(stamp[r])][loaded[r] + 1]]
          /\ UNCHANGED <<publication, sequence, stamp, answer, try, floor>>
      BY <2>6, <1>4 DEF LoadWord
    <3>2. stamp[r] \in 1 .. Last
      BY <3>1, <1>1 DEF ReaderKnows
    <3>3. loaded[r] + 1 \in Word /\ value[r] \in [Word -> 0 .. Last]
      <4>1. loaded[r] < WordCount
        BY <3>1
      <4>2. loaded[r] \in Nat /\ WordCount \in Nat
        BY <1>5
      <4>3. loaded[r] + 1 \in Word
        BY <4>1, <4>2 DEF Word
      <4>4. value[r] \in [Word -> 0 .. Last]
        BY <1>4
      <4> QED BY <4>3, <4>4
    <3>4. ASSUME sequence[BankOf(stamp[r])] = 2 * stamp[r],
                 \A w \in Word : w <= loaded[r] => value[r][w] = stamp[r],
                 NEW w \in Word, w <= loaded[r] + 1
          PROVE  value'[r][w] = stamp[r]
      <4>1. words[BankOf(stamp[r])] = Of(stamp[r])
        BY <3>2, <3>4, <1>1, <1>5 DEF BanksWhole
      <4>2. w <= loaded[r] \/ w = loaded[r] + 1
        BY <3>4, <1>5 DEF Word
      <4>3. words[BankOf(stamp[r])][loaded[r] + 1] = stamp[r]
        BY <4>1, <3>3 DEF Of
      <4> QED BY <4>2, <4>3, <3>1, <3>3, <3>4
    <3> QED BY <3>1, <3>4, <1>1 DEF ReaderKnows, BankOf
  <2>7. CASE RecheckSequence(r) /\ sequence[BankOf(stamp[r])] # stamp[r] * 2
    BY <2>7, Overtaken, AttemptFailed DEF RecheckSequence
  <2>8. CASE RecheckSequence(r) /\ sequence[BankOf(stamp[r])] = stamp[r] * 2
    <3>1. /\ pc[r] = "load" /\ pc'[r] = "recheck" /\ loaded[r] = WordCount
          /\ UNCHANGED <<publication, sequence, stamp, value, answer, try, floor>>
      BY <2>8, <1>4 DEF RecheckSequence
    <3>2. ~(sequence[BankOf(stamp[r])] > 2 * stamp[r])
      BY <2>8, <1>5
    <3>3. \A w \in Word : w <= loaded[r] => value[r][w] = stamp[r]
      BY <3>1, <3>2, <1>1 DEF ReaderKnows
    <3>4. value[r] = Of(stamp[r])
      <4>1. \A w \in Word : value[r][w] = stamp[r]
        BY <3>1, <3>3, <1>5 DEF Word
      <4>2. value[r] \in [Word -> 0 .. Last]
        BY <1>4
      <4> QED BY <4>1, <4>2 DEF Of
    <3> QED BY <3>1, <3>4, <1>1 DEF ReaderKnows, Of
  <2>9. CASE RecheckPublication(r) /\ publication # stamp[r]
    BY <2>9, Overtaken, AttemptFailed DEF RecheckPublication
  <2>10. CASE RecheckPublication(r) /\ publication = stamp[r]
    <3>1. /\ pc[r] = "recheck" /\ pc'[r] = "idle"
          /\ answer'[r] = [status |-> "Ready", stamp |-> stamp[r], value |-> value[r]]
      BY <2>10, <1>4 DEF RecheckPublication, Answer, Ready
    <3>2. value[r] = Of(stamp[r])
      BY <3>1, <1>1 DEF ReaderKnows
    <3>3. answer'[r].status = "Ready" /\ \A w \in Word : answer'[r].value[w] = answer'[r].stamp
      BY <3>1, <3>2 DEF Of
    <3> QED BY <3>1, <3>3 DEF ReaderKnows
  <2>11. CASE GiveUp(r)
    <3>1. /\ pc[r] = "give up" /\ pc'[r] = "idle"
          /\ answer'[r] = Register!Status(IF publication = Closed THEN "Closed" ELSE "Busy")
          /\ UNCHANGED <<publication, try, floor>>
      BY <2>11, <1>4 DEF GiveUp, Answer
    <3>2. answer'[r].status \in {"Busy", "Closed"}
      BY <3>1, AnswersTyped
    <3>3. floor[r] + Attempts <= publication
      BY <3>1, <1>1 DEF ReaderKnows
    <3> QED BY <3>1, <3>2, <3>3 DEF ReaderKnows
  <2> QED BY <2>1, <2>2, <2>3, <2>4, <2>5, <2>6, <2>7, <2>8, <2>9, <2>10, <2>11 DEF Read
<1> QED BY <1>1, <1>3, <1>6, <1>7 DEF IInv

-----------------------------------------------------------------------------
(* Every step keeps it. *)
LEMMA StepIInv ==
  ASSUME IInv, [Next]_vars
  PROVE  IInv'
<1>1. CASE UNCHANGED vars
  <2>1. UNCHANGED <<sequence, words, publication, next, writer, written, pc, try, stamp,
                    value, loaded, answer, floor>>
    BY <1>1 DEF vars, banks, writerVars, readerVars, attemptVars
  <2>2. TypeOK'
    BY <2>1 DEF IInv, TypeOK, Answers
  <2>3. WriterKnows' /\ BanksWhole' /\ BankInProgress'
    BY <2>1 DEF IInv, WriterKnows, BanksWhole, BankInProgress, Of, BankOf
  <2>4. \A r \in Reader : ReaderKnows(r)'
    BY <2>1 DEF IInv, ReaderKnows, Of, BankOf
  <2> QED BY <2>2, <2>3, <2>4 DEF IInv
<1> QED BY <1>1, WriterIInv, ReaderIInv DEF Next

(* It holds of every state that is reached. *)
LEMMA Invariant == Spec => []IInv
  BY InitIInv, StepIInv, PTL DEF Spec

(* The types of the state: no publication after the last, no sequence word *)
(* of one, and no attempt after the last.                                  *)
THEOREM TypesKept == Spec => []TypeOK
<1>1. IInv => TypeOK
  BY DEF IInv
<1> QED BY <1>1, Invariant, PTL

(* Read never gives a mixture of two publications.                         *)
THEOREM OnePublication == Spec => []ReadyIsOnePublication
<1>1. IInv => ReadyIsOnePublication
  BY DEF IInv, ReadyIsOnePublication, ReaderKnows
<1> QED BY <1>1, Invariant, PTL

(* Read is Busy only if as many publications as it has attempts were made  *)
(* since it was called.                                                    *)
THEOREM BusyIsOvertaken == Spec => []BusyOnlyWhenOvertaken
<1>1. IInv => BusyOnlyWhenOvertaken
  <2>1. SUFFICES ASSUME IInv, NEW r \in Reader, pc[r] = "idle", answer[r].status = "Busy"
        PROVE  publication >= floor[r] + Attempts
    BY DEF BusyOnlyWhenOvertaken, At
  <2>2. floor[r] + Attempts <= publication
    BY <2>1 DEF IInv, ReaderKnows
  <2>3. floor[r] \in Nat /\ Attempts \in Nat /\ publication \in Nat
    BY <2>1, Numbers DEF IInv
  <2> QED BY <2>2, <2>3
<1> QED BY <1>1, Invariant, PTL

-----------------------------------------------------------------------------
(* The register: StorePublication publishes, PublishClose closes, and the  *)
(* last load of a read that answers is the instant of the read.            *)
LEMMA ReadImplementsRead ==
  ASSUME IInv, NEW r \in Reader, Read(r)
  PROVE  Register!Read(r) \/ UNCHANGED Register!vars
<1>1. UNCHANGED publication
  BY DEF Read, ReadCall, Current, LoadSequence, LoadWord, RecheckSequence, RecheckPublication, GiveUp
<1>2. publication \in Nat /\ Last \in Nat
  BY Numbers DEF IInv
<1>3. CASE UNCHANGED answer
  BY <1>1, <1>3 DEF Register!vars
<1>4. ASSUME NEW a, Answer(r, a), a = Register!Now \/ a = Register!Status("Busy")
      PROVE  Register!Read(r)
  <2>1. answer' = [answer EXCEPT ![r] = a]
    BY <1>4 DEF Answer
  <2> QED BY <2>1, <1>1, <1>4 DEF Register!Read
<1>5. CASE Current(r)
  <2>1. CASE publication \in 1 .. Last
    BY <2>1, <1>3, <1>5 DEF Current
  <2>2. CASE publication \notin 1 .. Last
    <3>1. Answer(r, Register!Status(IF publication = 0 THEN "Empty" ELSE "Closed"))
      BY <2>2, <1>5 DEF Current
    <3>2. Register!Status(IF publication = 0 THEN "Empty" ELSE "Closed") = Register!Now
      <4>1. publication = 0 \/ publication > Last
        BY <2>2, <1>2
      <4> QED BY <4>1, <1>2 DEF Register!Now
    <3> QED BY <3>1, <3>2, <1>4
  <2> QED BY <2>1, <2>2
<1>6. CASE RecheckPublication(r)
  <2>1. CASE publication # stamp[r]
    BY <2>1, <1>3, <1>6 DEF RecheckPublication
  <2>2. CASE publication = stamp[r]
    <3>1. Answer(r, Ready(r))
      BY <2>2, <1>6 DEF RecheckPublication
    <3>2. stamp[r] \in 1 .. Last /\ value[r] = Of(stamp[r])
      BY <1>6 DEF IInv, ReaderKnows, RecheckPublication, At
    <3>3. Ready(r) = Register!Now
      <4>1. Ready(r) = Register!Ready(publication)
        BY <2>2, <3>2 DEF Ready, Register!Ready, Of
      <4>2. publication # 0 /\ ~(publication > Last)
        BY <2>2, <3>2, <1>2
      <4> QED BY <4>1, <4>2 DEF Register!Now
    <3> QED BY <3>1, <3>3, <1>4
  <2> QED BY <2>1, <2>2
<1>7. CASE GiveUp(r)
  <2>1. Answer(r, Register!Status(IF publication = Closed THEN "Closed" ELSE "Busy"))
    BY <1>7 DEF GiveUp
  <2>2. CASE publication = Closed
    <3>1. publication # 0 /\ publication > Last
      BY <2>2, <1>2 DEF Closed
    <3>2. Register!Status("Closed") = Register!Now
      BY <3>1 DEF Register!Now
    <3> QED BY <2>1, <2>2, <3>2, <1>4
  <2>3. CASE publication # Closed
    BY <2>1, <2>3, <1>4
  <2> QED BY <2>2, <2>3
<1> QED BY <1>3, <1>5, <1>6, <1>7 DEF Read, ReadCall, LoadSequence, LoadWord, RecheckSequence

(* The store that publishes is the write of the register. *)
LEMMA PublishImplementsPublish ==
  ASSUME IInv, Publish
  PROVE  Register!Publish \/ Register!Close \/ UNCHANGED Register!vars
<1>1. UNCHANGED answer
  BY DEF Publish, PublishBegin, PublishClose, OpenBank, StoreWord, CloseBank, StorePublication,
     readerVars
<1>2. publication \in Nat /\ next \in Nat /\ next <= Last /\ Last \in Nat
  BY Numbers DEF IInv
<1>3. CASE StorePublication
  <2>1. publication + 1 = next /\ publication' = next
    BY <1>3 DEF StorePublication, WriterAt, IInv, WriterKnows
  <2>2. publication < Last /\ publication' = publication + 1
    BY <2>1, <1>2
  <2> QED BY <2>2, <1>1 DEF Register!Publish
<1>4. CASE PublishClose
  <2>1. publication = next /\ next >= Last /\ publication' = Closed
    BY <1>4 DEF PublishClose, WriterAt, IInv, WriterKnows
  <2>2. publication = Last /\ publication' = Last + 1
    BY <2>1, <1>2 DEF Closed
  <2> QED BY <2>2, <1>1 DEF Register!Close
<1>5. CASE PublishBegin \/ OpenBank \/ StoreWord \/ CloseBank
  BY <1>1, <1>5 DEF PublishBegin, OpenBank, StoreWord, CloseBank, Register!vars
<1> QED BY <1>3, <1>4, <1>5 DEF Publish

(* The channel implements the register. *)
THEOREM ChannelIsRegister == Spec => RegisterRefined
<1>1. Init => Register!Init
  BY DEF Init, Register!Init
<1>2. IInv /\ [Next]_vars => [Register!Next]_Register!vars
  <2>1. SUFFICES ASSUME IInv, [Next]_vars
        PROVE  Register!Next \/ UNCHANGED Register!vars
    OBVIOUS
  <2>2. CASE UNCHANGED vars
    BY <2>2 DEF vars, readerVars, Register!vars
  <2>3. CASE Publish
    BY <2>1, <2>3, PublishImplementsPublish DEF Register!Next
  <2>4. ASSUME NEW r \in Reader, Read(r)
        PROVE  Register!Next \/ UNCHANGED Register!vars
    BY <2>1, <2>4, ReadImplementsRead DEF Register!Next
  <2> QED BY <2>1, <2>2, <2>3, <2>4 DEF Next
<1> QED BY <1>1, <1>2, Invariant, PTL DEF Spec, RegisterRefined, Register!Spec

-----------------------------------------------------------------------------
(* The alarm manager.                                                      *)

(* The parts of a call: while it empties the image, while it has the       *)
(* writer flag, while it may get it, and while its admission may last.     *)
Clearing == {"clear flag", "clear image", "clear count"}
Section == {"promote take", "promote payload", "clear recheck", "under reserve",
            "publish image", "publish flag", "publish count", "release writer"}
Inside == {"trigger writer", "promote writer", "clear writer"} \cup Section \cup Clearing
Lasting == {"admitted", "under reserve", "publish image", "publish flag", "publish count",
            "release writer"} \cup Clearing
Carrying == {"under reserve", "promote payload", "publish image", "publish flag",
             "publish count"}
Unfinished == {"publish flag", "publish count", "clear image", "clear count"}

(* Where the calls of a holder and of the other threads can be. *)
HolderPlace ==
  \A h \in Holder :
    /\ admission[h].acquired => call[h] \in Lasting
    /\ call[h] \in {"admitted", "under reserve"} \cup Clearing => admission[h].acquired
    /\ call[h] \notin {"trigger writer", "defer", "defer swap", "overflow payload",
                     "overflow flag", "clear look", "clear declare", "clear writer",
                     "clear recheck"}
    /\ after[h] # "clear look"
OtherPlace ==
  \A t \in Alarms!Thread \ Holder :
    /\ call[t] \notin Alarms!Reserving
       \cup {"captured", "superseded", "capture intent", "admit look",
                                    "admit state", "admit quiet", "admit reserve",
                                    "admit answer"}
    /\ after[t] \in {"idle", "clear look"}
(* A call that promotes has an attempt left. *)
AttemptsAreLeft == \A t \in Alarms!Thread : call[t] = "promote" => left[t] # 0

Places == HolderPlace /\ OtherPlace /\ AttemptsAreLeft

(* One thread has the writer flag, and nobody else is about to write.      *)
HasWriter(t) == call[t] \in Section \/ (call[t] \in Clearing /\ ~Alarms!Admitted(t))
WriterIsTaken == \A t \in Alarms!Thread : HasWriter(t) => alarmWriter
WriterIsHeld == alarmWriter => \E t \in Alarms!Thread : HasWriter(t)
WriterIsOne ==
  \A t, u \in Alarms!Thread : call[t] \in Section \cup Clearing
        /\ call[u] \in Section \cup Clearing => t = u

OneWriter == WriterIsTaken /\ WriterIsHeld /\ WriterIsOne

(* The active count of the intent word is the number of calls declared. *)
Counted(t) == call[t] \in Alarms!Declared \cup Alarms!Writing \cup {"release writer"}
      /\ ~Alarms!Admitted(t)
Active == {t \in Alarms!Thread : Counted(t)}
ActiveIsCounted == IsFiniteSet(Active) /\ intent.active = Cardinality(Active)

(* The reservation is one holder's; while it lasts nobody else gets to the *)
(* writer flag, and the sequence tells whether anybody declared a call.    *)
Reserves(h) == call[h] \in {"admit verify", "back out"} \/ admission[h].acquired
ReservedByOne ==
  /\ \A h \in Holder : Reserves(h) => intent.reserved
  /\ \A h, g \in Holder : Reserves(h) /\ Reserves(g) => h = g
BaseIsQuiet ==
  \A h \in Holder : call[h] = "admit reserve" \/ Reserves(h) =>
    admission[h].base.active = 0 /\ ~admission[h].base.reserved
OthersAreOutside ==
  \A h \in Holder : Reserves(h) => \A t \in Alarms!Thread \ {h} : call[t] \notin Inside
SequenceTells ==
  \A h \in Holder : Reserves(h) =>
    /\ admission[h].base.seq <= intent.seq
    /\ intent.seq = admission[h].base.seq =>
         /\ intent.active = 0
         /\ admission[h].acquired => deferred = Alarms!Nothing

OneHolderReserves == ReservedByOne /\ BaseIsQuiet /\ OthersAreOutside /\ SequenceTells

(* What a holder has captured. *)
AdmittedIsCurrent ==
  \A h \in Holder : admission[h].acquired =>
    /\ updateCount = admission[h].expected
    /\ shown = captured[h]
    /\ admission[h].requireNone => ~hasAlarm /\ call[h] = "admitted"
    /\ call[h] \in Carrying => publishing[h].delta = 1
CaptureIsKnown ==
  \A h \in Holder : call[h] \notin {"idle", "superseded"} =>
    /\ admission[h].expected <= updateCount
    /\ admission[h].expected = updateCount =>
         captured[h] = shown \/ \E t \in Alarms!Thread : call[t] \in Unfinished

Captured == AdmittedIsCurrent /\ CaptureIsKnown

(* What is deferred, on its way and shown. *)
WaitingIsDeferred == waiting # <<>> <=> deferred # Alarms!Nothing
PayloadIsCarried ==
  \A t \in Alarms!Thread :
    /\ publishing[t].alarms # <<>> <=> call[t] \in Carrying
    /\ call[t] \in Carrying => publishing[t].delta # 0
    /\ call[t] \in {"under reserve", "publish image"} => publishing[t].code # NoAlarm
CodesAreKnown ==
  /\ deferred.count # 0 => deferred.code # NoAlarm
  /\ deferred.overflow /\ deferred.count = 0 => overflowPayload # NoAlarm
  /\ \A t \in Alarms!Thread : call[t] \in {"overflow flag", "promote payload"}
     => overflowPayload # NoAlarm
ImageIsShown ==
  /\ (\A t \in Alarms!Thread : call[t] \notin {"publish flag", "clear image"}) =>
       /\ shown # {} <=> hasAlarm
       /\ shown # {} <=> image # <<>>
  /\ \A t \in Alarms!Thread :
       /\ call[t] = "publish flag" => shown # {} /\ image # <<>>
       /\ call[t] = "clear image" => shown = {} /\ ~hasAlarm
ImageHasCodes == NoAlarm \notin Alarms!Range(image)

Carried ==
  /\ WaitingIsDeferred /\ PayloadIsCarried /\ CodesAreKnown
  /\ ImageIsShown /\ ImageHasCodes /\ Alarms!DeferredDescribesWaiting

AlarmIInv == Alarms!TypeOK /\ Places /\ OneWriter /\ ActiveIsCounted /\ OneHolderReserves
      /\ Captured /\ Carried

(* A function with one value replaced. *)
LEMMA SetFacts ==
  ASSUME NEW D, NEW S, NEW f \in [D -> S], NEW x \in D, NEW v \in S
  PROVE  /\ [f EXCEPT ![x] = v] \in [D -> S] /\ [f EXCEPT ![x] = v][x] = v
         /\ \A u \in D : u # x => [f EXCEPT ![x] = v][u] = f[u]
  OBVIOUS

(* What the types say of the parts. *)
LEMMA AlarmTypeFacts ==
  ASSUME Alarms!TypeOK
  PROVE  /\ intent.seq \in Nat /\ intent.active \in Nat /\ intent.reserved \in BOOLEAN
         /\ alarmWriter \in BOOLEAN /\ hasAlarm \in BOOLEAN /\ updateCount \in Nat
         /\ deferred.count \in Nat /\ deferred.overflow \in BOOLEAN
         /\ \A t \in Alarms!Thread : /\ call[t] \in Alarms!Label /\ left[t] \in 0 .. 2
                                        /\ after[t] \in Alarms!Return
                                     /\ publishing[t].delta \in Nat
                                     /\ publishing[t].code \in Alarms!Alarm \cup {NoAlarm}
                                     /\ publishing[t].alarms \in Seq(Alarms!Alarm)
         /\ \A h \in Holder : /\ h \in Alarms!Thread
                              /\ admission[h].acquired \in BOOLEAN
                              /\ admission[h].base \in Alarms!Intent
                              /\ admission[h].base.seq \in Nat
                              /\ admission[h].base.active \in Nat
                              /\ admission[h].base.reserved \in BOOLEAN
                              /\ admission[h].expected \in Nat
                              /\ admission[h].requireNone \in BOOLEAN
                              /\ admission[h].exact \in BOOLEAN
<1>1. ASSUME NEW h \in Holder
      PROVE  /\ h \in Alarms!Thread
             /\ admission[h].acquired \in BOOLEAN /\ admission[h].base \in Alarms!Intent
             /\ admission[h].base.seq \in Nat /\ admission[h].base.active \in Nat
             /\ admission[h].base.reserved \in BOOLEAN
             /\ admission[h].expected \in Nat /\ admission[h].requireNone \in BOOLEAN
             /\ admission[h].exact \in BOOLEAN
  <2>1. admission[h] \in Alarms!Reservation
    BY DEF Alarms!TypeOK
  <2>2. admission[h].base \in Alarms!Intent
    BY <2>1 DEF Alarms!Reservation
  <2> QED BY <2>1, <2>2 DEF Alarms!Reservation, Alarms!Intent, Alarms!Thread
<1>2. ASSUME NEW t \in Alarms!Thread
      PROVE  /\ call[t] \in Alarms!Label /\ left[t] \in 0 .. 2 /\ after[t] \in Alarms!Return
             /\ publishing[t].delta \in Nat
                /\ publishing[t].code \in Alarms!Alarm \cup {NoAlarm}
             /\ publishing[t].alarms \in Seq(Alarms!Alarm)
  <2>1. publishing[t] \in Alarms!Payload
    BY DEF Alarms!TypeOK
  <2>2. call[t] \in Alarms!Label /\ left[t] \in 0 .. 2 /\ after[t] \in Alarms!Return
    BY DEF Alarms!TypeOK
  <2> QED BY <2>1, <2>2 DEF Alarms!Payload
<1>3. /\ intent.seq \in Nat /\ intent.active \in Nat /\ intent.reserved \in BOOLEAN
      /\ alarmWriter \in BOOLEAN /\ hasAlarm \in BOOLEAN /\ updateCount \in Nat
  BY DEF Alarms!TypeOK, Alarms!Intent
<1>4. deferred.count \in Nat /\ deferred.overflow \in BOOLEAN
  BY BoundAssumption DEF Alarms!TypeOK, Alarms!Publication
<1> QED BY <1>1, <1>2, <1>3, <1>4

(* A step of a call moves that call alone. *)
LEMMA GotoFacts ==
  ASSUME Alarms!TypeOK, NEW t \in Alarms!Thread, NEW label \in Alarms!Label, Alarms!Goto(t, label)
  PROVE  /\ call'[t] = label
         /\ \A u \in Alarms!Thread : u # t => call'[u] = call[u]
         /\ call' \in [Alarms!Thread -> Alarms!Label]
  BY DEF Alarms!TypeOK, Alarms!Goto

(* A call that goes on promotes, or returns to where it was called from.   *)
LEMMA AttemptFacts ==
  ASSUME Alarms!TypeOK, NEW t \in Alarms!Thread, NEW n, Alarms!AttemptOrGoOn(t, n)
  PROVE  /\ call'[t] \in {"promote", after[t]}
         /\ \A u \in Alarms!Thread : u # t => call'[u] = call[u]
         /\ call' \in [Alarms!Thread -> Alarms!Label]
         /\ call'[t] = "promote" => n > 0
         /\ after'[t] \in {after[t], "idle"}
         /\ \A u \in Alarms!Thread : u # t => after'[u] = after[u]
         /\ after' \in [Alarms!Thread -> Alarms!Return]
<1>1. "promote" \in Alarms!Label /\ after[t] \in Alarms!Label /\ "idle" \in Alarms!Return
      /\ after[t] # "promote"
  BY AlarmTypeFacts DEF Alarms!Return, Alarms!Label, Alarms!Elsewhere
<1>2. after \in [Alarms!Thread -> Alarms!Return]
  BY DEF Alarms!TypeOK
<1>3. CASE n > 0
  BY <1>1, <1>2, <1>3, GotoFacts DEF Alarms!AttemptOrGoOn
<1>4. CASE ~(n > 0)
  BY <1>1, <1>2, <1>4, GotoFacts DEF Alarms!AttemptOrGoOn
<1> QED BY <1>3, <1>4

(* A call declared is one more in the intent word, whoever reserved it.    *)
LEMMA DeclareFacts ==
  ASSUME Alarms!TypeOK, NEW t \in Alarms!Thread,
         NEW admitted \in Alarms!Label, NEW free \in Alarms!Label,
         Alarms!Declare(t, admitted, free)
  PROVE  /\ intent' \in Alarms!Intent
         /\ intent'.seq = intent.seq + 1 /\ intent'.active = intent.active + 1
         /\ intent'.reserved = intent.reserved
         /\ call'[t] = IF intent.reserved THEN admitted ELSE free
         /\ \A u \in Alarms!Thread : u # t => call'[u] = call[u]
         /\ call' \in [Alarms!Thread -> Alarms!Label]
<1>1. intent \in Alarms!Intent /\ intent' = [intent EXCEPT !.seq = @ + 1, !.active = @ + 1]
  BY DEF Alarms!TypeOK, Alarms!Declare
<1>2. /\ intent' \in Alarms!Intent
      /\ intent'.seq = intent.seq + 1 /\ intent'.active = intent.active + 1
      /\ intent'.reserved = intent.reserved
  <2>1. intent' = [seq |-> intent.seq + 1, active |-> intent.active + 1,
                   reserved |-> intent.reserved]
    BY <1>1 DEF Alarms!Intent
  <2> QED BY <2>1, AlarmTypeFacts DEF Alarms!Intent
<1>3. PICK label \in Alarms!Label : Alarms!Goto(t, label)
      /\ label = IF intent.reserved THEN admitted ELSE free
  BY DEF Alarms!Declare
<1>4. /\ call'[t] = label /\ \A u \in Alarms!Thread : u # t => call'[u] = call[u]
      /\ call' \in [Alarms!Thread -> Alarms!Label]
  BY <1>3, GotoFacts
<1> QED BY <1>2, <1>3, <1>4

(* One thread takes the writer flag at a time.                             *)
LEMMA TakeWriterFacts ==
  ASSUME Alarms!TypeOK, NEW t \in Alarms!Thread,
         NEW label, NEW taken \in Alarms!Label, NEW refused \in Alarms!Label,
         Alarms!TakeWriter(t, label, taken, refused)
  PROVE  /\ call[t] = label /\ alarmWriter'
         /\ call'[t] = IF alarmWriter THEN refused ELSE taken
         /\ \A u \in Alarms!Thread : u # t => call'[u] = call[u]
         /\ call' \in [Alarms!Thread -> Alarms!Label]
<1>1. PICK to \in Alarms!Label : Alarms!Goto(t, to)
      /\ to = IF alarmWriter THEN refused ELSE taken
  BY DEF Alarms!TakeWriter
<1> QED BY <1>1, GotoFacts DEF Alarms!TakeWriter, Alarms!At

(* A call that is told BUSY keeps its capture, one that is told SUPERSEDED *)
(* drops it.                                                               *)
LEMMA BusyFacts ==
  ASSUME Alarms!TypeOK, NEW h \in Holder, Alarms!Busy(h)
  PROVE  /\ call'[h] = "captured" /\ captured' = captured
         /\ ~admission'[h].acquired /\ admission'[h].expected = admission[h].expected
         /\ \A u \in Alarms!Thread : u # h => call'[u] = call[u]
         /\ \A g \in Holder : g # h => admission'[g] = admission[g]
         /\ call' \in [Alarms!Thread -> Alarms!Label]
            /\ admission' \in [Holder -> Alarms!Reservation]
<1>1. h \in Alarms!Thread /\ "captured" \in Alarms!Label
  BY DEF Alarms!Thread, Alarms!Label, Alarms!Elsewhere
<1>2. admission[h] \in Alarms!Reservation /\ Alarms!Quiet \in Alarms!Intent
      /\ admission[h].base \in Alarms!Intent
  BY AlarmTypeFacts DEF Alarms!TypeOK, Alarms!Quiet, Alarms!Intent
<1>3. /\ Alarms!Capture(h) \in Alarms!Reservation /\ ~Alarms!Capture(h).acquired
      /\ Alarms!Capture(h).expected = admission[h].expected
  BY <1>2 DEF Alarms!Capture, Alarms!Reservation
<1>4. admission \in [Holder -> Alarms!Reservation]
      /\ admission' = [admission EXCEPT ![h] = Alarms!Capture(h)]
  BY DEF Alarms!TypeOK, Alarms!Busy
<1>5. /\ admission'[h] = Alarms!Capture(h) /\ admission' \in [Holder -> Alarms!Reservation]
      /\ \A g \in Holder : g # h => admission'[g] = admission[g]
  BY <1>3, <1>4
<1>6. Alarms!Goto(h, "captured") /\ captured' = captured
  BY DEF Alarms!Busy
<1> QED BY <1>1, <1>3, <1>5, <1>6, GotoFacts

(* A call that is told SUPERSEDED drops its capture. *)
LEMMA SupersedeFacts ==
  ASSUME Alarms!TypeOK, NEW h \in Holder, Alarms!Supersede(h)
  PROVE  /\ call'[h] = "superseded" /\ ~admission'[h].acquired
         /\ \A u \in Alarms!Thread : u # h => call'[u] = call[u]
         /\ \A g \in Holder : g # h => admission'[g] = admission[g]
            /\ captured'[g] = captured[g]
         /\ call' \in [Alarms!Thread -> Alarms!Label]
            /\ admission' \in [Holder -> Alarms!Reservation]
         /\ captured' \in [Holder -> SUBSET Alarms!Alarm]
<1>1. h \in Alarms!Thread /\ "superseded" \in Alarms!Label
  BY DEF Alarms!Thread, Alarms!Label, Alarms!Elsewhere
<1>2. Alarms!NotAdmitted \in Alarms!Reservation /\ ~Alarms!NotAdmitted.acquired
  BY DEF Alarms!NotAdmitted, Alarms!Reservation, Alarms!Quiet, Alarms!Intent
<1>3. /\ admission \in [Holder -> Alarms!Reservation]
         /\ admission' = [admission EXCEPT ![h] = Alarms!NotAdmitted]
      /\ captured \in [Holder -> SUBSET Alarms!Alarm] /\ captured' = [captured EXCEPT ![h] = {}]
  BY DEF Alarms!TypeOK, Alarms!Supersede
<1> QED BY <1>1, <1>2, <1>3, GotoFacts DEF Alarms!Supersede

(* The reserved word, field by field. *)
LEMMA ReservedFacts ==
  ASSUME Alarms!TypeOK, NEW h \in Holder
  PROVE  /\ Alarms!Reserved(h) \in Alarms!Intent /\ Alarms!Reserved(h).reserved
         /\ Alarms!Reserved(h).seq = admission[h].base.seq
         /\ Alarms!Reserved(h).active = admission[h].base.active
         /\ intent = Alarms!Reserved(h) <=> /\ intent.reserved
                                               /\ intent.seq = admission[h].base.seq
                                            /\ intent.active = admission[h].base.active
<1>1. admission[h].base \in Alarms!Intent /\ intent \in Alarms!Intent
  BY AlarmTypeFacts DEF Alarms!TypeOK
<1> QED BY <1>1 DEF Alarms!Reserved, Alarms!Intent

(* The release of the reservation takes nothing else from the word.        *)
LEMMA ReleaseFacts ==
  ASSUME AlarmIInv, NEW h \in Holder, Reserves(h), Alarms!ReleaseReservation(h)
  PROVE  /\ intent' \in Alarms!Intent /\ ~intent'.reserved
         /\ intent'.seq = intent.seq /\ intent'.active = intent.active
<1>1. Alarms!TypeOK /\ ~admission[h].base.reserved
  BY DEF AlarmIInv, OneHolderReserves, BaseIsQuiet
<1>2. CASE intent = Alarms!Reserved(h)
  BY <1>1, <1>2, ReservedFacts, AlarmTypeFacts DEF Alarms!ReleaseReservation
<1>3. CASE intent # Alarms!Reserved(h)
  BY <1>1, <1>3 DEF Alarms!ReleaseReservation, Alarms!Base, Alarms!TypeOK, Alarms!Intent
<1> QED BY <1>2, <1>3

(* The count of the declared calls, when none, one more or one less is.    *)
LEMMA CountSame ==
  ASSUME AlarmIInv, intent'.active = intent.active,
         \A u \in Alarms!Thread : Counted(u)' <=> Counted(u)
  PROVE  ActiveIsCounted'
<1>1. Active' = Active
  BY DEF Active
<1> QED BY <1>1 DEF AlarmIInv, ActiveIsCounted

(* One more call is declared. *)
LEMMA CountMore ==
  ASSUME AlarmIInv, NEW t \in Alarms!Thread, intent'.active = intent.active + 1,
         ~Counted(t), Counted(t)',
         \A u \in Alarms!Thread : u # t => (Counted(u)' <=> Counted(u))
  PROVE  ActiveIsCounted'
<1>1. Active' = Active \cup {t} /\ t \notin Active
  BY DEF Active
<1>2. IsFiniteSet(Active) /\ intent.active = Cardinality(Active)
  BY DEF AlarmIInv, ActiveIsCounted
<1>3. IsFiniteSet(Active \cup {t}) /\ Cardinality(Active \cup {t}) = Cardinality(Active) + 1
  BY <1>1, <1>2, FS_AddElement
<1> QED BY <1>1, <1>2, <1>3 DEF ActiveIsCounted

(* One call less is declared. *)
LEMMA CountLess ==
  ASSUME AlarmIInv, NEW t \in Alarms!Thread, intent'.active = intent.active - 1,
         Counted(t), ~Counted(t)',
         \A u \in Alarms!Thread : u # t => (Counted(u)' <=> Counted(u))
  PROVE  ActiveIsCounted'
<1>1. Active' = Active \ {t} /\ t \in Active
  BY DEF Active
<1>2. IsFiniteSet(Active) /\ intent.active = Cardinality(Active)
  BY DEF AlarmIInv, ActiveIsCounted
<1>3. IsFiniteSet(Active \ {t}) /\ Cardinality(Active \ {t}) = Cardinality(Active) - 1
  BY <1>1, <1>2, FS_RemoveElement
<1> QED BY <1>1, <1>2, <1>3 DEF ActiveIsCounted

(* A call that is declared is counted.                                     *)
LEMMA CountedIsActive ==
  ASSUME AlarmIInv, NEW t \in Alarms!Thread, Counted(t)
  PROVE  intent.active # 0
<1>1. t \in Active /\ IsFiniteSet(Active) /\ intent.active = Cardinality(Active)
  BY DEF AlarmIInv, ActiveIsCounted, Active
<1> QED BY <1>1, FS_EmptySet

(* What a sequence gains and what it has. *)
LEMMA AppendedRange ==
  ASSUME NEW S, NEW q \in Seq(S), NEW x \in S
  PROVE  /\ Append(q, x) \in Seq(S) /\ Append(q, x) # <<>>
         /\ Len(Append(q, x)) = Len(q) + 1
         /\ Alarms!Range(Append(q, x)) = Alarms!Range(q) \cup {x}
         /\ q = <<>> => Head(Append(q, x)) = x
         /\ q # <<>> => Head(Append(q, x)) = Head(q)
<1>1. Append(q, x) \in Seq(S) /\ Len(Append(q, x)) = Len(q) + 1
  OBVIOUS
<1>2. /\ Append(q, x)[Len(q) + 1] = x
      /\ \A i \in 1 .. Len(q) : Append(q, x)[i] = q[i]
      /\ DOMAIN Append(q, x) = 1 .. Len(q) + 1 /\ DOMAIN q = 1 .. Len(q) /\ Len(q) \in Nat
  OBVIOUS
<1>3. Alarms!Range(Append(q, x)) = Alarms!Range(q) \cup {x}
  <2>1. ASSUME NEW y \in Alarms!Range(Append(q, x)) PROVE y \in Alarms!Range(q) \cup {x}
    BY <1>2 DEF Alarms!Range
  <2>2. x \in Alarms!Range(Append(q, x))
    BY <1>2 DEF Alarms!Range
  <2>3. ASSUME NEW y \in Alarms!Range(q) PROVE y \in Alarms!Range(Append(q, x))
    BY <1>2 DEF Alarms!Range
  <2> QED BY <2>1, <2>2, <2>3
<1>4. /\ q = <<>> => Head(Append(q, x)) = x
      /\ q # <<>> => Head(Append(q, x)) = Head(q)
  BY <1>2
<1>5. Append(q, x) # <<>>
  BY <1>1, <1>2
<1> QED BY <1>1, <1>3, <1>4, <1>5

(* A sequence that is not empty has a head among its members. *)
LEMMA RangeOfSeq ==
  ASSUME NEW S, NEW q \in Seq(S), q # <<>>
  PROVE  /\ Alarms!Range(q) # {} /\ Alarms!Range(q) \subseteq S
         /\ Head(q) \in Alarms!Range(q) /\ Len(q) # 0
<1>1. /\ DOMAIN q = 1 .. Len(q) /\ Len(q) \in Nat /\ Len(q) # 0
      /\ \A i \in 1 .. Len(q) : q[i] \in S
      /\ Head(q) = q[1]
  OBVIOUS
<1>2. 1 \in DOMAIN q
  BY <1>1
<1> QED BY <1>1, <1>2 DEF Alarms!Range

(* A holder that publishes under its admission expects one revision more.  *)
LEMMA ExpectOne ==
  ASSUME Alarms!TypeOK, NEW h \in Alarms!Thread, Alarms!Admitted(h),
         admission' = [admission EXCEPT ![h].expected = @ + 1]
  PROVE  /\ admission' \in [Holder -> Alarms!Reservation]
         /\ admission'[h].expected = admission[h].expected + 1
         /\ admission'[h].acquired = admission[h].acquired
         /\ admission'[h].base = admission[h].base
         /\ admission'[h].requireNone = admission[h].requireNone
         /\ \A g \in Holder : g # h => admission'[g] = admission[g]
<1>1. h \in Holder /\ admission \in [Holder -> Alarms!Reservation]
      /\ admission[h] \in Alarms!Reservation
  BY DEF Alarms!Admitted, Alarms!TypeOK
<1> DEFINE new == [admission[h] EXCEPT !.expected = @ + 1]
<1>2. /\ new \in Alarms!Reservation /\ new.expected = admission[h].expected + 1
      /\ new.acquired = admission[h].acquired /\ new.base = admission[h].base
      /\ new.requireNone = admission[h].requireNone
  BY <1>1 DEF Alarms!Reservation
<1>3. admission' = [admission EXCEPT ![h] = new]
  OBVIOUS
<1> HIDE DEF new
<1> QED BY <1>1, <1>2, <1>3

(* The sequence of the intent word and the one of the base move together.  *)
LEMMA AdvanceFacts ==
  ASSUME Alarms!TypeOK, NEW h \in Holder, Alarms!Advance(h)
  PROVE  /\ intent' \in Alarms!Intent
         /\ intent'.seq = intent.seq + 1 /\ intent'.active = intent.active
         /\ intent'.reserved = intent.reserved
         /\ admission' \in [Holder -> Alarms!Reservation]
         /\ admission'[h].base.seq = admission[h].base.seq + 1
         /\ admission'[h].base.active = admission[h].base.active
         /\ admission'[h].base.reserved = admission[h].base.reserved
         /\ admission'[h].expected = admission[h].expected
         /\ admission'[h].acquired = admission[h].acquired
         /\ admission'[h].requireNone = admission[h].requireNone
         /\ \A g \in Holder : g # h => admission'[g] = admission[g]
<1>1. /\ admission \in [Holder -> Alarms!Reservation] /\ admission[h] \in Alarms!Reservation
      /\ admission[h].base \in Alarms!Intent /\ intent \in Alarms!Intent
  BY AlarmTypeFacts DEF Alarms!TypeOK
<1> DEFINE base == [admission[h].base EXCEPT !.seq = @ + 1]
<1> DEFINE new == [admission[h] EXCEPT !.base = base]
<1>2. /\ base \in Alarms!Intent /\ base.seq = admission[h].base.seq + 1
      /\ base.active = admission[h].base.active /\ base.reserved = admission[h].base.reserved
  BY <1>1 DEF Alarms!Intent
<1>3. admission' = [admission EXCEPT ![h] = new]
  BY DEF Alarms!Advance
<1> HIDE DEF base
<1>4. /\ new \in Alarms!Reservation /\ new.base = base /\ new.expected = admission[h].expected
      /\ new.acquired = admission[h].acquired
      /\ new.requireNone = admission[h].requireNone
  BY <1>1, <1>2 DEF Alarms!Reservation
<1> HIDE DEF new
<1>5. /\ intent' \in Alarms!Intent /\ intent'.seq = intent.seq + 1
      /\ intent'.active = intent.active /\ intent'.reserved = intent.reserved
  BY <1>1 DEF Alarms!Advance, Alarms!Intent
<1> QED BY <1>1, <1>2, <1>3, <1>4, <1>5

(* A publication without a count has an overflow. *)
LEMMA DescribedCode ==
  ASSUME AlarmIInv, deferred # Alarms!Nothing, deferred.count = 0
  PROVE  deferred.overflow
<1>1. waiting # <<>> /\ waiting \in Seq(Alarms!Alarm)
  BY DEF AlarmIInv, Carried, WaitingIsDeferred, Alarms!TypeOK
<1>2. Len(waiting) # 0
  BY <1>1, RangeOfSeq
<1> QED BY <1>2 DEF AlarmIInv, Carried, Alarms!DeferredDescribesWaiting

(* A publication that counts one alarm more describes one alarm more.      *)
LEMMA CoalescedFacts ==
  ASSUME AlarmIInv, NEW t \in Alarms!Thread,
         deferred' = Alarms!Coalesced(t, deferred), waiting' = Append(waiting, t)
  PROVE  /\ deferred' \in Alarms!Publication /\ deferred' # Alarms!Nothing
         /\ waiting' \in Seq(Alarms!Alarm) /\ waiting' # <<>>
         /\ deferred'.count # 0 /\ deferred'.code # NoAlarm
         /\ Alarms!DeferredDescribesWaiting'
<1>1. /\ deferred \in Alarms!Publication /\ waiting \in Seq(Alarms!Alarm)
         /\ t \in Alarms!Alarm /\ t # NoAlarm
      /\ deferred.count \in 0 .. MaxDeferred /\ deferred.overflow \in BOOLEAN
      /\ MaxDeferred \in Nat /\ MaxDeferred # 0 /\ Len(waiting) \in Nat
  BY ThreadAssumption, BoundAssumption DEF AlarmIInv, Alarms!TypeOK, Alarms!Alarm,
     Alarms!Thread, Alarms!Publication
<1>2. /\ waiting' \in Seq(Alarms!Alarm) /\ waiting' # <<>> /\ Len(waiting') = Len(waiting) + 1
      /\ Alarms!Range(waiting') = Alarms!Range(waiting) \cup {t}
      /\ waiting = <<>> => Head(waiting') = t
      /\ waiting # <<>> => Head(waiting') = Head(waiting)
  BY <1>1, AppendedRange
<1>3. /\ deferred.overflow => /\ deferred.count < Len(waiting)
                              /\ deferred.count > 0 => deferred.code \in Alarms!Range(waiting)
      /\ ~deferred.overflow => /\ deferred.count = Len(waiting)
                               /\ waiting # <<>> => deferred.code = Head(waiting)
      /\ deferred.count # 0 => deferred.code # NoAlarm
  BY DEF AlarmIInv, Carried, CodesAreKnown, Alarms!DeferredDescribesWaiting
<1>4. /\ waiting # <<>> => Head(waiting) \in Alarms!Range(waiting) /\ Len(waiting) # 0
      /\ Len(waiting) # 0 => waiting # <<>>
  BY <1>1, RangeOfSeq
<1>5. CASE deferred.count = 0
  <2>1. deferred' = [deferred EXCEPT !.code = t, !.count = 1]
    BY <1>5 DEF Alarms!Coalesced
  <2>2. /\ deferred' \in Alarms!Publication /\ deferred'.code = t /\ deferred'.count = 1
        /\ deferred'.overflow = deferred.overflow
    <3>1. 1 \in 0 .. MaxDeferred
      BY <1>1
    <3> QED BY <1>1, <2>1, <3>1 DEF Alarms!Publication
  <2>3. Alarms!DeferredDescribesWaiting'
    BY <1>1, <1>2, <1>3, <1>4, <1>5, <2>2 DEF Alarms!DeferredDescribesWaiting
  <2> QED BY <1>1, <1>2, <2>2, <2>3 DEF Alarms!Nothing
<1>6. CASE deferred.count # 0 /\ deferred.count < MaxDeferred
  <2>1. deferred' = [deferred EXCEPT !.count = @ + 1]
    BY <1>6 DEF Alarms!Coalesced
  <2>2. /\ deferred' \in Alarms!Publication /\ deferred'.code = deferred.code
        /\ deferred'.count = deferred.count + 1 /\ deferred'.overflow = deferred.overflow
    BY <1>1, <1>6, <2>1 DEF Alarms!Publication
  <2>3. Alarms!DeferredDescribesWaiting'
    BY <1>1, <1>2, <1>3, <1>4, <1>6, <2>2 DEF Alarms!DeferredDescribesWaiting
  <2> QED BY <1>1, <1>2, <1>3, <1>6, <2>2, <2>3 DEF Alarms!Nothing
<1>7. CASE deferred.count # 0 /\ ~(deferred.count < MaxDeferred)
  <2>1. deferred' = [deferred EXCEPT !.overflow = TRUE]
    BY <1>7 DEF Alarms!Coalesced
  <2>2. /\ deferred' \in Alarms!Publication /\ deferred'.code = deferred.code
        /\ deferred'.count = deferred.count /\ deferred'.overflow
    BY <1>1, <2>1 DEF Alarms!Publication
  <2>3. Alarms!DeferredDescribesWaiting'
    BY <1>1, <1>2, <1>3, <1>4, <1>7, <2>2 DEF Alarms!DeferredDescribesWaiting
  <2> QED BY <1>1, <1>2, <1>3, <1>7, <2>2, <2>3 DEF Alarms!Nothing
<1> QED BY <1>5, <1>6, <1>7

(* An overflow describes any alarm more.                                   *)
LEMMA OverflowDescribes ==
  ASSUME AlarmIInv, NEW t \in Alarms!Thread, deferred'.overflow, deferred'.count = deferred.count,
         deferred'.code = deferred.code, waiting' = Append(waiting, t)
  PROVE  Alarms!DeferredDescribesWaiting'
<1>1. /\ waiting \in Seq(Alarms!Alarm) /\ t \in Alarms!Alarm /\ Len(waiting) \in Nat
      /\ deferred.count \in Nat /\ deferred.overflow \in BOOLEAN
  BY AlarmTypeFacts DEF AlarmIInv, Alarms!TypeOK, Alarms!Alarm
<1>2. Len(waiting') = Len(waiting) + 1
      /\ Alarms!Range(waiting') = Alarms!Range(waiting) \cup {t}
  BY <1>1, AppendedRange
<1>3. waiting # <<>> => Head(waiting) \in Alarms!Range(waiting)
  BY <1>1, RangeOfSeq
<1>4. Len(waiting) # 0 => waiting # <<>>
  BY <1>1
<1> QED BY <1>1, <1>2, <1>3, <1>4 DEF AlarmIInv, Carried, Alarms!DeferredDescribesWaiting

(* Nothing is in the empty sequence. *)
LEMMA EmptyRange == Alarms!Range(<<>>) = {}
<1>1. <<>> \in Seq({}) /\ Len(<<>>) = 0 /\ DOMAIN <<>> = 1 .. 0
  OBVIOUS
<1>2. 1 .. 0 = {}
  OBVIOUS
<1> QED BY <1>1, <1>2 DEF Alarms!Range

(* A holder is a thread. *)
LEMMA HoldersAreThreads == Holder \subseteq Alarms!Thread
  BY DEF Alarms!Thread

(* Whoever may write is alone with an admission it may have.               *)
LEMMA AloneFacts ==
  ASSUME AlarmIInv, NEW t \in Alarms!Thread, call[t] \in Inside
  PROVE  /\ \A h \in Holder : Reserves(h) => h = t
         /\ \A h \in Holder : admission[h].acquired => h = t
<1>1. ASSUME NEW h \in Holder, Reserves(h) PROVE h = t
  BY <1>1 DEF AlarmIInv, OneHolderReserves, OthersAreOutside
<1> QED BY <1>1 DEF Reserves

(* A writer flag that is free is nobody's, and nobody empties the image    *)
(* under an admission while another call is about to take the flag.        *)
LEMMA FreeWriterFacts ==
  ASSUME AlarmIInv, NEW t \in Alarms!Thread, ~alarmWriter,
         call[t] \in {"trigger writer", "promote writer", "clear writer"}
  PROVE  \A u \in Alarms!Thread : call[u] \notin Section \cup Clearing
<1> SUFFICES ASSUME NEW u \in Alarms!Thread, call[u] \in Section \cup Clearing PROVE FALSE
  OBVIOUS
<1>1. ~HasWriter(u)
  BY DEF AlarmIInv, OneWriter, WriterIsTaken
<1>2. u \in Holder /\ admission[u].acquired
  BY <1>1 DEF HasWriter, Alarms!Admitted
<1>3. u = t
  BY <1>2, AloneFacts DEF Inside
<1> QED BY <1>3 DEF Section, Clearing

(* A call that is over takes its count out of the word. *)
LEMMA WithdrawKeeps ==
  ASSUME AlarmIInv, NEW t \in Alarms!Thread, Alarms!Withdraw(t)
  PROVE  AlarmIInv'
<1> Alarms!TypeOK
  BY DEF AlarmIInv
<1>1. UNCHANGED <<alarmWriter, deferred, overflowPayload, waiting, image, hasAlarm,
                  updateCount, shown, left, seen, publishing, admission, captured>>
  BY DEF Alarms!Withdraw, Alarms!AttemptOrGoOn, Alarms!imageVars, Alarms!deferredVars,
     Alarms!holderVars
<1>2. /\ call[t] = "withdraw" /\ call'[t] \in {"promote", after[t]}
      /\ \A u \in Alarms!Thread : u # t => call'[u] = call[u]
      /\ call' \in [Alarms!Thread -> Alarms!Label]
      /\ after'[t] \in {after[t], "idle"} /\ after[t] \in Alarms!Return
      /\ \A u \in Alarms!Thread : u # t => after'[u] = after[u]
      /\ after' \in [Alarms!Thread -> Alarms!Return]
      /\ intent.active # 0 /\ intent' \in Alarms!Intent
      /\ intent'.seq = intent.seq /\ intent'.reserved = intent.reserved
      /\ intent'.active = intent.active - 1
      /\ ~Alarms!Admitted(t)
      /\ call'[t] = "promote" => left[t] # 0
  <2>1. call[t] = "withdraw" /\ Alarms!AttemptOrGoOn(t, left[t])
    BY DEF Alarms!Withdraw, Alarms!At
  <2>2. ~Alarms!Admitted(t)
    BY <2>1 DEF AlarmIInv, Places, HolderPlace, Alarms!Admitted, Lasting, Clearing
  <2>3. intent.active # 0
    BY <2>1, <2>2, CountedIsActive DEF Counted, Alarms!Declared
  <2>4. intent \in Alarms!Intent /\ intent' = [intent EXCEPT !.active = @ - 1]
    BY DEF Alarms!TypeOK, Alarms!Withdraw
  <2>5. /\ intent' \in Alarms!Intent /\ intent'.seq = intent.seq
           /\ intent'.reserved = intent.reserved
        /\ intent'.active = intent.active - 1
    BY <2>3, <2>4, AlarmTypeFacts DEF Alarms!Intent
  <2> QED BY <2>1, <2>2, <2>3, <2>5, AttemptFacts, AlarmTypeFacts
<1>3. Alarms!TypeOK'
  BY <1>1, <1>2 DEF Alarms!TypeOK
<1>4. Places'
  <2>1. HolderPlace'
    BY <1>1, <1>2, AlarmTypeFacts, ZenonT(40) DEF AlarmIInv, Places, HolderPlace, Clearing,
       Lasting, Alarms!Return
  <2>2. OtherPlace'
    BY <1>1, <1>2 DEF AlarmIInv, Places, OtherPlace, Alarms!Reserving, Alarms!Return
  <2>3. AttemptsAreLeft'
    BY <1>1, <1>2 DEF AlarmIInv, Places, AttemptsAreLeft, Alarms!Return
  <2> QED BY <2>1, <2>2, <2>3 DEF Places
<1>5. OneWriter'
  BY <1>1, <1>2 DEF AlarmIInv, OneWriter, WriterIsTaken, WriterIsHeld, WriterIsOne,
     HasWriter, Alarms!Admitted, Clearing, Section, Alarms!Return
<1>6. ActiveIsCounted'
  <2>1. Counted(t) /\ ~Counted(t)'
    BY <1>1, <1>2 DEF Counted, Alarms!Admitted, Alarms!Declared, Alarms!Writing,
       Alarms!Return
  <2>2. \A u \in Alarms!Thread : u # t => (Counted(u)' <=> Counted(u))
    BY <1>1, <1>2 DEF Counted, Alarms!Admitted
  <2> QED BY <1>2, <2>1, <2>2, CountLess
<1>7. OneHolderReserves'
  <2>1. ReservedByOne'
    BY <1>1, <1>2, AlarmTypeFacts DEF AlarmIInv, OneHolderReserves, ReservedByOne, Reserves,
       Alarms!Return
  <2>2. BaseIsQuiet'
    BY <1>1, <1>2, AlarmTypeFacts DEF AlarmIInv, OneHolderReserves, BaseIsQuiet,
       Reserves, Alarms!Return
  <2>3. OthersAreOutside'
    BY <1>1, <1>2, AlarmTypeFacts DEF AlarmIInv, OneHolderReserves, OthersAreOutside,
       Reserves,
       Clearing, Section, Inside, Alarms!Return
  <2>4. SequenceTells'
    BY <1>1, <1>2, AlarmTypeFacts DEF AlarmIInv, OneHolderReserves, SequenceTells, Reserves,
       Alarms!Return
  <2> QED BY <2>1, <2>2, <2>3, <2>4 DEF OneHolderReserves
<1>8. Captured'
  <2>1. AdmittedIsCurrent'
    BY <1>1, <1>2, HoldersAreThreads, ZenonT(40) DEF AlarmIInv, Captured, AdmittedIsCurrent, Carrying,
       Alarms!Return
  <2>2. CaptureIsKnown'
    BY <1>1, <1>2, AlarmTypeFacts DEF AlarmIInv, Captured, CaptureIsKnown, Unfinished,
       Alarms!Return
  <2> QED BY <2>1, <2>2 DEF Captured
<1>9. Carried'
  BY <1>1, <1>2, ZenonT(40) DEF AlarmIInv, Carried, WaitingIsDeferred, PayloadIsCarried, CodesAreKnown,
     ImageIsShown, ImageHasCodes, Alarms!DeferredDescribesWaiting, Carrying, Alarms!Return
<1> QED BY <1>3, <1>4, <1>5, <1>6, <1>7, <1>8, <1>9 DEF AlarmIInv

(* Something is shown from here, and an admission holder knows it. *)
LEMMA PublishImageKeeps ==
  ASSUME AlarmIInv, NEW t \in Alarms!Thread, Alarms!PublishImage(t)
  PROVE  AlarmIInv'
<1> Alarms!TypeOK
  BY DEF AlarmIInv
<1>1. UNCHANGED <<intent, alarmWriter, deferred, overflowPayload, waiting, hasAlarm,
                  updateCount, left, after, seen, publishing, admission>>
  BY DEF Alarms!PublishImage, Alarms!deferredVars, Alarms!locals
<1>2. /\ call[t] = "publish image" /\ call'[t] = "publish flag"
      /\ \A u \in Alarms!Thread : u # t => call'[u] = call[u]
      /\ call' \in [Alarms!Thread -> Alarms!Label]
      /\ image' # <<>> /\ NoAlarm \notin Alarms!Range(image')
      /\ image' \in Seq(Alarms!Alarm \cup {NoAlarm}) /\ Len(image') <= MaxAlarms
      /\ shown' # {} /\ shown' \subseteq Alarms!Alarm
      /\ Alarms!Admitted(t) => captured'[t] = shown'
      /\ ~Alarms!Admitted(t) => captured' = captured
      /\ \A g \in Holder : g # t => captured'[g] = captured[g]
      /\ captured' \in [Holder -> SUBSET Alarms!Alarm]
  <2>1. call[t] = "publish image" /\ Alarms!Goto(t, "publish flag")
        /\ "publish flag" \in Alarms!Label
    BY DEF Alarms!PublishImage, Alarms!At, Alarms!Label, Alarms!Writing
  <2>2. /\ publishing[t].alarms # <<>> /\ publishing[t].code # NoAlarm
        /\ publishing[t].alarms \in Seq(Alarms!Alarm)
           /\ publishing[t].code \in Alarms!Alarm \cup {NoAlarm}
    BY <2>1, AlarmTypeFacts DEF AlarmIInv, Carried, PayloadIsCarried, Carrying
  <2>3. /\ image' # <<>> /\ NoAlarm \notin Alarms!Range(image')
        /\ image' \in Seq(Alarms!Alarm \cup {NoAlarm}) /\ Len(image') <= MaxAlarms
    <3>1. /\ image \in Seq(Alarms!Alarm \cup {NoAlarm}) /\ Len(image) <= MaxAlarms
          /\ NoAlarm \notin Alarms!Range(image)
      BY DEF Alarms!TypeOK, AlarmIInv, Carried, ImageHasCodes
    <3>2. image' = IF Len(image) < MaxAlarms THEN Append(image, publishing[t].code) ELSE image
      BY DEF Alarms!PublishImage
    <3>3. CASE Len(image) < MaxAlarms
      BY <2>2, <3>1, <3>2, <3>3, AppendedRange, BoundAssumption
    <3>4. CASE ~(Len(image) < MaxAlarms)
      <4>1. Len(image) # 0
        BY <3>1, <3>4, BoundAssumption
      <4> QED BY <3>1, <3>2, <3>4, <4>1
    <3> QED BY <3>3, <3>4
  <2>4. shown' # {} /\ shown' \subseteq Alarms!Alarm
    <3>1. Alarms!Range(publishing[t].alarms) # {}
          /\ Alarms!Range(publishing[t].alarms) \subseteq Alarms!Alarm
      BY <2>2, RangeOfSeq
    <3> QED BY <3>1 DEF Alarms!PublishImage, Alarms!TypeOK
  <2>5. /\ Alarms!Admitted(t) => captured'[t] = shown'
        /\ ~Alarms!Admitted(t) => captured' = captured
        /\ \A g \in Holder : g # t => captured'[g] = captured[g]
        /\ captured' \in [Holder -> SUBSET Alarms!Alarm]
    BY <2>4 DEF Alarms!PublishImage, Alarms!Admitted, Alarms!TypeOK
  <2> QED BY <2>1, <2>3, <2>4, <2>5, GotoFacts
<1>3. Alarms!TypeOK'
  BY <1>1, <1>2 DEF Alarms!TypeOK
<1>4. /\ \A h \in Holder : Reserves(h) => h = t
      /\ \A h \in Holder : admission[h].acquired => h = t
  BY <1>2, AloneFacts DEF Inside, Section, Clearing
<1>5. Places'
  BY <1>1, <1>2, AlarmTypeFacts DEF AlarmIInv, Places, HolderPlace, OtherPlace,
     AttemptsAreLeft,
     Clearing, Lasting, Alarms!Reserving
<1>6. OneWriter'
  BY <1>1, <1>2 DEF AlarmIInv, OneWriter, WriterIsTaken, WriterIsHeld, WriterIsOne,
     HasWriter, Alarms!Admitted, Clearing, Section
<1>7. ActiveIsCounted'
  <2>1. \A u \in Alarms!Thread : Counted(u)' <=> Counted(u)
    BY <1>1, <1>2 DEF Counted, Alarms!Admitted, Alarms!Declared, Alarms!Writing
  <2> QED BY <1>1, <1>2, <2>1, CountSame
<1>8. OneHolderReserves'
  <2>1. ReservedByOne'
    BY <1>1, <1>2, AlarmTypeFacts DEF AlarmIInv, OneHolderReserves, ReservedByOne, Reserves
  <2>2. BaseIsQuiet'
    BY <1>1, <1>2, AlarmTypeFacts DEF AlarmIInv, OneHolderReserves, BaseIsQuiet, Reserves
  <2>3. OthersAreOutside'
    BY <1>1, <1>2, AlarmTypeFacts, ZenonT(40) DEF AlarmIInv, OneHolderReserves, OthersAreOutside,
       Reserves,
       Clearing, Section, Inside
  <2>4. SequenceTells'
    BY <1>1, <1>2, AlarmTypeFacts DEF AlarmIInv, OneHolderReserves, SequenceTells, Reserves
  <2> QED BY <2>1, <2>2, <2>3, <2>4 DEF OneHolderReserves
<1>9. Captured'
  <2>1. AdmittedIsCurrent'
    <3> SUFFICES ASSUME NEW h \in Holder, admission'[h].acquired
                 PROVE  /\ updateCount' = admission'[h].expected
                        /\ shown' = captured'[h]
                        /\ admission'[h].requireNone => ~hasAlarm' /\ call'[h] = "admitted"
                        /\ call'[h] \in Carrying => publishing'[h].delta = 1
      BY DEF AdmittedIsCurrent
    <3>1. h = t /\ admission[h].acquired /\ Alarms!Admitted(t)
      BY <1>1, <1>2, <1>4 DEF Alarms!Admitted
    <3>2. /\ updateCount = admission[h].expected /\ shown = captured[h]
          /\ admission[h].requireNone => call[h] = "admitted"
          /\ call[h] \in Carrying => publishing[h].delta = 1
      BY <3>1 DEF AlarmIInv, Captured, AdmittedIsCurrent
    <3>3. ~admission[h].requireNone
      BY <1>2, <3>1, <3>2
    <3> QED BY <1>1, <1>2, <3>1, <3>2, <3>3 DEF Carrying
  <2>2. CaptureIsKnown'
    BY <1>1, <1>2, AlarmTypeFacts DEF AlarmIInv, Captured, CaptureIsKnown, Unfinished
  <2> QED BY <2>1, <2>2 DEF Captured
<1>10. Carried'
  <2>1. WaitingIsDeferred'
    BY <1>1, <1>2 DEF AlarmIInv, Carried, WaitingIsDeferred
  <2>2. PayloadIsCarried'
    BY <1>1, <1>2 DEF AlarmIInv, Carried, PayloadIsCarried, Carrying
  <2>3. CodesAreKnown'
    BY <1>1, <1>2 DEF AlarmIInv, Carried, CodesAreKnown
  <2>4. ImageIsShown'
    <3>1. ASSUME NEW u \in Alarms!Thread, call'[u] \in {"publish flag", "clear image"} PROVE u = t
      <4>1. CASE u # t
        <5>1. call[u] \in Section \cup Clearing /\ call[t] \in Section \cup Clearing
          BY <1>2, <3>1, <4>1 DEF Section, Clearing
        <5> QED BY <5>1 DEF AlarmIInv, OneWriter, WriterIsOne
      <4> QED BY <4>1
    <3> QED BY <1>1, <1>2, <3>1 DEF ImageIsShown
  <2>5. ImageHasCodes'
    BY <1>1, <1>2 DEF AlarmIInv, Carried, ImageHasCodes
  <2>6. Alarms!DeferredDescribesWaiting'
    BY <1>1, <1>2 DEF AlarmIInv, Carried, Alarms!DeferredDescribesWaiting
  <2> QED BY <2>1, <2>2, <2>3, <2>4, <2>5, <2>6 DEF Carried
<1> QED BY <1>3, <1>5, <1>6, <1>7, <1>8, <1>9, <1>10 DEF AlarmIInv

(* The flag follows the image. *)
LEMMA PublishFlagKeeps ==
  ASSUME AlarmIInv, NEW t \in Alarms!Thread, Alarms!PublishFlag(t)
  PROVE  AlarmIInv'
<1> Alarms!TypeOK
  BY DEF AlarmIInv
<1>1. UNCHANGED <<intent, alarmWriter, deferred, overflowPayload, waiting, image,
                  updateCount, shown, left, after, seen, publishing, admission,
                  captured>>
  BY DEF Alarms!PublishFlag, Alarms!deferredVars, Alarms!locals, Alarms!holderVars
<1>2. /\ call[t] = "publish flag" /\ call'[t] = "publish count"
      /\ \A u \in Alarms!Thread : u # t => call'[u] = call[u]
      /\ call' \in [Alarms!Thread -> Alarms!Label]
      /\ hasAlarm'
  BY GotoFacts DEF Alarms!PublishFlag, Alarms!At, Alarms!Label, Alarms!Writing
<1>3. Alarms!TypeOK'
  BY <1>1, <1>2 DEF Alarms!TypeOK
<1>4. /\ \A h \in Holder : Reserves(h) => h = t
      /\ \A h \in Holder : admission[h].acquired => h = t
  BY <1>2, AloneFacts DEF Inside, Section, Clearing
<1>5. Places'
  BY <1>1, <1>2, AlarmTypeFacts DEF AlarmIInv, Places, HolderPlace, OtherPlace,
     AttemptsAreLeft,
     Clearing, Lasting, Alarms!Reserving
<1>6. OneWriter'
  BY <1>1, <1>2 DEF AlarmIInv, OneWriter, WriterIsTaken, WriterIsHeld, WriterIsOne,
     HasWriter, Alarms!Admitted, Clearing, Section
<1>7. ActiveIsCounted'
  <2>1. \A u \in Alarms!Thread : Counted(u)' <=> Counted(u)
    BY <1>1, <1>2 DEF Counted, Alarms!Admitted, Alarms!Declared, Alarms!Writing
  <2> QED BY <1>1, <1>2, <2>1, CountSame
<1>8. OneHolderReserves'
  BY <1>1, <1>2, AlarmTypeFacts, ZenonT(40) DEF AlarmIInv, OneHolderReserves, ReservedByOne,
     BaseIsQuiet,
     OthersAreOutside, SequenceTells, Reserves, Clearing, Section, Inside
<1>9. Captured'
  <2>1. AdmittedIsCurrent'
    BY <1>1, <1>2, <1>4, HoldersAreThreads DEF AlarmIInv, Captured, AdmittedIsCurrent,
       Carrying
  <2>2. CaptureIsKnown'
    BY <1>1, <1>2, AlarmTypeFacts DEF AlarmIInv, Captured, CaptureIsKnown, Unfinished
  <2> QED BY <2>1, <2>2 DEF Captured
<1>10. Carried'
  BY <1>1, <1>2 DEF AlarmIInv, Carried, WaitingIsDeferred, PayloadIsCarried, CodesAreKnown,
     ImageIsShown, ImageHasCodes, Alarms!DeferredDescribesWaiting, Carrying
<1> QED BY <1>3, <1>5, <1>6, <1>7, <1>8, <1>9, <1>10 DEF AlarmIInv

(* The revision moves, and every capture but that of the writer's          *)
(* admission is stale.                                                     *)
LEMMA PublishCountKeeps ==
  ASSUME AlarmIInv, NEW t \in Alarms!Thread, Alarms!PublishCount(t)
  PROVE  AlarmIInv'
<1> Alarms!TypeOK
  BY DEF AlarmIInv
<1>1. UNCHANGED <<intent, alarmWriter, deferred, overflowPayload, waiting, image,
                  hasAlarm, shown, left, after, seen, captured>>
  BY DEF Alarms!PublishCount, Alarms!deferredVars
<1>2. /\ call[t] = "publish count" /\ call'[t] = "release writer"
      /\ \A u \in Alarms!Thread : u # t => call'[u] = call[u]
      /\ call' \in [Alarms!Thread -> Alarms!Label]
      /\ updateCount' \in Nat /\ updateCount' > updateCount
      /\ Alarms!Admitted(t) => updateCount' = updateCount + 1
         /\ admission'[t].expected = admission[t].expected + 1
      /\ ~Alarms!Admitted(t) => admission' = admission
      /\ \A g \in Holder : g # t => admission'[g] = admission[g]
      /\ \A g \in Holder : /\ admission'[g].acquired = admission[g].acquired
                            /\ admission'[g].base = admission[g].base
                            /\ admission'[g].requireNone = admission[g].requireNone
      /\ admission' \in [Holder -> Alarms!Reservation]
      /\ publishing'[t].alarms = <<>>
      /\ \A u \in Alarms!Thread : u # t => publishing'[u] = publishing[u]
      /\ publishing' \in [Alarms!Thread -> Alarms!Payload]
  <2>1. call[t] = "publish count" /\ Alarms!Goto(t, "release writer")
        /\ "release writer" \in Alarms!Label
    BY DEF Alarms!PublishCount, Alarms!At, Alarms!Label, Alarms!Elsewhere
  <2>2. /\ publishing[t].delta \in Nat /\ publishing[t].delta # 0
        /\ Alarms!Admitted(t) => publishing[t].delta = 1
    BY <2>1, AlarmTypeFacts DEF AlarmIInv, Carried, PayloadIsCarried, Carrying,
       Captured, AdmittedIsCurrent,
       Alarms!Admitted
  <2>3. updateCount' = updateCount + publishing[t].delta
    BY DEF Alarms!PublishCount
  <2>4. Alarms!NoPayload \in Alarms!Payload /\ Alarms!NoPayload.alarms = <<>>
    BY DEF Alarms!NoPayload, Alarms!Payload
  <2>5. publishing \in [Alarms!Thread -> Alarms!Payload]
        /\ publishing' = [publishing EXCEPT ![t] = Alarms!NoPayload]
    BY DEF Alarms!TypeOK, Alarms!PublishCount
  <2>6. ASSUME Alarms!Admitted(t)
        PROVE  /\ admission' \in [Holder -> Alarms!Reservation]
               /\ admission'[t].expected = admission[t].expected + 1
               /\ admission'[t].acquired = admission[t].acquired
               /\ admission'[t].base = admission[t].base
               /\ admission'[t].requireNone = admission[t].requireNone
               /\ \A g \in Holder : g # t => admission'[g] = admission[g]
    BY <2>6, ExpectOne DEF Alarms!PublishCount
  <2>7. ~Alarms!Admitted(t) => admission' = admission
    BY DEF Alarms!PublishCount
  <2>8. /\ admission' \in [Holder -> Alarms!Reservation]
        /\ \A g \in Holder : g # t => admission'[g] = admission[g]
        /\ \A g \in Holder : /\ admission'[g].acquired = admission[g].acquired
                              /\ admission'[g].base = admission[g].base
                              /\ admission'[g].requireNone = admission[g].requireNone
    BY <2>6, <2>7 DEF Alarms!TypeOK
  <2>9. /\ updateCount' \in Nat /\ updateCount' > updateCount
        /\ Alarms!Admitted(t) => updateCount' = updateCount + 1
    BY <2>2, <2>3, AlarmTypeFacts
  <2> QED BY <2>1, <2>4, <2>5, <2>6, <2>7, <2>8, <2>9, GotoFacts
<1>3. Alarms!TypeOK'
  BY <1>1, <1>2 DEF Alarms!TypeOK
<1>4. /\ \A h \in Holder : Reserves(h) => h = t
      /\ \A h \in Holder : admission[h].acquired => h = t
  BY <1>2, AloneFacts DEF Inside, Section, Clearing
<1>5. Places'
  BY <1>1, <1>2, AlarmTypeFacts, ZenonT(40) DEF AlarmIInv, Places, HolderPlace, OtherPlace,
     AttemptsAreLeft,
     Clearing, Lasting, Alarms!Reserving
<1>6. OneWriter'
  BY <1>1, <1>2 DEF AlarmIInv, OneWriter, WriterIsTaken, WriterIsHeld, WriterIsOne,
     HasWriter, Alarms!Admitted, Clearing, Section
<1>7. ActiveIsCounted'
  <2>1. \A u \in Alarms!Thread : Counted(u)' <=> Counted(u)
    BY <1>1, <1>2 DEF Counted, Alarms!Admitted, Alarms!Declared, Alarms!Writing
  <2> QED BY <1>1, <1>2, <2>1, CountSame
<1>8. OneHolderReserves'
  <2>1. ReservedByOne'
    BY <1>1, <1>2, <1>4, HoldersAreThreads, ZenonT(40) DEF AlarmIInv, OneHolderReserves, ReservedByOne,
       Reserves
  <2>2. BaseIsQuiet'
    BY <1>1, <1>2, AlarmTypeFacts DEF AlarmIInv, OneHolderReserves, BaseIsQuiet, Reserves
  <2>3. OthersAreOutside'
    <3> SUFFICES ASSUME NEW h \in Holder, Reserves(h)', NEW u \in Alarms!Thread \ {h}
                 PROVE  call'[u] \notin Inside
      BY DEF OthersAreOutside
    <3>1. Reserves(h)
      <4>1. CASE h = t
        BY <1>2, <4>1 DEF Reserves
      <4>2. CASE h # t
        BY <1>2, <4>2, HoldersAreThreads DEF Reserves
      <4> QED BY <4>1, <4>2
    <3>2. h = t /\ call[u] \notin Inside
      BY <1>4, <3>1 DEF AlarmIInv, OneHolderReserves, OthersAreOutside
    <3> QED BY <1>2, <3>2
  <2>4. SequenceTells'
    BY <1>1, <1>2, AlarmTypeFacts, ZenonT(40) DEF AlarmIInv, OneHolderReserves, SequenceTells, Reserves
  <2> QED BY <2>1, <2>2, <2>3, <2>4 DEF OneHolderReserves
<1>9. Captured'
  <2>1. AdmittedIsCurrent'
    <3> SUFFICES ASSUME NEW h \in Holder, admission'[h].acquired
                 PROVE  /\ updateCount' = admission'[h].expected
                        /\ shown' = captured'[h]
                        /\ admission'[h].requireNone => ~hasAlarm' /\ call'[h] = "admitted"
                        /\ call'[h] \in Carrying => publishing'[h].delta = 1
      BY DEF AdmittedIsCurrent
    <3>1. h = t /\ admission[h].acquired /\ Alarms!Admitted(t)
      BY <1>1, <1>2, <1>4 DEF Alarms!Admitted
    <3>2. /\ updateCount = admission[h].expected /\ shown = captured[h]
          /\ admission[h].requireNone => call[h] = "admitted"
          /\ call[h] \in Carrying => publishing[h].delta = 1
      BY <3>1 DEF AlarmIInv, Captured, AdmittedIsCurrent
    <3>3. ~admission[h].requireNone
      BY <1>2, <3>1, <3>2
    <3> QED BY <1>1, <1>2, <3>1, <3>2, <3>3 DEF Carrying
  <2>2. CaptureIsKnown'
    <3> SUFFICES ASSUME NEW h \in Holder, call'[h] \notin {"idle", "superseded"}
                 PROVE  /\ admission'[h].expected <= updateCount'
                        /\ admission'[h].expected = updateCount' => captured'[h] = shown'
      BY DEF CaptureIsKnown
    <3>1. /\ call[h] \notin {"idle", "superseded"} /\ admission[h].expected <= updateCount
          /\ admission[h].expected \in Nat /\ updateCount \in Nat /\ updateCount' \in Nat
      <4>1. call[h] \notin {"idle", "superseded"} /\ admission[h].expected <= updateCount
        BY <1>2, HoldersAreThreads DEF AlarmIInv, Captured, CaptureIsKnown
      <4> QED BY <1>2, <4>1, AlarmTypeFacts
    <3>2. CASE h = t /\ Alarms!Admitted(t)
      <4>1. updateCount' = admission'[h].expected /\ shown = captured[h]
        BY <1>2, <3>2 DEF AlarmIInv, Captured, AdmittedIsCurrent, Alarms!Admitted
      <4> QED BY <1>1, <3>1, <4>1
    <3>3. CASE ~(h = t /\ Alarms!Admitted(t))
      <4>1. admission'[h].expected = admission[h].expected /\ updateCount' > updateCount
        BY <1>2, <3>1, <3>3
      <4> QED BY <3>1, <4>1
    <3> QED BY <3>2, <3>3
  <2> QED BY <2>1, <2>2 DEF Captured
<1>10. Carried'
  BY <1>1, <1>2, ZenonT(40) DEF AlarmIInv, Carried, WaitingIsDeferred, PayloadIsCarried, CodesAreKnown,
     ImageIsShown, ImageHasCodes, Alarms!DeferredDescribesWaiting, Carrying
<1> QED BY <1>3, <1>5, <1>6, <1>7, <1>8, <1>9, <1>10 DEF AlarmIInv

(* Whoever has the flag alone may give it back. *)
LEMMA ReleaseWriterKeeps ==
  ASSUME AlarmIInv, NEW t \in Alarms!Thread, Alarms!ReleaseWriter(t)
  PROVE  AlarmIInv'
<1> Alarms!TypeOK
  BY DEF AlarmIInv
<1>1. UNCHANGED <<intent, deferred, overflowPayload, waiting, image, hasAlarm,
                  updateCount, shown, left, after, seen, publishing, admission,
                  captured>>
  BY DEF Alarms!ReleaseWriter, Alarms!imageVars, Alarms!deferredVars, Alarms!locals,
     Alarms!holderVars
<1>2. /\ call[t] = "release writer" /\ ~alarmWriter' /\ alarmWriter' \in BOOLEAN
      /\ call'[t] = IF Alarms!Admitted(t) THEN "admitted" ELSE "withdraw"
      /\ \A u \in Alarms!Thread : u # t => call'[u] = call[u]
      /\ call' \in [Alarms!Thread -> Alarms!Label]
  <2>1. PICK label \in Alarms!Label : Alarms!Goto(t, label)
        /\ label = IF Alarms!Admitted(t) THEN "admitted" ELSE "withdraw"
    BY DEF Alarms!ReleaseWriter, Alarms!Label, Alarms!Declared, Alarms!Reserving
  <2> QED BY <2>1, GotoFacts DEF Alarms!ReleaseWriter, Alarms!At
<1>3. Alarms!TypeOK'
  BY <1>1, <1>2, AlarmTypeFacts DEF Alarms!TypeOK
<1>4. /\ \A h \in Holder : Reserves(h) => h = t
      /\ \A h \in Holder : admission[h].acquired => h = t
  BY <1>2, AloneFacts DEF Inside, Section, Clearing
<1>5. Places'
  <2>1. HolderPlace'
    <3>1. CASE Alarms!Admitted(t)
      <4>1. call'[t] = "admitted" /\ admission[t].acquired
        BY <1>2, <3>1 DEF Alarms!Admitted
      <4> QED BY <1>1, <1>2, <4>1, HoldersAreThreads DEF AlarmIInv, Places,
         HolderPlace, Lasting, Clearing
    <3>2. CASE ~Alarms!Admitted(t)
      <4>1. call'[t] = "withdraw" /\ (t \in Holder => ~admission[t].acquired)
        BY <1>2, <3>2 DEF Alarms!Admitted
      <4> QED BY <1>1, <1>2, <4>1, HoldersAreThreads DEF AlarmIInv, Places,
         HolderPlace, Lasting, Clearing
    <3> QED BY <3>1, <3>2
  <2>2. OtherPlace'
    <3>1. t \notin Holder => call'[t] = "withdraw"
      BY <1>2 DEF Alarms!Admitted
    <3> QED BY <1>1, <1>2, <3>1 DEF AlarmIInv, Places, OtherPlace, Alarms!Reserving
  <2>3. AttemptsAreLeft'
    BY <1>1, <1>2 DEF AlarmIInv, Places, AttemptsAreLeft
  <2> QED BY <2>1, <2>2, <2>3 DEF Places
<1>6. OneWriter'
  BY <1>1, <1>2 DEF AlarmIInv, OneWriter, WriterIsTaken, WriterIsHeld, WriterIsOne,
     HasWriter, Alarms!Admitted, Clearing, Section
<1>7. ActiveIsCounted'
  <2>1. \A u \in Alarms!Thread : Counted(u)' <=> Counted(u)
    BY <1>1, <1>2 DEF Counted, Alarms!Admitted, Alarms!Declared, Alarms!Writing
  <2> QED BY <1>1, <1>2, <2>1, CountSame
<1>8. OneHolderReserves'
  BY <1>1, <1>2, AlarmTypeFacts, ZenonT(40) DEF AlarmIInv, OneHolderReserves, ReservedByOne,
     BaseIsQuiet,
     OthersAreOutside, SequenceTells, Reserves, Clearing, Section, Inside
<1>9. Captured'
  <2>1. AdmittedIsCurrent'
    BY <1>1, <1>2, AlarmTypeFacts DEF AlarmIInv, Captured, AdmittedIsCurrent, Carrying
  <2>2. CaptureIsKnown'
    BY <1>1, <1>2, AlarmTypeFacts DEF AlarmIInv, Captured, CaptureIsKnown, Unfinished
  <2> QED BY <2>1, <2>2 DEF Captured
<1>10. Carried'
  BY <1>1, <1>2 DEF AlarmIInv, Carried, WaitingIsDeferred, PayloadIsCarried, CodesAreKnown,
     ImageIsShown, ImageHasCodes, Alarms!DeferredDescribesWaiting, Carrying
<1> QED BY <1>3, <1>5, <1>6, <1>7, <1>8, <1>9, <1>10 DEF AlarmIInv

(* An attempt to promote changes the place of the call alone. *)
LEMMA PromoteKeeps ==
  ASSUME AlarmIInv, NEW t \in Alarms!Thread, Alarms!Promote(t)
  PROVE  AlarmIInv'
<1> Alarms!TypeOK
  BY DEF AlarmIInv
<1>1. UNCHANGED <<intent, alarmWriter, deferred, overflowPayload, waiting, image,
                  hasAlarm, updateCount, shown, seen, publishing, admission,
                  captured>>
  BY DEF Alarms!Promote, Alarms!AttemptOrGoOn, Alarms!imageVars, Alarms!deferredVars,
     Alarms!holderVars
<1>2. /\ call[t] = "promote" /\ call'[t] \in {"promote", "promote declare", after[t]}
      /\ \A u \in Alarms!Thread : u # t => call'[u] = call[u]
      /\ call' \in [Alarms!Thread -> Alarms!Label]
      /\ after'[t] \in {after[t], "idle"} /\ after[t] \in Alarms!Return
      /\ \A u \in Alarms!Thread : u # t => after'[u] = after[u]
      /\ after' \in [Alarms!Thread -> Alarms!Return]
      /\ call'[t] = "promote" => left'[t] # 0
      /\ \A u \in Alarms!Thread : u # t => left'[u] = left[u]
      /\ left' \in [Alarms!Thread -> 0 .. 2]
  <2>1. call[t] = "promote" /\ left' = [left EXCEPT ![t] = @ - 1]
    BY DEF Alarms!Promote, Alarms!At
  <2>2. left[t] # 0 /\ left[t] \in 0 .. 2 /\ left \in [Alarms!Thread -> 0 .. 2]
    BY <2>1, AlarmTypeFacts DEF AlarmIInv, Places, AttemptsAreLeft, Alarms!TypeOK
  <2>3. /\ left'[t] = left[t] - 1 /\ left' \in [Alarms!Thread -> 0 .. 2]
        /\ \A u \in Alarms!Thread : u # t => left'[u] = left[u]
    <3>1. left[t] - 1 \in 0 .. 2
      BY <2>2
    <3> QED BY <2>1, <2>2, <3>1
  <2>4. CASE Alarms!HasDeferredAlarmPublication
    <3>1. Alarms!Goto(t, "promote declare") /\ after' = after
          /\ "promote declare" \in Alarms!Label
      BY <2>4 DEF Alarms!Promote, Alarms!Label, Alarms!Elsewhere
    <3> QED BY <2>1, <2>3, <3>1, GotoFacts, AlarmTypeFacts DEF Alarms!TypeOK
  <2>5. CASE ~Alarms!HasDeferredAlarmPublication
    <3>1. Alarms!AttemptOrGoOn(t, left[t] - 1)
      BY <2>5 DEF Alarms!Promote
    <3>2. call'[t] = "promote" => left[t] - 1 > 0
      BY <3>1, AttemptFacts
    <3>3. left[t] - 1 > 0 => left'[t] # 0
      BY <2>2, <2>3
    <3> QED BY <2>1, <2>3, <3>1, <3>2, <3>3, AttemptFacts, AlarmTypeFacts
  <2> QED BY <2>4, <2>5
<1>3. Alarms!TypeOK'
  BY <1>1, <1>2 DEF Alarms!TypeOK
<1>4. Places'
  <2>1. HolderPlace'
    BY <1>1, <1>2, AlarmTypeFacts DEF AlarmIInv, Places, HolderPlace, Clearing,
       Lasting, Alarms!Return
  <2>2. OtherPlace'
    BY <1>1, <1>2, AlarmTypeFacts DEF AlarmIInv, Places, OtherPlace, Alarms!Reserving,
       Alarms!Return
  <2>3. AttemptsAreLeft'
    BY <1>1, <1>2, AlarmTypeFacts DEF AlarmIInv, Places, AttemptsAreLeft, Alarms!Return
  <2> QED BY <2>1, <2>2, <2>3 DEF Places
<1>5. OneWriter'
  BY <1>1, <1>2, ZenonT(40) DEF AlarmIInv, OneWriter, WriterIsTaken, WriterIsHeld, WriterIsOne,
     HasWriter, Alarms!Admitted, Clearing, Section, Alarms!Return
<1>6. ActiveIsCounted'
  <2>1. \A u \in Alarms!Thread : Counted(u)' <=> Counted(u)
    BY <1>1, <1>2 DEF Counted, Alarms!Admitted, Alarms!Declared, Alarms!Writing,
       Alarms!Return
  <2> QED BY <1>1, <1>2, <2>1, CountSame
<1>7. OneHolderReserves'
  <2>1. ReservedByOne'
    BY <1>1, <1>2, AlarmTypeFacts, ZenonT(40) DEF AlarmIInv, OneHolderReserves, ReservedByOne, Reserves,
       Alarms!Return
  <2>2. BaseIsQuiet'
    BY <1>1, <1>2, AlarmTypeFacts DEF AlarmIInv, OneHolderReserves, BaseIsQuiet,
       Reserves, Alarms!Return
  <2>3. OthersAreOutside'
    BY <1>1, <1>2, HoldersAreThreads DEF AlarmIInv, OneHolderReserves, OthersAreOutside,
       Reserves, Clearing, Section, Inside, Alarms!Return
  <2>4. SequenceTells'
    BY <1>1, <1>2, AlarmTypeFacts DEF AlarmIInv, OneHolderReserves, SequenceTells, Reserves,
       Alarms!Return
  <2> QED BY <2>1, <2>2, <2>3, <2>4 DEF OneHolderReserves
<1>8. Captured'
  <2>1. AdmittedIsCurrent'
    BY <1>1, <1>2, HoldersAreThreads, ZenonT(40) DEF AlarmIInv, Captured, AdmittedIsCurrent, Carrying,
       Alarms!Return
  <2>2. CaptureIsKnown'
    BY <1>1, <1>2, AlarmTypeFacts DEF AlarmIInv, Captured, CaptureIsKnown, Unfinished,
       Alarms!Return
  <2> QED BY <2>1, <2>2 DEF Captured
<1>9. Carried'
  BY <1>1, <1>2, AlarmTypeFacts, ZenonT(40) DEF AlarmIInv, Carried, WaitingIsDeferred, PayloadIsCarried,
     CodesAreKnown, ImageIsShown, ImageHasCodes, Alarms!DeferredDescribesWaiting, Carrying,
     Alarms!Return
<1> QED BY <1>3, <1>4, <1>5, <1>6, <1>7, <1>8, <1>9 DEF AlarmIInv

(* A call that finds the admission reserved does not try for the writer    *)
(* flag.                                                                   *)
LEMMA PromoteDeclareKeeps ==
  ASSUME AlarmIInv, NEW t \in Alarms!Thread, Alarms!PromoteDeclare(t)
  PROVE  AlarmIInv'
<1> Alarms!TypeOK
  BY DEF AlarmIInv
<1>1. UNCHANGED <<alarmWriter, deferred, overflowPayload, waiting, image, hasAlarm,
                  updateCount, shown, left, after, seen, publishing, admission,
                  captured>>
  BY DEF Alarms!PromoteDeclare, Alarms!Declare, Alarms!imageVars, Alarms!deferredVars,
     Alarms!locals, Alarms!holderVars
<1>2. /\ call[t] = "promote declare"
         /\ call'[t] = IF intent.reserved THEN "withdraw" ELSE "promote writer"
      /\ \A u \in Alarms!Thread : u # t => call'[u] = call[u]
      /\ call' \in [Alarms!Thread -> Alarms!Label]
      /\ intent' \in Alarms!Intent /\ intent'.seq = intent.seq + 1
         /\ intent'.active = intent.active + 1
      /\ intent'.reserved = intent.reserved
  BY DeclareFacts DEF Alarms!PromoteDeclare, Alarms!At, Alarms!Label, Alarms!Declared
<1>3. Alarms!TypeOK'
  BY <1>1, <1>2 DEF Alarms!TypeOK
<1>4. ~intent.reserved => \A h \in Holder : ~Reserves(h)
  BY DEF AlarmIInv, OneHolderReserves, ReservedByOne
<1>5. Places'
  BY <1>1, <1>2, AlarmTypeFacts DEF AlarmIInv, Places, HolderPlace, OtherPlace,
     AttemptsAreLeft,
     Clearing, Lasting, Alarms!Reserving
<1>6. OneWriter'
  BY <1>1, <1>2 DEF AlarmIInv, OneWriter, WriterIsTaken, WriterIsHeld, WriterIsOne,
     HasWriter, Alarms!Admitted, Clearing, Section
<1>7. ActiveIsCounted'
  <2>1. /\ ~Counted(t) /\ Counted(t)'
        /\ \A u \in Alarms!Thread : u # t => (Counted(u)' <=> Counted(u))
    BY <1>1, <1>2 DEF AlarmIInv, Places, HolderPlace, Lasting, Clearing, Counted,
       Alarms!Admitted, Alarms!Declared, Alarms!Writing
  <2> QED BY <1>2, <2>1, CountMore
<1>8. OneHolderReserves'
  <2>1. ReservedByOne'
    BY <1>1, <1>2, AlarmTypeFacts DEF AlarmIInv, OneHolderReserves, ReservedByOne, Reserves
  <2>2. BaseIsQuiet'
    BY <1>1, <1>2, AlarmTypeFacts DEF AlarmIInv, OneHolderReserves, BaseIsQuiet, Reserves
  <2>3. OthersAreOutside'
    BY <1>1, <1>2, <1>4, HoldersAreThreads DEF AlarmIInv, OneHolderReserves,
       OthersAreOutside, Reserves, Clearing, Section, Inside
  <2>4. SequenceTells'
    <3> SUFFICES ASSUME NEW h \in Holder, Reserves(h)'
                 PROVE  admission'[h].base.seq <= intent'.seq
                       /\ intent'.seq # admission'[h].base.seq
      BY DEF SequenceTells
    <3>1. Reserves(h)
      BY <1>1, <1>2, HoldersAreThreads DEF Reserves
    <3>2. admission[h].base.seq <= intent.seq /\ admission' = admission
          /\ intent'.seq = intent.seq + 1
      BY <1>1, <1>2, <3>1 DEF AlarmIInv, OneHolderReserves, SequenceTells
    <3> QED BY <3>2, AlarmTypeFacts
  <2> QED BY <2>1, <2>2, <2>3, <2>4 DEF OneHolderReserves
<1>9. Captured'
  BY <1>1, <1>2, AlarmTypeFacts, ZenonT(40) DEF AlarmIInv, Captured, AdmittedIsCurrent, CaptureIsKnown,
     Carrying, Unfinished
<1>10. Carried'
  BY <1>1, <1>2 DEF AlarmIInv, Carried, WaitingIsDeferred, PayloadIsCarried, CodesAreKnown,
     ImageIsShown, ImageHasCodes, Alarms!DeferredDescribesWaiting, Carrying
<1> QED BY <1>3, <1>5, <1>6, <1>7, <1>8, <1>9, <1>10 DEF AlarmIInv

(* Nobody holds the admission while a call is about to take the writer flag. *)
LEMMA PromoteWriterKeeps ==
  ASSUME AlarmIInv, NEW t \in Alarms!Thread, Alarms!PromoteWriter(t)
  PROVE  AlarmIInv'
<1> Alarms!TypeOK
  BY DEF AlarmIInv
<1>1. UNCHANGED <<intent, deferred, overflowPayload, waiting, image, hasAlarm,
                  updateCount, shown, left, after, seen, publishing, admission,
                  captured>>
  BY DEF Alarms!PromoteWriter, Alarms!TakeWriter, Alarms!imageVars,
     Alarms!deferredVars, Alarms!locals, Alarms!holderVars
<1>2. /\ call[t] = "promote writer" /\ alarmWriter'
         /\ call'[t] = IF alarmWriter THEN "withdraw" ELSE "promote take"
      /\ \A u \in Alarms!Thread : u # t => call'[u] = call[u]
      /\ call' \in [Alarms!Thread -> Alarms!Label]
  BY TakeWriterFacts DEF Alarms!PromoteWriter, Alarms!Label, Alarms!Declared
<1>3. Alarms!TypeOK'
  BY <1>1, <1>2 DEF Alarms!TypeOK
<1>4. /\ \A h \in Holder : ~Reserves(h)
      /\ ~alarmWriter => \A u \in Alarms!Thread : call[u] \notin Section \cup Clearing
  <2>1. \A h \in Holder : Reserves(h) => h = t
    BY <1>2, AloneFacts DEF Inside
  <2>2. ~alarmWriter => \A u \in Alarms!Thread : call[u] \notin Section \cup Clearing
    BY <1>2, FreeWriterFacts
  <2>3. \A h \in Holder : ~Reserves(h)
    BY <1>2, <2>1 DEF AlarmIInv, Places, HolderPlace, Reserves, Lasting, Clearing
  <2> QED BY <2>2, <2>3
<1>5. Places'
  BY <1>1, <1>2, AlarmTypeFacts DEF AlarmIInv, Places, HolderPlace, OtherPlace,
     AttemptsAreLeft,
     Clearing, Lasting, Alarms!Reserving
<1>6. OneWriter'
  <2>1. WriterIsTaken'
    BY <1>1, <1>2 DEF AlarmIInv, OneWriter, WriterIsTaken, HasWriter, Alarms!Admitted,
       Clearing,
       Section
  <2>2. WriterIsHeld'
    BY <1>1, <1>2 DEF AlarmIInv, OneWriter, WriterIsHeld, HasWriter, Alarms!Admitted,
       Clearing,
       Section
  <2>3. WriterIsOne'
    BY <1>1, <1>2, <1>4, HoldersAreThreads DEF AlarmIInv, OneWriter, WriterIsOne, Clearing,
       Section
  <2> QED BY <2>1, <2>2, <2>3 DEF OneWriter
<1>7. ActiveIsCounted'
  <2>1. \A u \in Alarms!Thread : Counted(u)' <=> Counted(u)
    BY <1>1, <1>2 DEF Counted, Alarms!Admitted, Alarms!Declared, Alarms!Writing
  <2> QED BY <1>1, <1>2, <2>1, CountSame
<1>8. OneHolderReserves'
  <2>1. ReservedByOne'
    BY <1>1, <1>2, AlarmTypeFacts DEF AlarmIInv, OneHolderReserves, ReservedByOne, Reserves
  <2>2. BaseIsQuiet'
    BY <1>1, <1>2, AlarmTypeFacts DEF AlarmIInv, OneHolderReserves, BaseIsQuiet, Reserves
  <2>3. OthersAreOutside'
    BY <1>1, <1>2, AlarmTypeFacts, ZenonT(40) DEF AlarmIInv, OneHolderReserves, OthersAreOutside,
       Reserves,
       Clearing, Section, Inside
  <2>4. SequenceTells'
    BY <1>1, <1>2, AlarmTypeFacts DEF AlarmIInv, OneHolderReserves, SequenceTells, Reserves
  <2> QED BY <2>1, <2>2, <2>3, <2>4 DEF OneHolderReserves
<1>9. Captured'
  <2>1. AdmittedIsCurrent'
    BY <1>1, <1>2, AlarmTypeFacts DEF AlarmIInv, Captured, AdmittedIsCurrent, Carrying
  <2>2. CaptureIsKnown'
    BY <1>1, <1>2, AlarmTypeFacts DEF AlarmIInv, Captured, CaptureIsKnown, Unfinished
  <2> QED BY <2>1, <2>2 DEF Captured
<1>10. Carried'
  BY <1>1, <1>2 DEF AlarmIInv, Carried, WaitingIsDeferred, PayloadIsCarried, CodesAreKnown,
     ImageIsShown, ImageHasCodes, Alarms!DeferredDescribesWaiting, Carrying
<1> QED BY <1>3, <1>5, <1>6, <1>7, <1>8, <1>9, <1>10 DEF AlarmIInv

(* Nobody holds the admission while a call is about to take the writer flag. *)
LEMMA ClearWriterKeeps ==
  ASSUME AlarmIInv, NEW t \in Alarms!Thread, Alarms!ClearWriter(t)
  PROVE  AlarmIInv'
<1> Alarms!TypeOK
  BY DEF AlarmIInv
<1>1. UNCHANGED <<intent, deferred, overflowPayload, waiting, image, hasAlarm,
                  updateCount, shown, left, after, seen, publishing, admission,
                  captured>>
  BY DEF Alarms!ClearWriter, Alarms!TakeWriter, Alarms!imageVars, Alarms!deferredVars,
     Alarms!locals, Alarms!holderVars
<1>2. /\ call[t] = "clear writer" /\ alarmWriter'
         /\ call'[t] = IF alarmWriter THEN "withdraw" ELSE "clear recheck"
      /\ \A u \in Alarms!Thread : u # t => call'[u] = call[u]
      /\ call' \in [Alarms!Thread -> Alarms!Label]
  BY TakeWriterFacts DEF Alarms!ClearWriter, Alarms!Label, Alarms!Declared
<1>3. Alarms!TypeOK'
  BY <1>1, <1>2 DEF Alarms!TypeOK
<1>4. /\ \A h \in Holder : ~Reserves(h)
      /\ ~alarmWriter => \A u \in Alarms!Thread : call[u] \notin Section \cup Clearing
  <2>1. \A h \in Holder : Reserves(h) => h = t
    BY <1>2, AloneFacts DEF Inside
  <2>2. ~alarmWriter => \A u \in Alarms!Thread : call[u] \notin Section \cup Clearing
    BY <1>2, FreeWriterFacts
  <2>3. \A h \in Holder : ~Reserves(h)
    BY <1>2, <2>1 DEF AlarmIInv, Places, HolderPlace, Reserves, Lasting, Clearing
  <2> QED BY <2>2, <2>3
<1>5. Places'
  BY <1>1, <1>2, AlarmTypeFacts DEF AlarmIInv, Places, HolderPlace, OtherPlace,
     AttemptsAreLeft,
     Clearing, Lasting, Alarms!Reserving
<1>6. OneWriter'
  <2>1. WriterIsTaken'
    BY <1>1, <1>2 DEF AlarmIInv, OneWriter, WriterIsTaken, HasWriter, Alarms!Admitted,
       Clearing,
       Section
  <2>2. WriterIsHeld'
    BY <1>1, <1>2 DEF AlarmIInv, OneWriter, WriterIsHeld, HasWriter, Alarms!Admitted,
       Clearing,
       Section
  <2>3. WriterIsOne'
    BY <1>1, <1>2, <1>4, HoldersAreThreads DEF AlarmIInv, OneWriter, WriterIsOne, Clearing,
       Section
  <2> QED BY <2>1, <2>2, <2>3 DEF OneWriter
<1>7. ActiveIsCounted'
  <2>1. \A u \in Alarms!Thread : Counted(u)' <=> Counted(u)
    BY <1>1, <1>2 DEF Counted, Alarms!Admitted, Alarms!Declared, Alarms!Writing
  <2> QED BY <1>1, <1>2, <2>1, CountSame
<1>8. OneHolderReserves'
  <2>1. ReservedByOne'
    BY <1>1, <1>2, AlarmTypeFacts DEF AlarmIInv, OneHolderReserves, ReservedByOne, Reserves
  <2>2. BaseIsQuiet'
    BY <1>1, <1>2, AlarmTypeFacts DEF AlarmIInv, OneHolderReserves, BaseIsQuiet, Reserves
  <2>3. OthersAreOutside'
    BY <1>1, <1>2, AlarmTypeFacts, ZenonT(40) DEF AlarmIInv, OneHolderReserves, OthersAreOutside,
       Reserves,
       Clearing, Section, Inside
  <2>4. SequenceTells'
    BY <1>1, <1>2, AlarmTypeFacts DEF AlarmIInv, OneHolderReserves, SequenceTells, Reserves
  <2> QED BY <2>1, <2>2, <2>3, <2>4 DEF OneHolderReserves
<1>9. Captured'
  <2>1. AdmittedIsCurrent'
    BY <1>1, <1>2, AlarmTypeFacts DEF AlarmIInv, Captured, AdmittedIsCurrent, Carrying
  <2>2. CaptureIsKnown'
    BY <1>1, <1>2, AlarmTypeFacts DEF AlarmIInv, Captured, CaptureIsKnown, Unfinished
  <2> QED BY <2>1, <2>2 DEF Captured
<1>10. Carried'
  BY <1>1, <1>2 DEF AlarmIInv, Carried, WaitingIsDeferred, PayloadIsCarried, CodesAreKnown,
     ImageIsShown, ImageHasCodes, Alarms!DeferredDescribesWaiting, Carrying
<1> QED BY <1>3, <1>5, <1>6, <1>7, <1>8, <1>9, <1>10 DEF AlarmIInv

(* What is taken up carries the alarms that waited, and a code. *)
LEMMA PromoteTakeKeeps ==
  ASSUME AlarmIInv, NEW t \in Alarms!Thread, Alarms!PromoteTake(t)
  PROVE  AlarmIInv'
<1> Alarms!TypeOK
  BY DEF AlarmIInv
<1>1. UNCHANGED <<intent, alarmWriter, overflowPayload, image, hasAlarm, updateCount,
                  shown, left, after, seen, admission, captured>>
  BY DEF Alarms!PromoteTake, Alarms!imageVars, Alarms!holderVars
<1>2. /\ call[t] = "promote take" /\ deferred' = Alarms!Nothing /\ waiting' = <<>>
      /\ \/ /\ deferred = Alarms!Nothing /\ call'[t] = "release writer"
               /\ publishing'[t].alarms = <<>>
         \/ /\ deferred # Alarms!Nothing /\ publishing'[t].alarms # <<>>
               /\ publishing'[t].delta # 0
            /\ \/ call'[t] = "promote payload" /\ overflowPayload # NoAlarm
               \/ call'[t] = "publish image" /\ publishing'[t].code # NoAlarm
      /\ \A u \in Alarms!Thread : u # t => call'[u] = call[u]
      /\ call' \in [Alarms!Thread -> Alarms!Label]
      /\ \A u \in Alarms!Thread : u # t => publishing'[u] = publishing[u]
      /\ publishing' \in [Alarms!Thread -> Alarms!Payload]
  <2> DEFINE delta == IF deferred.count > 0 /\ deferred.overflow THEN deferred.count + 1
                      ELSE IF deferred.count = 0 THEN 1 ELSE deferred.count
  <2> DEFINE payload == IF deferred = Alarms!Nothing THEN Alarms!NoPayload
                        ELSE [code |-> deferred.code, delta |-> delta, alarms |-> waiting]
  <2>1. /\ call[t] = "promote take" /\ deferred' = Alarms!Nothing /\ waiting' = <<>>
        /\ publishing' = [publishing EXCEPT ![t] = payload]
    BY DEF Alarms!PromoteTake, Alarms!At
  <2>2. /\ delta \in Nat /\ delta # 0
    BY AlarmTypeFacts
  <2>3. /\ deferred.code \in Alarms!Alarm \cup {NoAlarm} /\ waiting \in Seq(Alarms!Alarm)
        /\ publishing \in [Alarms!Thread -> Alarms!Payload] /\ deferred \in Alarms!Publication
    BY DEF Alarms!TypeOK, Alarms!Publication
  <2>4. Alarms!NoPayload \in Alarms!Payload /\ Alarms!NoPayload.alarms = <<>>
    BY DEF Alarms!NoPayload, Alarms!Payload
  <2> HIDE DEF delta
  <2>5. [code |-> deferred.code, delta |-> delta, alarms |-> waiting] \in Alarms!Payload
    BY <2>2, <2>3 DEF Alarms!Payload
  <2>6. payload \in Alarms!Payload
    BY <2>4, <2>5
  <2>7. /\ deferred = Alarms!Nothing => payload.alarms = <<>>
        /\ deferred # Alarms!Nothing => /\ payload.alarms = waiting /\ payload.delta = delta
                                        /\ payload.code = deferred.code
    BY <2>4
  <2> HIDE DEF payload
  <2>8. /\ publishing'[t] = payload /\ publishing' \in [Alarms!Thread -> Alarms!Payload]
        /\ \A u \in Alarms!Thread : u # t => publishing'[u] = publishing[u]
    BY <2>1, <2>3, <2>6
  <2>9. deferred # Alarms!Nothing => /\ waiting # <<>>
                                     /\ deferred.count # 0 => deferred.code # NoAlarm
                                     /\ deferred.count = 0 => overflowPayload # NoAlarm
    <3>1. deferred # Alarms!Nothing /\ deferred.count = 0 => deferred.overflow
      BY DescribedCode
    <3> QED BY <3>1 DEF AlarmIInv, Carried, WaitingIsDeferred, CodesAreKnown
  <2>10. PICK label \in Alarms!Label : /\ Alarms!Goto(t, label)
                                       /\ label = IF deferred = Alarms!Nothing
                                          THEN "release writer"
                                                 ELSE IF deferred.count = 0
                                                       THEN "promote payload"
                                                 ELSE "publish image"
    BY DEF Alarms!PromoteTake, Alarms!Label, Alarms!Declared, Alarms!Elsewhere,
       Alarms!Writing
  <2>11. call'[t] = label /\ call' \in [Alarms!Thread -> Alarms!Label]
        /\ \A u \in Alarms!Thread : u # t => call'[u] = call[u]
    BY <2>10, GotoFacts
  <2>12. CASE deferred = Alarms!Nothing
    BY <2>1, <2>7, <2>8, <2>10, <2>11, <2>12
  <2>13. CASE deferred # Alarms!Nothing
    BY <2>1, <2>2, <2>7, <2>8, <2>9, <2>10, <2>11, <2>13
  <2> QED BY <2>12, <2>13
<1>3. Alarms!TypeOK'
  <2>1. Alarms!Nothing \in Alarms!Publication /\ <<>> \in Seq(Alarms!Alarm)
    BY BoundAssumption DEF Alarms!Nothing, Alarms!Publication
  <2> QED BY <1>1, <1>2, <2>1 DEF Alarms!TypeOK
<1>4. /\ \A h \in Holder : Reserves(h) => h = t
      /\ \A h \in Holder : admission[h].acquired => h = t
  BY <1>2, AloneFacts DEF Inside, Section, Clearing
<1>5. Places'
  BY <1>1, <1>2, AlarmTypeFacts DEF AlarmIInv, Places, HolderPlace, OtherPlace,
     AttemptsAreLeft,
     Clearing, Lasting, Alarms!Reserving, Alarms!Nothing
<1>6. OneWriter'
  BY <1>1, <1>2 DEF AlarmIInv, OneWriter, WriterIsTaken, WriterIsHeld, WriterIsOne,
     HasWriter, Alarms!Admitted, Clearing, Section, Alarms!Nothing
<1>7. ActiveIsCounted'
  <2>1. \A u \in Alarms!Thread : Counted(u)' <=> Counted(u)
    BY <1>1, <1>2 DEF Counted, Alarms!Admitted, Alarms!Declared, Alarms!Writing
  <2> QED BY <1>1, <1>2, <2>1, CountSame
<1>8. OneHolderReserves'
  <2>1. ReservedByOne'
    BY <1>1, <1>2, AlarmTypeFacts DEF AlarmIInv, OneHolderReserves, ReservedByOne, Reserves,
       Alarms!Nothing
  <2>2. BaseIsQuiet'
    BY <1>1, <1>2, AlarmTypeFacts DEF AlarmIInv, OneHolderReserves, BaseIsQuiet,
       Reserves, Alarms!Nothing
  <2>3. OthersAreOutside'
    BY <1>1, <1>2, <1>4, HoldersAreThreads DEF AlarmIInv, OneHolderReserves,
       OthersAreOutside, Reserves, Clearing, Section, Inside, Alarms!Nothing
  <2>4. SequenceTells'
    BY <1>1, <1>2, AlarmTypeFacts DEF AlarmIInv, OneHolderReserves, SequenceTells, Reserves,
       Alarms!Nothing
  <2> QED BY <2>1, <2>2, <2>3, <2>4 DEF OneHolderReserves
<1>9. Captured'
  <2>1. AdmittedIsCurrent'
    <3> SUFFICES ASSUME NEW h \in Holder, admission'[h].acquired
                 PROVE  FALSE
      BY DEF AdmittedIsCurrent
    <3>1. h = t /\ admission[h].acquired
      BY <1>1, <1>4
    <3> QED BY <1>2, <3>1 DEF AlarmIInv, Places, HolderPlace, Lasting, Clearing
  <2>2. CaptureIsKnown'
    BY <1>1, <1>2, AlarmTypeFacts DEF AlarmIInv, Captured, CaptureIsKnown, Unfinished,
       Alarms!Nothing
  <2> QED BY <2>1, <2>2 DEF Captured
<1>10. Carried'
  <2>1. WaitingIsDeferred'
    BY <1>1, <1>2 DEF AlarmIInv, Carried, WaitingIsDeferred, Alarms!Nothing
  <2>2. PayloadIsCarried'
    BY <1>1, <1>2 DEF AlarmIInv, Carried, PayloadIsCarried, Carrying, Alarms!Nothing
  <2>3. CodesAreKnown'
    BY <1>1, <1>2, <1>4, HoldersAreThreads DEF AlarmIInv, Carried, CodesAreKnown,
       Alarms!Nothing
  <2>4. ImageIsShown'
    BY <1>1, <1>2 DEF AlarmIInv, Carried, ImageIsShown, Alarms!Nothing
  <2>5. ImageHasCodes'
    BY <1>1, <1>2 DEF AlarmIInv, Carried, ImageHasCodes, Alarms!Nothing
  <2>6. Alarms!DeferredDescribesWaiting'
    <3>1. Alarms!Nothing.count = 0 /\ ~Alarms!Nothing.overflow /\ Len(<<>>) = 0
      BY DEF Alarms!Nothing
    <3> QED BY <1>2, <3>1 DEF Alarms!DeferredDescribesWaiting
  <2> QED BY <2>1, <2>2, <2>3, <2>4, <2>5, <2>6 DEF Carried
<1> QED BY <1>3, <1>5, <1>6, <1>7, <1>8, <1>9, <1>10 DEF AlarmIInv

(* The code of an overflow is in the payload word. *)
LEMMA PromotePayloadKeeps ==
  ASSUME AlarmIInv, NEW t \in Alarms!Thread, Alarms!PromotePayload(t)
  PROVE  AlarmIInv'
<1> Alarms!TypeOK
  BY DEF AlarmIInv
<1>1. UNCHANGED <<intent, alarmWriter, deferred, overflowPayload, waiting, image,
                  hasAlarm, updateCount, shown, left, after, seen, admission,
                  captured>>
  BY DEF Alarms!PromotePayload, Alarms!imageVars, Alarms!deferredVars, Alarms!holderVars
<1>2. /\ call[t] = "promote payload" /\ call'[t] = "publish image"
      /\ \A u \in Alarms!Thread : u # t => call'[u] = call[u]
      /\ call' \in [Alarms!Thread -> Alarms!Label]
      /\ publishing'[t].code # NoAlarm /\ publishing'[t].delta = publishing[t].delta
      /\ publishing'[t].alarms = publishing[t].alarms
      /\ \A u \in Alarms!Thread : u # t => publishing'[u] = publishing[u]
      /\ publishing' \in [Alarms!Thread -> Alarms!Payload]
  <2>1. call[t] = "promote payload" /\ Alarms!Goto(t, "publish image")
        /\ "publish image" \in Alarms!Label
    BY DEF Alarms!PromotePayload, Alarms!At, Alarms!Label, Alarms!Writing
  <2>2. overflowPayload # NoAlarm /\ overflowPayload \in Alarms!Alarm \cup {NoAlarm}
    BY <2>1 DEF AlarmIInv, Carried, CodesAreKnown, Alarms!TypeOK
  <2>3. /\ publishing \in [Alarms!Thread -> Alarms!Payload] /\ publishing[t] \in Alarms!Payload
        /\ publishing' = [publishing EXCEPT ![t] = [publishing[t] EXCEPT !.code = overflowPayload]]
    BY DEF Alarms!TypeOK, Alarms!PromotePayload
  <2>4. /\ [publishing[t] EXCEPT !.code = overflowPayload] \in Alarms!Payload
        /\ publishing'[t] = [publishing[t] EXCEPT !.code = overflowPayload]
        /\ \A u \in Alarms!Thread : u # t => publishing'[u] = publishing[u]
    BY <2>2, <2>3 DEF Alarms!Payload
  <2>5. publishing' \in [Alarms!Thread -> Alarms!Payload]
    BY <2>3, <2>4
  <2> QED BY <2>1, <2>2, <2>3, <2>4, <2>5, GotoFacts DEF Alarms!Payload
<1>3. Alarms!TypeOK'
  BY <1>1, <1>2 DEF Alarms!TypeOK
<1>4. /\ \A h \in Holder : Reserves(h) => h = t
      /\ \A h \in Holder : admission[h].acquired => h = t
  BY <1>2, AloneFacts DEF Inside, Section, Clearing
<1>5. Places'
  BY <1>1, <1>2, AlarmTypeFacts DEF AlarmIInv, Places, HolderPlace, OtherPlace,
     AttemptsAreLeft,
     Clearing, Lasting, Alarms!Reserving
<1>6. OneWriter'
  BY <1>1, <1>2 DEF AlarmIInv, OneWriter, WriterIsTaken, WriterIsHeld, WriterIsOne,
     HasWriter, Alarms!Admitted, Clearing, Section
<1>7. ActiveIsCounted'
  <2>1. \A u \in Alarms!Thread : Counted(u)' <=> Counted(u)
    BY <1>1, <1>2 DEF Counted, Alarms!Admitted, Alarms!Declared, Alarms!Writing
  <2> QED BY <1>1, <1>2, <2>1, CountSame
<1>8. OneHolderReserves'
  <2>1. ReservedByOne'
    BY <1>1, <1>2, AlarmTypeFacts DEF AlarmIInv, OneHolderReserves, ReservedByOne, Reserves
  <2>2. BaseIsQuiet'
    BY <1>1, <1>2, AlarmTypeFacts DEF AlarmIInv, OneHolderReserves, BaseIsQuiet, Reserves
  <2>3. OthersAreOutside'
    BY <1>1, <1>2, AlarmTypeFacts, ZenonT(40) DEF AlarmIInv, OneHolderReserves, OthersAreOutside,
       Reserves,
       Clearing, Section, Inside
  <2>4. SequenceTells'
    BY <1>1, <1>2, AlarmTypeFacts DEF AlarmIInv, OneHolderReserves, SequenceTells, Reserves
  <2> QED BY <2>1, <2>2, <2>3, <2>4 DEF OneHolderReserves
<1>9. Captured'
  <2>1. AdmittedIsCurrent'
    BY <1>1, <1>2, <1>4, HoldersAreThreads DEF AlarmIInv, Captured, AdmittedIsCurrent,
       Carrying
  <2>2. CaptureIsKnown'
    BY <1>1, <1>2, AlarmTypeFacts DEF AlarmIInv, Captured, CaptureIsKnown, Unfinished
  <2> QED BY <2>1, <2>2 DEF Captured
<1>10. Carried'
  BY <1>1, <1>2, ZenonT(40) DEF AlarmIInv, Carried, WaitingIsDeferred, PayloadIsCarried, CodesAreKnown,
     ImageIsShown, ImageHasCodes, Alarms!DeferredDescribesWaiting, Carrying
<1> QED BY <1>3, <1>5, <1>6, <1>7, <1>8, <1>9, <1>10 DEF AlarmIInv

(* A load changes nothing that others see. *)
LEMMA DeferLoadKeeps ==
  ASSUME AlarmIInv, NEW t \in Alarms!Thread, Alarms!DeferLoad(t)
  PROVE  AlarmIInv'
<1> Alarms!TypeOK
  BY DEF AlarmIInv
<1>1. UNCHANGED <<intent, alarmWriter, deferred, overflowPayload, waiting, image,
                  hasAlarm, updateCount, shown, left, after, publishing, admission,
                  captured>>
  BY DEF Alarms!DeferLoad, Alarms!imageVars, Alarms!deferredVars, Alarms!holderVars
<1>2. /\ call[t] = "defer" /\ call'[t] = "defer swap"
      /\ \A u \in Alarms!Thread : u # t => call'[u] = call[u]
      /\ call' \in [Alarms!Thread -> Alarms!Label]
      /\ seen' \in [Alarms!Thread -> Alarms!Publication]
  BY GotoFacts DEF Alarms!DeferLoad, Alarms!At, Alarms!Label, Alarms!Declared, Alarms!TypeOK
<1>3. Alarms!TypeOK'
  BY <1>1, <1>2 DEF Alarms!TypeOK
<1>4. Places'
  BY <1>1, <1>2, AlarmTypeFacts DEF AlarmIInv, Places, HolderPlace, OtherPlace,
     AttemptsAreLeft,
     Clearing, Lasting, Alarms!Reserving
<1>5. OneWriter'
  BY <1>1, <1>2 DEF AlarmIInv, OneWriter, WriterIsTaken, WriterIsHeld, WriterIsOne,
     HasWriter, Alarms!Admitted, Clearing, Section
<1>6. ActiveIsCounted'
  <2>1. \A u \in Alarms!Thread : Counted(u)' <=> Counted(u)
    BY <1>1, <1>2 DEF Counted, Alarms!Admitted, Alarms!Declared, Alarms!Writing
  <2> QED BY <1>1, <1>2, <2>1, CountSame
<1>7. OneHolderReserves'
  BY <1>1, <1>2, AlarmTypeFacts, ZenonT(40) DEF AlarmIInv, OneHolderReserves, ReservedByOne,
     BaseIsQuiet,
     OthersAreOutside, SequenceTells, Reserves, Clearing, Section, Inside
<1>8. Captured'
  BY <1>1, <1>2, AlarmTypeFacts, ZenonT(40) DEF AlarmIInv, Captured, AdmittedIsCurrent, CaptureIsKnown,
     Carrying, Unfinished
<1>9. Carried'
  BY <1>1, <1>2 DEF AlarmIInv, Carried, WaitingIsDeferred, PayloadIsCarried, CodesAreKnown,
     ImageIsShown, ImageHasCodes, Alarms!DeferredDescribesWaiting, Carrying
<1> QED BY <1>3, <1>4, <1>5, <1>6, <1>7, <1>8, <1>9 DEF AlarmIInv

(* The publication that replaces the one loaded stands for one alarm more. *)
LEMMA DeferSwapKeeps ==
  ASSUME AlarmIInv, NEW t \in Alarms!Thread, Alarms!DeferSwap(t)
  PROVE  AlarmIInv'
<1> Alarms!TypeOK
  BY DEF AlarmIInv
<1>1. UNCHANGED <<intent, alarmWriter, overflowPayload, image, hasAlarm, updateCount,
                  shown, left, after, publishing, admission, captured>>
  BY DEF Alarms!DeferSwap, Alarms!imageVars, Alarms!holderVars
<1>2. /\ call[t] = "defer swap"
      /\ \/ /\ call'[t] = "withdraw" /\ deferred' = Alarms!Coalesced(t, deferred)
            /\ waiting' = Append(waiting, t)
         \/ call'[t] \in {"defer swap", "overflow payload"} /\ deferred' = deferred
            /\ waiting' = waiting
      /\ \A u \in Alarms!Thread : u # t => call'[u] = call[u]
      /\ call' \in [Alarms!Thread -> Alarms!Label]
      /\ seen' \in [Alarms!Thread -> Alarms!Publication]
      /\ intent.active # 0
  <2>1. intent.active # 0
    <3>1. call[t] = "defer swap"
      BY DEF Alarms!DeferSwap, Alarms!At
    <3>2. Counted(t)
      BY <3>1 DEF AlarmIInv, Places, HolderPlace, Counted, Alarms!Declared,
         Alarms!Admitted, Lasting, Clearing
    <3> QED BY <3>2, CountedIsActive
  <2>2. call[t] = "defer swap"
        /\ {"defer swap", "withdraw", "overflow payload"} \subseteq Alarms!Label
    BY DEF Alarms!DeferSwap, Alarms!At, Alarms!Label, Alarms!Declared
  <2>3. Alarms!Nothing \in Alarms!Publication /\ deferred \in Alarms!Publication
        /\ seen \in [Alarms!Thread -> Alarms!Publication]
    BY BoundAssumption DEF Alarms!Nothing, Alarms!Publication, Alarms!TypeOK
  <2>4. CASE deferred = seen[t]
    <3>1. /\ deferred' = Alarms!Coalesced(t, deferred) /\ waiting' = Append(waiting, t)
          /\ seen' = [seen EXCEPT ![t] = Alarms!Nothing] /\ Alarms!Goto(t, "withdraw")
      BY <2>4 DEF Alarms!DeferSwap
    <3>2. seen' \in [Alarms!Thread -> Alarms!Publication]
      BY <2>3, <3>1
    <3>3. /\ call'[t] = "withdraw" /\ \A u \in Alarms!Thread : u # t => call'[u] = call[u]
          /\ call' \in [Alarms!Thread -> Alarms!Label]
      BY <2>2, <3>1, GotoFacts
    <3> QED BY <2>1, <2>2, <3>1, <3>2, <3>3
  <2>5. CASE deferred # seen[t]
    <3>1. /\ deferred' = deferred /\ waiting' = waiting /\ seen' = [seen EXCEPT ![t] = deferred]
          /\ call' \in {call, [call EXCEPT ![t] = "overflow payload"]}
      BY <2>5 DEF Alarms!DeferSwap
    <3>2. call \in [Alarms!Thread -> Alarms!Label]
      BY DEF Alarms!TypeOK
    <3>3. /\ call'[t] \in {"defer swap", "overflow payload"}
          /\ \A u \in Alarms!Thread : u # t => call'[u] = call[u]
          /\ call' \in [Alarms!Thread -> Alarms!Label]
      BY <2>2, <3>1, <3>2
    <3>4. seen' \in [Alarms!Thread -> Alarms!Publication]
      BY <2>3, <3>1
    <3> QED BY <2>1, <2>2, <3>1, <3>3, <3>4
  <2> QED BY <2>4, <2>5
<1>3. Alarms!TypeOK'
  <2>1. deferred' \in Alarms!Publication /\ waiting' \in Seq(Alarms!Alarm)
    <3>1. deferred \in Alarms!Publication /\ waiting \in Seq(Alarms!Alarm)
      BY DEF Alarms!TypeOK
    <3>2. CASE deferred' = Alarms!Coalesced(t, deferred) /\ waiting' = Append(waiting, t)
      BY <3>2, CoalescedFacts
    <3>3. CASE deferred' = deferred /\ waiting' = waiting
      BY <3>1, <3>3
    <3> QED BY <1>2, <3>2, <3>3
  <2> QED BY <1>1, <1>2, <2>1 DEF Alarms!TypeOK
<1>4. Places'
  BY <1>1, <1>2, AlarmTypeFacts DEF AlarmIInv, Places, HolderPlace, OtherPlace,
     AttemptsAreLeft,
     Clearing, Lasting, Alarms!Reserving
<1>5. OneWriter'
  BY <1>1, <1>2 DEF AlarmIInv, OneWriter, WriterIsTaken, WriterIsHeld, WriterIsOne,
     HasWriter, Alarms!Admitted, Clearing, Section
<1>6. ActiveIsCounted'
  <2>1. \A u \in Alarms!Thread : Counted(u)' <=> Counted(u)
    BY <1>1, <1>2 DEF Counted, Alarms!Admitted, Alarms!Declared, Alarms!Writing
  <2> QED BY <1>1, <1>2, <2>1, CountSame
<1>7. OneHolderReserves'
  BY <1>1, <1>2, AlarmTypeFacts, ZenonT(40) DEF AlarmIInv, OneHolderReserves, ReservedByOne,
     BaseIsQuiet,
     OthersAreOutside, SequenceTells, Reserves, Clearing, Section, Inside
<1>8. Captured'
  BY <1>1, <1>2, AlarmTypeFacts DEF AlarmIInv, Captured, AdmittedIsCurrent, CaptureIsKnown,
     Carrying, Unfinished
<1>9. Carried'
  <2>1. WaitingIsDeferred'
    BY <1>2, CoalescedFacts DEF AlarmIInv, Carried, WaitingIsDeferred
  <2>2. PayloadIsCarried'
    BY <1>1, <1>2 DEF AlarmIInv, Carried, PayloadIsCarried, Carrying
  <2>3. CodesAreKnown'
    BY <1>1, <1>2, CoalescedFacts DEF AlarmIInv, Carried, CodesAreKnown
  <2>4. ImageIsShown'
    BY <1>1, <1>2 DEF AlarmIInv, Carried, ImageIsShown
  <2>5. ImageHasCodes'
    BY <1>1, <1>2, HoldersAreThreads DEF AlarmIInv, Carried, ImageHasCodes
  <2>6. Alarms!DeferredDescribesWaiting'
    <3>1. Alarms!DeferredDescribesWaiting
      BY DEF AlarmIInv, Carried
    <3>2. CASE deferred' = Alarms!Coalesced(t, deferred) /\ waiting' = Append(waiting, t)
      BY <3>2, CoalescedFacts
    <3>3. CASE deferred' = deferred /\ waiting' = waiting
      BY <3>1, <3>3 DEF Alarms!DeferredDescribesWaiting
    <3> QED BY <1>2, <3>2, <3>3
  <2> QED BY <2>1, <2>2, <2>3, <2>4, <2>5, <2>6 DEF Carried
<1> QED BY <1>3, <1>4, <1>5, <1>6, <1>7, <1>8, <1>9 DEF AlarmIInv

(* The payload word has a code before the overflow is declared. *)
LEMMA OverflowPayloadKeeps ==
  ASSUME AlarmIInv, NEW t \in Alarms!Thread, Alarms!OverflowPayload(t)
  PROVE  AlarmIInv'
<1> Alarms!TypeOK
  BY DEF AlarmIInv
<1>1. UNCHANGED <<intent, alarmWriter, deferred, waiting, image, hasAlarm, updateCount,
                  shown, left, after, publishing, admission, captured>>
  BY DEF Alarms!OverflowPayload, Alarms!imageVars, Alarms!holderVars
<1>2. /\ call[t] = "overflow payload" /\ call'[t] = "overflow flag"
      /\ \A u \in Alarms!Thread : u # t => call'[u] = call[u]
      /\ call' \in [Alarms!Thread -> Alarms!Label]
      /\ overflowPayload' \in Alarms!Alarm /\ overflowPayload' # NoAlarm
      /\ seen' \in [Alarms!Thread -> Alarms!Publication]
  <2>1. t # NoAlarm /\ t \in Alarms!Alarm /\ Alarms!Nothing \in Alarms!Publication
    BY ThreadAssumption, BoundAssumption DEF Alarms!Alarm, Alarms!Thread,
       Alarms!Nothing, Alarms!Publication
  <2> QED BY <2>1, GotoFacts DEF Alarms!OverflowPayload, Alarms!At, Alarms!Label,
     Alarms!Declared, Alarms!TypeOK
<1>3. Alarms!TypeOK'
  BY <1>1, <1>2 DEF Alarms!TypeOK
<1>4. Places'
  BY <1>1, <1>2, AlarmTypeFacts DEF AlarmIInv, Places, HolderPlace, OtherPlace,
     AttemptsAreLeft,
     Clearing, Lasting, Alarms!Reserving
<1>5. OneWriter'
  BY <1>1, <1>2 DEF AlarmIInv, OneWriter, WriterIsTaken, WriterIsHeld, WriterIsOne,
     HasWriter, Alarms!Admitted, Clearing, Section
<1>6. ActiveIsCounted'
  <2>1. \A u \in Alarms!Thread : Counted(u)' <=> Counted(u)
    BY <1>1, <1>2 DEF Counted, Alarms!Admitted, Alarms!Declared, Alarms!Writing
  <2> QED BY <1>1, <1>2, <2>1, CountSame
<1>7. OneHolderReserves'
  BY <1>1, <1>2, AlarmTypeFacts, ZenonT(40) DEF AlarmIInv, OneHolderReserves, ReservedByOne,
     BaseIsQuiet,
     OthersAreOutside, SequenceTells, Reserves, Clearing, Section, Inside
<1>8. Captured'
  BY <1>1, <1>2, AlarmTypeFacts, ZenonT(40) DEF AlarmIInv, Captured, AdmittedIsCurrent, CaptureIsKnown,
     Carrying, Unfinished
<1>9. Carried'
  BY <1>1, <1>2 DEF AlarmIInv, Carried, WaitingIsDeferred, PayloadIsCarried, CodesAreKnown,
     ImageIsShown, ImageHasCodes, Alarms!DeferredDescribesWaiting, Carrying
<1> QED BY <1>3, <1>4, <1>5, <1>6, <1>7, <1>8, <1>9 DEF AlarmIInv

(* An overflow stands for more alarms than are counted. *)
LEMMA OverflowFlagKeeps ==
  ASSUME AlarmIInv, NEW t \in Alarms!Thread, Alarms!OverflowFlag(t)
  PROVE  AlarmIInv'
<1> Alarms!TypeOK
  BY DEF AlarmIInv
<1>1. UNCHANGED <<intent, alarmWriter, overflowPayload, image, hasAlarm, updateCount,
                  shown, left, after, seen, publishing, admission, captured>>
  BY DEF Alarms!OverflowFlag, Alarms!imageVars, Alarms!locals, Alarms!holderVars
<1>2. /\ call[t] = "overflow flag" /\ call'[t] = "withdraw"
      /\ \A u \in Alarms!Thread : u # t => call'[u] = call[u]
      /\ call' \in [Alarms!Thread -> Alarms!Label]
      /\ deferred'.overflow /\ deferred'.count = deferred.count
         /\ deferred'.code = deferred.code
      /\ deferred' \in Alarms!Publication /\ deferred' # Alarms!Nothing
      /\ waiting' = Append(waiting, t)
      /\ intent.active # 0
  <2>1. deferred \in Alarms!Publication /\ deferred' = [deferred EXCEPT !.overflow = TRUE]
    BY DEF Alarms!TypeOK, Alarms!OverflowFlag
  <2>2. /\ deferred' \in Alarms!Publication /\ deferred'.overflow
        /\ deferred'.count = deferred.count /\ deferred'.code = deferred.code
    BY <2>1 DEF Alarms!Publication
  <2>3. deferred' # Alarms!Nothing
    BY <2>2 DEF Alarms!Nothing
  <2>4. intent.active # 0
    <3>1. call[t] = "overflow flag"
      BY DEF Alarms!OverflowFlag, Alarms!At
    <3>2. Counted(t)
      BY <3>1 DEF AlarmIInv, Places, HolderPlace, Counted, Alarms!Declared,
         Alarms!Admitted, Lasting, Clearing
    <3> QED BY <3>2, CountedIsActive
  <2> QED BY <2>2, <2>3, <2>4, GotoFacts DEF Alarms!OverflowFlag, Alarms!At,
     Alarms!Label, Alarms!Declared
<1>3. Alarms!TypeOK'
  <2>1. waiting' \in Seq(Alarms!Alarm)
    <3>1. waiting \in Seq(Alarms!Alarm) /\ t \in Alarms!Alarm
      BY DEF Alarms!TypeOK, Alarms!Alarm
    <3>2. waiting' = Append(waiting, t)
      BY <1>2
    <3> QED BY <3>1, <3>2, AppendedRange
  <2> QED BY <1>1, <1>2, <2>1 DEF Alarms!TypeOK
<1>4. Places'
  BY <1>1, <1>2, AlarmTypeFacts DEF AlarmIInv, Places, HolderPlace, OtherPlace,
     AttemptsAreLeft,
     Clearing, Lasting, Alarms!Reserving
<1>5. OneWriter'
  BY <1>1, <1>2 DEF AlarmIInv, OneWriter, WriterIsTaken, WriterIsHeld, WriterIsOne,
     HasWriter, Alarms!Admitted, Clearing, Section
<1>6. ActiveIsCounted'
  <2>1. \A u \in Alarms!Thread : Counted(u)' <=> Counted(u)
    BY <1>1, <1>2 DEF Counted, Alarms!Admitted, Alarms!Declared, Alarms!Writing
  <2> QED BY <1>1, <1>2, <2>1, CountSame
<1>7. OneHolderReserves'
  BY <1>1, <1>2, AlarmTypeFacts, ZenonT(40) DEF AlarmIInv, OneHolderReserves, ReservedByOne,
     BaseIsQuiet,
     OthersAreOutside, SequenceTells, Reserves, Clearing, Section, Inside
<1>8. Captured'
  BY <1>1, <1>2, AlarmTypeFacts, ZenonT(40) DEF AlarmIInv, Captured, AdmittedIsCurrent, CaptureIsKnown,
     Carrying, Unfinished
<1>9. Carried'
  <2>1. WaitingIsDeferred'
    <3>1. waiting' # <<>>
      <4>1. waiting \in Seq(Alarms!Alarm) /\ t \in Alarms!Alarm
        BY DEF Alarms!TypeOK, Alarms!Alarm
      <4>2. waiting' = Append(waiting, t)
        BY <1>2
      <4> QED BY <4>1, <4>2, AppendedRange
    <3> QED BY <1>2, <3>1 DEF WaitingIsDeferred
  <2>2. PayloadIsCarried'
    BY <1>1, <1>2 DEF AlarmIInv, Carried, PayloadIsCarried, Carrying
  <2>3. CodesAreKnown'
    BY <1>1, <1>2 DEF AlarmIInv, Carried, CodesAreKnown
  <2>4. ImageIsShown'
    BY <1>1, <1>2 DEF AlarmIInv, Carried, ImageIsShown
  <2>5. ImageHasCodes'
    BY <1>1, <1>2 DEF AlarmIInv, Carried, ImageHasCodes
  <2>6. Alarms!DeferredDescribesWaiting'
    BY <1>2, OverflowDescribes DEF AlarmIInv, Carried
  <2> QED BY <2>1, <2>2, <2>3, <2>4, <2>5, <2>6 DEF Carried
<1> QED BY <1>3, <1>4, <1>5, <1>6, <1>7, <1>8, <1>9 DEF AlarmIInv

(* An alarm raised under an admission is deferred. *)
LEMMA TriggerDeclareKeeps ==
  ASSUME AlarmIInv, NEW t \in Alarms!Thread, Alarms!TriggerDeclare(t)
  PROVE  AlarmIInv'
<1> Alarms!TypeOK
  BY DEF AlarmIInv
<1>1. UNCHANGED <<alarmWriter, deferred, overflowPayload, waiting, image, hasAlarm,
                  updateCount, shown, after, seen, publishing, admission, captured>>
  BY DEF Alarms!TriggerDeclare, Alarms!Declare, Alarms!imageVars, Alarms!deferredVars,
     Alarms!holderVars
<1>2. /\ call[t] = "idle" /\ call'[t] = IF intent.reserved THEN "defer" ELSE "trigger writer"
      /\ \A u \in Alarms!Thread : u # t => call'[u] = call[u]
      /\ call' \in [Alarms!Thread -> Alarms!Label]
      /\ t \notin Holder
      /\ intent' \in Alarms!Intent /\ intent'.seq = intent.seq + 1
         /\ intent'.active = intent.active + 1
      /\ intent'.reserved = intent.reserved /\ left' \in [Alarms!Thread -> 0 .. 2]
      /\ \A u \in Alarms!Thread : u # t => left'[u] = left[u]
  <2>1. /\ Alarms!Declare(t, "defer", "trigger writer") /\ left' = [left EXCEPT ![t] = 2]
        /\ left \in [Alarms!Thread -> 0 .. 2]
    BY DEF Alarms!TriggerDeclare, Alarms!TypeOK
  <2>2. /\ left' \in [Alarms!Thread -> 0 .. 2]
        /\ \A u \in Alarms!Thread : u # t => left'[u] = left[u]
    <3>1. 2 \in 0 .. 2
      OBVIOUS
    <3> QED BY <2>1, <3>1, SetFacts
  <2>3. {"defer", "trigger writer"} \subseteq Alarms!Label
    BY DEF Alarms!Label, Alarms!Declared
  <2>4. call[t] = "idle" /\ t \notin Holder
    BY ThreadAssumption DEF Alarms!TriggerDeclare, Alarms!At
  <2> QED BY <2>1, <2>2, <2>3, <2>4, DeclareFacts
<1>3. Alarms!TypeOK'
  BY <1>1, <1>2 DEF Alarms!TypeOK
<1>4. ~intent.reserved => \A h \in Holder : ~Reserves(h)
  BY DEF AlarmIInv, OneHolderReserves, ReservedByOne
<1>5. Places'
  BY <1>1, <1>2, AlarmTypeFacts DEF AlarmIInv, Places, HolderPlace, OtherPlace,
     AttemptsAreLeft,
     Clearing, Lasting, Alarms!Reserving
<1>6. OneWriter'
  BY <1>1, <1>2, ZenonT(40) DEF AlarmIInv, OneWriter, WriterIsTaken, WriterIsHeld, WriterIsOne,
     HasWriter, Alarms!Admitted, Clearing, Section
<1>7. ActiveIsCounted'
  <2>1. /\ ~Counted(t) /\ Counted(t)'
        /\ \A u \in Alarms!Thread : u # t => (Counted(u)' <=> Counted(u))
    BY <1>1, <1>2 DEF AlarmIInv, Places, HolderPlace, Lasting, Clearing, Counted,
       Alarms!Admitted, Alarms!Declared, Alarms!Writing
  <2> QED BY <1>2, <2>1, CountMore
<1>8. OneHolderReserves'
  <2>1. ReservedByOne'
    BY <1>1, <1>2, AlarmTypeFacts DEF AlarmIInv, OneHolderReserves, ReservedByOne, Reserves
  <2>2. BaseIsQuiet'
    BY <1>1, <1>2, AlarmTypeFacts DEF AlarmIInv, OneHolderReserves, BaseIsQuiet, Reserves
  <2>3. OthersAreOutside'
    BY <1>1, <1>2, <1>4, HoldersAreThreads DEF AlarmIInv, OneHolderReserves,
       OthersAreOutside, Reserves, Clearing, Section, Inside
  <2>4. SequenceTells'
    <3> SUFFICES ASSUME NEW h \in Holder, Reserves(h)'
                 PROVE  admission'[h].base.seq <= intent'.seq
                       /\ intent'.seq # admission'[h].base.seq
      BY DEF SequenceTells
    <3>1. Reserves(h)
      BY <1>1, <1>2, HoldersAreThreads DEF Reserves
    <3>2. admission[h].base.seq <= intent.seq /\ admission' = admission
          /\ intent'.seq = intent.seq + 1
      BY <1>1, <1>2, <3>1 DEF AlarmIInv, OneHolderReserves, SequenceTells
    <3> QED BY <3>2, AlarmTypeFacts
  <2> QED BY <2>1, <2>2, <2>3, <2>4 DEF OneHolderReserves
<1>9. Captured'
  <2>1. AdmittedIsCurrent'
    BY <1>1, <1>2, AlarmTypeFacts DEF AlarmIInv, Captured, AdmittedIsCurrent, Carrying
  <2>2. CaptureIsKnown'
    BY <1>1, <1>2, AlarmTypeFacts DEF AlarmIInv, Captured, CaptureIsKnown, Unfinished
  <2> QED BY <2>1, <2>2 DEF Captured
<1>10. Carried'
  BY <1>1, <1>2 DEF AlarmIInv, Carried, WaitingIsDeferred, PayloadIsCarried, CodesAreKnown,
     ImageIsShown, ImageHasCodes, Alarms!DeferredDescribesWaiting, Carrying
<1> QED BY <1>3, <1>5, <1>6, <1>7, <1>8, <1>9, <1>10 DEF AlarmIInv

(* The alarm is on its way once the writer flag is taken. *)
LEMMA TriggerWriterKeeps ==
  ASSUME AlarmIInv, NEW t \in Alarms!Thread, Alarms!TriggerWriter(t)
  PROVE  AlarmIInv'
<1> Alarms!TypeOK
  BY DEF AlarmIInv
<1>1. UNCHANGED <<intent, deferred, overflowPayload, waiting, image, hasAlarm,
                  updateCount, shown, left, after, seen, admission, captured>>
  BY DEF Alarms!TriggerWriter, Alarms!imageVars, Alarms!deferredVars, Alarms!holderVars
<1>2. /\ call[t] = "trigger writer" /\ alarmWriter'
         /\ call'[t] = IF alarmWriter THEN "defer" ELSE "publish image"
      /\ \A u \in Alarms!Thread : u # t => call'[u] = call[u]
      /\ call' \in [Alarms!Thread -> Alarms!Label]
      /\ alarmWriter => publishing'[t].alarms = <<>>
      /\ ~alarmWriter => publishing'[t].alarms # <<>> /\ publishing'[t].delta = 1
         /\ publishing'[t].code # NoAlarm
      /\ \A u \in Alarms!Thread : u # t => publishing'[u] = publishing[u]
      /\ publishing' \in [Alarms!Thread -> Alarms!Payload]
  <2> DEFINE payload == IF alarmWriter THEN Alarms!NoPayload
        ELSE [code |-> t, delta |-> 1, alarms |-> <<t>>]
  <2>1. /\ call[t] = "trigger writer" /\ alarmWriter' = TRUE
        /\ publishing \in [Alarms!Thread -> Alarms!Payload]
           /\ publishing' = [publishing EXCEPT ![t] = payload]
    BY DEF Alarms!TriggerWriter, Alarms!At, Alarms!TypeOK
  <2>2. t # NoAlarm /\ t \in Alarms!Alarm /\ <<t>> \in Seq(Alarms!Alarm) /\ <<t>> # <<>>
    BY ThreadAssumption DEF Alarms!Alarm, Alarms!Thread
  <2>3. /\ payload \in Alarms!Payload
        /\ alarmWriter => payload.alarms = <<>>
        /\ ~alarmWriter => payload.alarms # <<>> /\ payload.delta = 1 /\ payload.code # NoAlarm
    BY <2>2 DEF Alarms!NoPayload, Alarms!Payload
  <2> HIDE DEF payload
  <2>4. /\ publishing'[t] = payload /\ publishing' \in [Alarms!Thread -> Alarms!Payload]
        /\ \A u \in Alarms!Thread : u # t => publishing'[u] = publishing[u]
    BY <2>1, <2>3
  <2>5. PICK label \in Alarms!Label : Alarms!Goto(t, label)
        /\ label = IF alarmWriter THEN "defer" ELSE "publish image"
    BY DEF Alarms!TriggerWriter, Alarms!Label, Alarms!Declared, Alarms!Writing
  <2>6. call'[t] = label /\ call' \in [Alarms!Thread -> Alarms!Label]
        /\ \A u \in Alarms!Thread : u # t => call'[u] = call[u]
    BY <2>5, GotoFacts
  <2> QED BY <2>1, <2>3, <2>4, <2>5, <2>6
<1>3. Alarms!TypeOK'
  BY <1>1, <1>2 DEF Alarms!TypeOK
<1>4. /\ \A h \in Holder : ~Reserves(h)
      /\ ~alarmWriter => \A u \in Alarms!Thread : call[u] \notin Section \cup Clearing
  <2>1. \A h \in Holder : Reserves(h) => h = t
    BY <1>2, AloneFacts DEF Inside
  <2>2. ~alarmWriter => \A u \in Alarms!Thread : call[u] \notin Section \cup Clearing
    BY <1>2, FreeWriterFacts
  <2>3. \A h \in Holder : ~Reserves(h)
    BY <1>2, <2>1 DEF AlarmIInv, Places, HolderPlace, Reserves, Lasting, Clearing
  <2> QED BY <2>2, <2>3
<1>5. Places'
  BY <1>1, <1>2, AlarmTypeFacts DEF AlarmIInv, Places, HolderPlace, OtherPlace,
     AttemptsAreLeft,
     Clearing, Lasting, Alarms!Reserving
<1>6. OneWriter'
  <2>1. WriterIsTaken'
    BY <1>1, <1>2 DEF AlarmIInv, OneWriter, WriterIsTaken, HasWriter, Alarms!Admitted,
       Clearing,
       Section
  <2>2. WriterIsHeld'
    BY <1>1, <1>2 DEF AlarmIInv, OneWriter, WriterIsHeld, HasWriter, Alarms!Admitted,
       Clearing,
       Section
  <2>3. WriterIsOne'
    BY <1>1, <1>2, <1>4, HoldersAreThreads DEF AlarmIInv, OneWriter, WriterIsOne, Clearing,
       Section
  <2> QED BY <2>1, <2>2, <2>3 DEF OneWriter
<1>7. ActiveIsCounted'
  <2>1. \A u \in Alarms!Thread : Counted(u)' <=> Counted(u)
    BY <1>1, <1>2 DEF Counted, Alarms!Admitted, Alarms!Declared, Alarms!Writing
  <2> QED BY <1>1, <1>2, <2>1, CountSame
<1>8. OneHolderReserves'
  <2>1. ReservedByOne'
    BY <1>1, <1>2, AlarmTypeFacts DEF AlarmIInv, OneHolderReserves, ReservedByOne, Reserves
  <2>2. BaseIsQuiet'
    BY <1>1, <1>2, AlarmTypeFacts DEF AlarmIInv, OneHolderReserves, BaseIsQuiet, Reserves
  <2>3. OthersAreOutside'
    BY <1>1, <1>2, <1>4, HoldersAreThreads DEF AlarmIInv, OneHolderReserves,
       OthersAreOutside, Reserves, Clearing, Section, Inside
  <2>4. SequenceTells'
    BY <1>1, <1>2, AlarmTypeFacts DEF AlarmIInv, OneHolderReserves, SequenceTells, Reserves
  <2> QED BY <2>1, <2>2, <2>3, <2>4 DEF OneHolderReserves
<1>9. Captured'
  <2>1. AdmittedIsCurrent'
    BY <1>1, <1>2, AlarmTypeFacts, ZenonT(40) DEF AlarmIInv, Captured, AdmittedIsCurrent, Carrying
  <2>2. CaptureIsKnown'
    BY <1>1, <1>2, AlarmTypeFacts DEF AlarmIInv, Captured, CaptureIsKnown, Unfinished
  <2> QED BY <2>1, <2>2 DEF Captured
<1>10. Carried'
  <2>1. WaitingIsDeferred'
    BY <1>1, <1>2 DEF AlarmIInv, Carried, WaitingIsDeferred
  <2>2. PayloadIsCarried'
    <3> SUFFICES ASSUME NEW u \in Alarms!Thread
                 PROVE  /\ publishing'[u].alarms # <<>> <=> call'[u] \in Carrying
                        /\ call'[u] \in Carrying => publishing'[u].delta # 0
                        /\ call'[u] \in {"under reserve", "publish image"} =>
                             publishing'[u].code # NoAlarm
      BY DEF PayloadIsCarried
    <3>1. CASE u = t
      <4>1. CASE alarmWriter
        BY <1>2, <3>1, <4>1 DEF Carrying
      <4>2. CASE ~alarmWriter
        <5>1. /\ publishing'[u].alarms # <<>> /\ publishing'[u].code # NoAlarm
              /\ publishing'[u].delta = 1 /\ call'[u] = "publish image"
          BY <1>2, <3>1, <4>2
        <5>2. 1 # 0 /\ "publish image" \in Carrying
          BY DEF Carrying
        <5> QED BY <5>1, <5>2
      <4> QED BY <4>1, <4>2
    <3>2. CASE u # t
      BY <1>2, <3>2 DEF AlarmIInv, Carried, PayloadIsCarried
    <3> QED BY <3>1, <3>2
  <2>3. CodesAreKnown'
    BY <1>1, <1>2 DEF AlarmIInv, Carried, CodesAreKnown
  <2>4. ImageIsShown'
    BY <1>1, <1>2 DEF AlarmIInv, Carried, ImageIsShown
  <2>5. ImageHasCodes'
    BY <1>1, <1>2 DEF AlarmIInv, Carried, ImageHasCodes
  <2>6. Alarms!DeferredDescribesWaiting'
    BY <1>1, <1>2 DEF AlarmIInv, Carried, Alarms!DeferredDescribesWaiting
  <2> QED BY <2>1, <2>2, <2>3, <2>4, <2>5, <2>6 DEF Carried
<1> QED BY <1>3, <1>5, <1>6, <1>7, <1>8, <1>9, <1>10 DEF AlarmIInv

(* A clear promotes first. *)
LEMMA ClearCallKeeps ==
  ASSUME AlarmIInv, NEW t \in Alarms!Thread, Alarms!ClearCall(t)
  PROVE  AlarmIInv'
<1> Alarms!TypeOK
  BY DEF AlarmIInv
<1>1. UNCHANGED <<intent, alarmWriter, deferred, overflowPayload, waiting, image,
                  hasAlarm, updateCount, shown, seen, publishing, admission,
                  captured>>
  BY DEF Alarms!ClearCall, Alarms!imageVars, Alarms!deferredVars, Alarms!holderVars
<1>2. /\ call[t] = "idle" /\ call'[t] = "promote"
      /\ \A u \in Alarms!Thread : u # t => call'[u] = call[u]
      /\ call' \in [Alarms!Thread -> Alarms!Label]
      /\ t \notin Holder
      /\ after'[t] = "clear look"
      /\ \A u \in Alarms!Thread : u # t => after'[u] = after[u]
      /\ after' \in [Alarms!Thread -> Alarms!Return] /\ left' \in [Alarms!Thread -> 0 .. 2]
      /\ \A u \in Alarms!Thread : u # t => left'[u] = left[u]
      /\ left'[t] # 0
  <2>1. /\ call[t] = "idle" /\ t \notin Holder /\ Alarms!Goto(t, "promote")
           /\ "promote" \in Alarms!Label
        /\ left' = [left EXCEPT ![t] = 2] /\ after' = [after EXCEPT ![t] = "clear look"]
    BY ThreadAssumption DEF Alarms!ClearCall, Alarms!At, Alarms!Label, Alarms!Elsewhere
  <2>2. left \in [Alarms!Thread -> 0 .. 2] /\ after \in [Alarms!Thread -> Alarms!Return]
        /\ "clear look" \in Alarms!Return
    BY DEF Alarms!TypeOK, Alarms!Return
  <2>3. /\ left' \in [Alarms!Thread -> 0 .. 2] /\ left'[t] # 0
        /\ \A u \in Alarms!Thread : u # t => left'[u] = left[u]
    <3>1. 2 \in 0 .. 2 /\ 2 # 0
      OBVIOUS
    <3> QED BY <2>1, <2>2, <3>1, SetFacts
  <2>4. /\ after' \in [Alarms!Thread -> Alarms!Return] /\ after'[t] = "clear look"
        /\ \A u \in Alarms!Thread : u # t => after'[u] = after[u]
    BY <2>1, <2>2
  <2> QED BY <2>1, <2>3, <2>4, GotoFacts
<1>3. Alarms!TypeOK'
  BY <1>1, <1>2 DEF Alarms!TypeOK
<1>4. Places'
  BY <1>1, <1>2, AlarmTypeFacts, ZenonT(40) DEF AlarmIInv, Places, HolderPlace, OtherPlace,
     AttemptsAreLeft,
     Clearing, Lasting, Alarms!Reserving
<1>5. OneWriter'
  BY <1>1, <1>2 DEF AlarmIInv, OneWriter, WriterIsTaken, WriterIsHeld, WriterIsOne,
     HasWriter, Alarms!Admitted, Clearing, Section
<1>6. ActiveIsCounted'
  <2>1. \A u \in Alarms!Thread : Counted(u)' <=> Counted(u)
    BY <1>1, <1>2 DEF Counted, Alarms!Admitted, Alarms!Declared, Alarms!Writing
  <2> QED BY <1>1, <1>2, <2>1, CountSame
<1>7. OneHolderReserves'
  <2>1. ReservedByOne'
    BY <1>1, <1>2, AlarmTypeFacts DEF AlarmIInv, OneHolderReserves, ReservedByOne, Reserves
  <2>2. BaseIsQuiet'
    BY <1>1, <1>2, AlarmTypeFacts DEF AlarmIInv, OneHolderReserves, BaseIsQuiet, Reserves
  <2>3. OthersAreOutside'
    BY <1>1, <1>2, HoldersAreThreads DEF AlarmIInv, OneHolderReserves, OthersAreOutside,
       Reserves, Clearing, Section, Inside
  <2>4. SequenceTells'
    BY <1>1, <1>2, AlarmTypeFacts DEF AlarmIInv, OneHolderReserves, SequenceTells, Reserves
  <2> QED BY <2>1, <2>2, <2>3, <2>4 DEF OneHolderReserves
<1>8. Captured'
  <2>1. AdmittedIsCurrent'
    BY <1>1, <1>2, AlarmTypeFacts, ZenonT(40) DEF AlarmIInv, Captured, AdmittedIsCurrent, Carrying
  <2>2. CaptureIsKnown'
    BY <1>1, <1>2, AlarmTypeFacts DEF AlarmIInv, Captured, CaptureIsKnown, Unfinished
  <2> QED BY <2>1, <2>2 DEF Captured
<1>9. Carried'
  BY <1>1, <1>2 DEF AlarmIInv, Carried, WaitingIsDeferred, PayloadIsCarried, CodesAreKnown,
     ImageIsShown, ImageHasCodes, Alarms!DeferredDescribesWaiting, Carrying
<1> QED BY <1>3, <1>4, <1>5, <1>6, <1>7, <1>8, <1>9 DEF AlarmIInv

(* A look changes nothing. *)
LEMMA ClearLookKeeps ==
  ASSUME AlarmIInv, NEW t \in Alarms!Thread, Alarms!ClearLook(t)
  PROVE  AlarmIInv'
<1> Alarms!TypeOK
  BY DEF AlarmIInv
<1>1. UNCHANGED <<intent, alarmWriter, deferred, overflowPayload, waiting, image,
                  hasAlarm, updateCount, shown, left, after, seen, publishing,
                  admission, captured>>
  BY DEF Alarms!ClearLook, Alarms!imageVars, Alarms!deferredVars, Alarms!locals,
     Alarms!holderVars
<1>2. /\ call[t] = "clear look" /\ call'[t] \in {"idle", "clear declare"}
      /\ \A u \in Alarms!Thread : u # t => call'[u] = call[u]
      /\ call' \in [Alarms!Thread -> Alarms!Label]
  <2>1. PICK label \in {"idle", "clear declare"} : Alarms!Goto(t, label)
    BY DEF Alarms!ClearLook
  <2>2. label \in Alarms!Label
    BY DEF Alarms!Label, Alarms!Elsewhere
  <2> QED BY <2>1, <2>2, GotoFacts DEF Alarms!ClearLook, Alarms!At
<1>3. Alarms!TypeOK'
  BY <1>1, <1>2 DEF Alarms!TypeOK
<1>4. Places'
  BY <1>1, <1>2, AlarmTypeFacts DEF AlarmIInv, Places, HolderPlace, OtherPlace,
     AttemptsAreLeft,
     Clearing, Lasting, Alarms!Reserving
<1>5. OneWriter'
  BY <1>1, <1>2 DEF AlarmIInv, OneWriter, WriterIsTaken, WriterIsHeld, WriterIsOne,
     HasWriter, Alarms!Admitted, Clearing, Section
<1>6. ActiveIsCounted'
  <2>1. \A u \in Alarms!Thread : Counted(u)' <=> Counted(u)
    BY <1>1, <1>2 DEF Counted, Alarms!Admitted, Alarms!Declared, Alarms!Writing
  <2> QED BY <1>1, <1>2, <2>1, CountSame
<1>7. OneHolderReserves'
  BY <1>1, <1>2, AlarmTypeFacts, ZenonT(40) DEF AlarmIInv, OneHolderReserves, ReservedByOne,
     BaseIsQuiet,
     OthersAreOutside, SequenceTells, Reserves, Clearing, Section, Inside
<1>8. Captured'
  BY <1>1, <1>2, AlarmTypeFacts, ZenonT(40) DEF AlarmIInv, Captured, AdmittedIsCurrent, CaptureIsKnown,
     Carrying, Unfinished
<1>9. Carried'
  BY <1>1, <1>2 DEF AlarmIInv, Carried, WaitingIsDeferred, PayloadIsCarried, CodesAreKnown,
     ImageIsShown, ImageHasCodes, Alarms!DeferredDescribesWaiting, Carrying
<1> QED BY <1>3, <1>4, <1>5, <1>6, <1>7, <1>8, <1>9 DEF AlarmIInv

(* A clear under an admission gives up. *)
LEMMA ClearDeclareKeeps ==
  ASSUME AlarmIInv, NEW t \in Alarms!Thread, Alarms!ClearDeclare(t)
  PROVE  AlarmIInv'
<1> Alarms!TypeOK
  BY DEF AlarmIInv
<1>1. UNCHANGED <<alarmWriter, deferred, overflowPayload, waiting, image, hasAlarm,
                  updateCount, shown, after, seen, publishing, admission, captured>>
  BY DEF Alarms!ClearDeclare, Alarms!Declare, Alarms!imageVars, Alarms!deferredVars,
     Alarms!holderVars
<1>2. /\ call[t] = "clear declare"
         /\ call'[t] = IF intent.reserved THEN "withdraw" ELSE "clear writer"
      /\ \A u \in Alarms!Thread : u # t => call'[u] = call[u]
      /\ call' \in [Alarms!Thread -> Alarms!Label]
      /\ intent' \in Alarms!Intent /\ intent'.seq = intent.seq + 1
         /\ intent'.active = intent.active + 1
      /\ intent'.reserved = intent.reserved /\ left' \in [Alarms!Thread -> 0 .. 2]
      /\ \A u \in Alarms!Thread : u # t => left'[u] = left[u]
  <2>1. /\ Alarms!Declare(t, "withdraw", "clear writer") /\ left' = [left EXCEPT ![t] = 2]
        /\ left \in [Alarms!Thread -> 0 .. 2]
    BY DEF Alarms!ClearDeclare, Alarms!TypeOK
  <2>2. /\ left' \in [Alarms!Thread -> 0 .. 2]
        /\ \A u \in Alarms!Thread : u # t => left'[u] = left[u]
    <3>1. 2 \in 0 .. 2
      OBVIOUS
    <3> QED BY <2>1, <3>1, SetFacts
  <2>3. {"withdraw", "clear writer"} \subseteq Alarms!Label
    BY DEF Alarms!Label, Alarms!Declared
  <2>4. call[t] = "clear declare"
    BY DEF Alarms!ClearDeclare, Alarms!At
  <2> QED BY <2>1, <2>2, <2>3, <2>4, DeclareFacts
<1>3. Alarms!TypeOK'
  BY <1>1, <1>2 DEF Alarms!TypeOK
<1>4. ~intent.reserved => \A h \in Holder : ~Reserves(h)
  BY DEF AlarmIInv, OneHolderReserves, ReservedByOne
<1>5. Places'
  BY <1>1, <1>2, AlarmTypeFacts, ZenonT(40) DEF AlarmIInv, Places, HolderPlace, OtherPlace,
     AttemptsAreLeft,
     Clearing, Lasting, Alarms!Reserving
<1>6. OneWriter'
  BY <1>1, <1>2, ZenonT(40) DEF AlarmIInv, OneWriter, WriterIsTaken, WriterIsHeld, WriterIsOne,
     HasWriter, Alarms!Admitted, Clearing, Section
<1>7. ActiveIsCounted'
  <2>1. /\ ~Counted(t) /\ Counted(t)'
        /\ \A u \in Alarms!Thread : u # t => (Counted(u)' <=> Counted(u))
    BY <1>1, <1>2 DEF AlarmIInv, Places, HolderPlace, Lasting, Clearing, Counted,
       Alarms!Admitted, Alarms!Declared, Alarms!Writing
  <2> QED BY <1>2, <2>1, CountMore
<1>8. OneHolderReserves'
  <2>1. ReservedByOne'
    BY <1>1, <1>2, AlarmTypeFacts DEF AlarmIInv, OneHolderReserves, ReservedByOne, Reserves
  <2>2. BaseIsQuiet'
    BY <1>1, <1>2, AlarmTypeFacts DEF AlarmIInv, OneHolderReserves, BaseIsQuiet, Reserves
  <2>3. OthersAreOutside'
    BY <1>1, <1>2, <1>4, HoldersAreThreads DEF AlarmIInv, OneHolderReserves,
       OthersAreOutside, Reserves, Clearing, Section, Inside
  <2>4. SequenceTells'
    <3> SUFFICES ASSUME NEW h \in Holder, Reserves(h)'
                 PROVE  admission'[h].base.seq <= intent'.seq
                       /\ intent'.seq # admission'[h].base.seq
      BY DEF SequenceTells
    <3>1. Reserves(h)
      BY <1>1, <1>2, HoldersAreThreads DEF Reserves
    <3>2. admission[h].base.seq <= intent.seq /\ admission' = admission
          /\ intent'.seq = intent.seq + 1
      BY <1>1, <1>2, <3>1 DEF AlarmIInv, OneHolderReserves, SequenceTells
    <3> QED BY <3>2, AlarmTypeFacts
  <2> QED BY <2>1, <2>2, <2>3, <2>4 DEF OneHolderReserves
<1>9. Captured'
  <2>1. AdmittedIsCurrent'
    BY <1>1, <1>2, AlarmTypeFacts, ZenonT(40) DEF AlarmIInv, Captured, AdmittedIsCurrent, Carrying
  <2>2. CaptureIsKnown'
    BY <1>1, <1>2, AlarmTypeFacts DEF AlarmIInv, Captured, CaptureIsKnown, Unfinished
  <2> QED BY <2>1, <2>2 DEF Captured
<1>10. Carried'
  BY <1>1, <1>2 DEF AlarmIInv, Carried, WaitingIsDeferred, PayloadIsCarried, CodesAreKnown,
     ImageIsShown, ImageHasCodes, Alarms!DeferredDescribesWaiting, Carrying
<1> QED BY <1>3, <1>5, <1>6, <1>7, <1>8, <1>9, <1>10 DEF AlarmIInv

(* The writer looks for deferred alarms once more. *)
LEMMA ClearRecheckKeeps ==
  ASSUME AlarmIInv, NEW t \in Alarms!Thread, Alarms!ClearRecheck(t)
  PROVE  AlarmIInv'
<1> Alarms!TypeOK
  BY DEF AlarmIInv
<1>1. UNCHANGED <<intent, alarmWriter, deferred, overflowPayload, waiting, image,
                  hasAlarm, updateCount, shown, left, after, seen, publishing,
                  admission, captured>>
  BY DEF Alarms!ClearRecheck, Alarms!imageVars, Alarms!deferredVars, Alarms!locals,
     Alarms!holderVars
<1>2. /\ call[t] = "clear recheck" /\ call'[t] \in {"release writer", "clear flag"}
      /\ \A u \in Alarms!Thread : u # t => call'[u] = call[u]
      /\ call' \in [Alarms!Thread -> Alarms!Label]
      /\ ~Alarms!Admitted(t) /\ t \notin Holder
  <2>1. PICK label \in {"release writer", "clear flag"} : Alarms!Goto(t, label)
    BY DEF Alarms!ClearRecheck
  <2>2. label \in Alarms!Label
    BY DEF Alarms!Label, Alarms!Elsewhere, Alarms!Writing
  <2>3. call[t] = "clear recheck"
    BY DEF Alarms!ClearRecheck, Alarms!At
  <2>4. ~Alarms!Admitted(t) /\ t \notin Holder
    BY <2>3 DEF AlarmIInv, Places, HolderPlace, Alarms!Admitted
  <2> QED BY <2>1, <2>2, <2>3, <2>4, GotoFacts
<1>3. Alarms!TypeOK'
  BY <1>1, <1>2 DEF Alarms!TypeOK
<1>4. /\ \A h \in Holder : Reserves(h) => h = t
      /\ \A h \in Holder : admission[h].acquired => h = t
  BY <1>2, AloneFacts DEF Inside, Section, Clearing
<1>5. Places'
  BY <1>1, <1>2, AlarmTypeFacts DEF AlarmIInv, Places, HolderPlace, OtherPlace,
     AttemptsAreLeft,
     Clearing, Lasting, Alarms!Reserving
<1>6. OneWriter'
  BY <1>1, <1>2 DEF AlarmIInv, OneWriter, WriterIsTaken, WriterIsHeld, WriterIsOne,
     HasWriter, Alarms!Admitted, Clearing, Section
<1>7. ActiveIsCounted'
  <2>1. \A u \in Alarms!Thread : Counted(u)' <=> Counted(u)
    BY <1>1, <1>2 DEF Counted, Alarms!Admitted, Alarms!Declared, Alarms!Writing
  <2> QED BY <1>1, <1>2, <2>1, CountSame
<1>8. OneHolderReserves'
  BY <1>1, <1>2, AlarmTypeFacts DEF AlarmIInv, OneHolderReserves, ReservedByOne,
     BaseIsQuiet,
     OthersAreOutside, SequenceTells, Reserves, Clearing, Section, Inside
<1>9. Captured'
  <2>1. AdmittedIsCurrent'
    BY <1>1, <1>2, AlarmTypeFacts DEF AlarmIInv, Captured, AdmittedIsCurrent, Carrying
  <2>2. CaptureIsKnown'
    BY <1>1, <1>2, AlarmTypeFacts DEF AlarmIInv, Captured, CaptureIsKnown, Unfinished
  <2> QED BY <2>1, <2>2 DEF Captured
<1>10. Carried'
  BY <1>1, <1>2 DEF AlarmIInv, Carried, WaitingIsDeferred, PayloadIsCarried, CodesAreKnown,
     ImageIsShown, ImageHasCodes, Alarms!DeferredDescribesWaiting, Carrying
<1> QED BY <1>3, <1>5, <1>6, <1>7, <1>8, <1>9, <1>10 DEF AlarmIInv

(* Nothing is shown from here, and an admission holder knows it. *)
LEMMA ClearFlagKeeps ==
  ASSUME AlarmIInv, NEW t \in Alarms!Thread, Alarms!ClearFlag(t)
  PROVE  AlarmIInv'
<1> Alarms!TypeOK
  BY DEF AlarmIInv
<1>1. UNCHANGED <<intent, alarmWriter, deferred, overflowPayload, waiting, image,
                  updateCount, left, after, seen, publishing, admission>>
  BY DEF Alarms!ClearFlag, Alarms!deferredVars, Alarms!locals
<1>2. /\ call[t] = "clear flag" /\ call'[t] = "clear image"
      /\ \A u \in Alarms!Thread : u # t => call'[u] = call[u]
      /\ call' \in [Alarms!Thread -> Alarms!Label]
      /\ ~hasAlarm' /\ hasAlarm' \in BOOLEAN /\ shown' = {}
      /\ Alarms!Admitted(t) => captured'[t] = shown'
      /\ ~Alarms!Admitted(t) => captured' = captured
      /\ \A g \in Holder : g # t => captured'[g] = captured[g]
      /\ captured' \in [Holder -> SUBSET Alarms!Alarm]
  <2>1. call[t] = "clear flag" /\ Alarms!Goto(t, "clear image")
        /\ "clear image" \in Alarms!Label
    BY DEF Alarms!ClearFlag, Alarms!At, Alarms!Label, Alarms!Writing
  <2>2. hasAlarm' = FALSE /\ shown' = {}
    BY DEF Alarms!ClearFlag
  <2>3. /\ Alarms!Admitted(t) => captured'[t] = shown'
        /\ ~Alarms!Admitted(t) => captured' = captured
        /\ \A g \in Holder : g # t => captured'[g] = captured[g]
        /\ captured' \in [Holder -> SUBSET Alarms!Alarm]
    BY DEF Alarms!ClearFlag, Alarms!Admitted, Alarms!TypeOK
  <2> QED BY <2>1, <2>2, <2>3, GotoFacts
<1>3. Alarms!TypeOK'
  BY <1>1, <1>2, AlarmTypeFacts DEF Alarms!TypeOK
<1>4. /\ \A h \in Holder : Reserves(h) => h = t
      /\ \A h \in Holder : admission[h].acquired => h = t
  BY <1>2, AloneFacts DEF Inside, Section, Clearing
<1>5. Places'
  BY <1>1, <1>2, AlarmTypeFacts DEF AlarmIInv, Places, HolderPlace, OtherPlace,
     AttemptsAreLeft,
     Clearing, Lasting, Alarms!Reserving
<1>6. OneWriter'
  BY <1>1, <1>2 DEF AlarmIInv, OneWriter, WriterIsTaken, WriterIsHeld, WriterIsOne,
     HasWriter, Alarms!Admitted, Clearing, Section
<1>7. ActiveIsCounted'
  <2>1. \A u \in Alarms!Thread : Counted(u)' <=> Counted(u)
    BY <1>1, <1>2 DEF Counted, Alarms!Admitted, Alarms!Declared, Alarms!Writing
  <2> QED BY <1>1, <1>2, <2>1, CountSame
<1>8. OneHolderReserves'
  <2>1. ReservedByOne'
    BY <1>1, <1>2, AlarmTypeFacts DEF AlarmIInv, OneHolderReserves, ReservedByOne, Reserves
  <2>2. BaseIsQuiet'
    BY <1>1, <1>2, AlarmTypeFacts DEF AlarmIInv, OneHolderReserves, BaseIsQuiet, Reserves
  <2>3. OthersAreOutside'
    BY <1>1, <1>2, AlarmTypeFacts, ZenonT(40) DEF AlarmIInv, OneHolderReserves, OthersAreOutside,
       Reserves,
       Clearing, Section, Inside
  <2>4. SequenceTells'
    BY <1>1, <1>2, AlarmTypeFacts DEF AlarmIInv, OneHolderReserves, SequenceTells, Reserves
  <2> QED BY <2>1, <2>2, <2>3, <2>4 DEF OneHolderReserves
<1>9. Captured'
  <2>1. AdmittedIsCurrent'
    <3> SUFFICES ASSUME NEW h \in Holder, admission'[h].acquired
                 PROVE  /\ updateCount' = admission'[h].expected
                        /\ shown' = captured'[h]
                        /\ admission'[h].requireNone => ~hasAlarm' /\ call'[h] = "admitted"
                        /\ call'[h] \in Carrying => publishing'[h].delta = 1
      BY DEF AdmittedIsCurrent
    <3>1. h = t /\ admission[h].acquired /\ Alarms!Admitted(t)
      BY <1>1, <1>2, <1>4 DEF Alarms!Admitted
    <3>2. /\ updateCount = admission[h].expected /\ shown = captured[h]
          /\ admission[h].requireNone => call[h] = "admitted"
          /\ call[h] \in Carrying => publishing[h].delta = 1
      BY <3>1 DEF AlarmIInv, Captured, AdmittedIsCurrent
    <3>3. ~admission[h].requireNone
      BY <1>2, <3>1, <3>2
    <3> QED BY <1>1, <1>2, <3>1, <3>2, <3>3 DEF Carrying
  <2>2. CaptureIsKnown'
    BY <1>1, <1>2, AlarmTypeFacts DEF AlarmIInv, Captured, CaptureIsKnown, Unfinished
  <2> QED BY <2>1, <2>2 DEF Captured
<1>10. Carried'
  <2>1. WaitingIsDeferred'
    BY <1>1, <1>2 DEF AlarmIInv, Carried, WaitingIsDeferred
  <2>2. PayloadIsCarried'
    BY <1>1, <1>2 DEF AlarmIInv, Carried, PayloadIsCarried, Carrying
  <2>3. CodesAreKnown'
    BY <1>1, <1>2 DEF AlarmIInv, Carried, CodesAreKnown
  <2>4. ImageIsShown'
    <3>1. ASSUME NEW u \in Alarms!Thread, call'[u] \in {"publish flag", "clear image"} PROVE u = t
      <4>1. CASE u # t
        <5>1. call[u] \in Section \cup Clearing /\ call[t] \in Section \cup Clearing
          BY <1>2, <3>1, <4>1 DEF Section, Clearing
        <5> QED BY <5>1 DEF AlarmIInv, OneWriter, WriterIsOne
      <4> QED BY <4>1
    <3> QED BY <1>1, <1>2, <3>1 DEF ImageIsShown
  <2>5. ImageHasCodes'
    BY <1>1, <1>2 DEF AlarmIInv, Carried, ImageHasCodes
  <2>6. Alarms!DeferredDescribesWaiting'
    BY <1>1, <1>2 DEF AlarmIInv, Carried, Alarms!DeferredDescribesWaiting
  <2> QED BY <2>1, <2>2, <2>3, <2>4, <2>5, <2>6 DEF Carried
<1> QED BY <1>3, <1>5, <1>6, <1>7, <1>8, <1>9, <1>10 DEF AlarmIInv

(* An empty image has no code in it. *)
LEMMA ClearImageKeeps ==
  ASSUME AlarmIInv, NEW t \in Alarms!Thread, Alarms!ClearImage(t)
  PROVE  AlarmIInv'
<1> Alarms!TypeOK
  BY DEF AlarmIInv
<1>1. UNCHANGED <<intent, alarmWriter, deferred, overflowPayload, waiting, hasAlarm,
                  updateCount, shown, left, after, seen, publishing, admission,
                  captured>>
  BY DEF Alarms!ClearImage, Alarms!deferredVars, Alarms!locals, Alarms!holderVars
<1>2. /\ call[t] = "clear image" /\ call'[t] = "clear count"
      /\ \A u \in Alarms!Thread : u # t => call'[u] = call[u]
      /\ call' \in [Alarms!Thread -> Alarms!Label]
      /\ image' = <<>>
  BY GotoFacts DEF Alarms!ClearImage, Alarms!At, Alarms!Label, Alarms!Writing
<1>3. Alarms!TypeOK'
  <2>1. <<>> \in Seq(Alarms!Alarm \cup {NoAlarm}) /\ Len(<<>>) <= MaxAlarms
    BY BoundAssumption
  <2> QED BY <1>1, <1>2, <2>1 DEF Alarms!TypeOK
<1>4. /\ \A h \in Holder : Reserves(h) => h = t
      /\ \A h \in Holder : admission[h].acquired => h = t
  BY <1>2, AloneFacts DEF Inside, Section, Clearing
<1>5. Places'
  BY <1>1, <1>2, AlarmTypeFacts DEF AlarmIInv, Places, HolderPlace, OtherPlace,
     AttemptsAreLeft,
     Clearing, Lasting, Alarms!Reserving
<1>6. OneWriter'
  BY <1>1, <1>2 DEF AlarmIInv, OneWriter, WriterIsTaken, WriterIsHeld, WriterIsOne,
     HasWriter, Alarms!Admitted, Clearing, Section
<1>7. ActiveIsCounted'
  <2>1. \A u \in Alarms!Thread : Counted(u)' <=> Counted(u)
    BY <1>1, <1>2 DEF Counted, Alarms!Admitted, Alarms!Declared, Alarms!Writing
  <2> QED BY <1>1, <1>2, <2>1, CountSame
<1>8. OneHolderReserves'
  BY <1>1, <1>2, AlarmTypeFacts, ZenonT(40) DEF AlarmIInv, OneHolderReserves, ReservedByOne,
     BaseIsQuiet,
     OthersAreOutside, SequenceTells, Reserves, Clearing, Section, Inside
<1>9. Captured'
  BY <1>1, <1>2, AlarmTypeFacts DEF AlarmIInv, Captured, AdmittedIsCurrent, CaptureIsKnown,
     Carrying, Unfinished
<1>10. Carried'
  <2>1. WaitingIsDeferred'
    BY <1>1, <1>2 DEF AlarmIInv, Carried, WaitingIsDeferred
  <2>2. PayloadIsCarried'
    BY <1>1, <1>2 DEF AlarmIInv, Carried, PayloadIsCarried, Carrying
  <2>3. CodesAreKnown'
    BY <1>1, <1>2 DEF AlarmIInv, Carried, CodesAreKnown
  <2>4. ImageIsShown'
    BY <1>1, <1>2, <1>4, HoldersAreThreads DEF AlarmIInv, Carried, ImageIsShown
  <2>5. ImageHasCodes'
    <3>1. Alarms!Range(image') = {}
      BY <1>2, EmptyRange
    <3> QED BY <3>1 DEF ImageHasCodes
  <2>6. Alarms!DeferredDescribesWaiting'
    BY <1>1, <1>2 DEF AlarmIInv, Carried, Alarms!DeferredDescribesWaiting
  <2> QED BY <2>1, <2>2, <2>3, <2>4, <2>5, <2>6 DEF Carried
<1> QED BY <1>3, <1>5, <1>6, <1>7, <1>8, <1>9, <1>10 DEF AlarmIInv

(* The revision moves when the image was emptied. *)
LEMMA ClearCountKeeps ==
  ASSUME AlarmIInv, NEW t \in Alarms!Thread, Alarms!ClearCount(t)
  PROVE  AlarmIInv'
<1> Alarms!TypeOK
  BY DEF AlarmIInv
<1>1. UNCHANGED <<intent, alarmWriter, deferred, overflowPayload, waiting, image,
                  hasAlarm, shown, left, after, seen, publishing, captured>>
  BY DEF Alarms!ClearCount, Alarms!deferredVars, Alarms!locals
<1>2. /\ call[t] = "clear count"
         /\ call'[t] = IF Alarms!Admitted(t) THEN "admitted" ELSE "release writer"
      /\ \A u \in Alarms!Thread : u # t => call'[u] = call[u]
      /\ call' \in [Alarms!Thread -> Alarms!Label]
      /\ updateCount' = updateCount + 1
      /\ Alarms!Admitted(t) => admission'[t].expected = admission[t].expected + 1
      /\ ~Alarms!Admitted(t) => admission' = admission
      /\ \A g \in Holder : g # t => admission'[g] = admission[g]
      /\ \A g \in Holder : /\ admission'[g].acquired = admission[g].acquired
                            /\ admission'[g].base = admission[g].base
                            /\ admission'[g].requireNone = admission[g].requireNone
      /\ admission' \in [Holder -> Alarms!Reservation]
  <2>1. PICK label \in Alarms!Label : Alarms!Goto(t, label)
        /\ label = IF Alarms!Admitted(t) THEN "admitted" ELSE "release writer"
    BY DEF Alarms!ClearCount, Alarms!Label, Alarms!Elsewhere, Alarms!Reserving
  <2>2. call[t] = "clear count" /\ updateCount' = updateCount + 1
    BY DEF Alarms!ClearCount, Alarms!At
  <2>3. ASSUME Alarms!Admitted(t)
        PROVE  /\ admission' \in [Holder -> Alarms!Reservation]
               /\ admission'[t].expected = admission[t].expected + 1
               /\ admission'[t].acquired = admission[t].acquired
               /\ admission'[t].base = admission[t].base
               /\ admission'[t].requireNone = admission[t].requireNone
               /\ \A g \in Holder : g # t => admission'[g] = admission[g]
    BY <2>3, ExpectOne DEF Alarms!ClearCount
  <2>4. ~Alarms!Admitted(t) => admission' = admission
    BY DEF Alarms!ClearCount
  <2>5. /\ admission' \in [Holder -> Alarms!Reservation]
        /\ \A g \in Holder : g # t => admission'[g] = admission[g]
        /\ \A g \in Holder : /\ admission'[g].acquired = admission[g].acquired
                              /\ admission'[g].base = admission[g].base
                              /\ admission'[g].requireNone = admission[g].requireNone
    BY <2>3, <2>4 DEF Alarms!TypeOK
  <2> QED BY <2>1, <2>2, <2>3, <2>4, <2>5, GotoFacts
<1>3. Alarms!TypeOK'
  <2>1. updateCount \in Nat /\ updateCount' = updateCount + 1
    BY <1>2, AlarmTypeFacts
  <2>2. updateCount' \in Nat
    BY <2>1
  <2> QED BY <1>1, <1>2, <2>2 DEF Alarms!TypeOK
<1>4. /\ \A h \in Holder : Reserves(h) => h = t
      /\ \A h \in Holder : admission[h].acquired => h = t
  BY <1>2, AloneFacts DEF Inside, Section, Clearing
<1>5. Places'
  <2>1. HolderPlace'
    BY <1>1, <1>2, AlarmTypeFacts, ZenonT(40) DEF AlarmIInv, Places, HolderPlace, Clearing, Lasting
  <2>2. OtherPlace'
    <3>1. t \notin Holder => call'[t] = "release writer"
      BY <1>2 DEF Alarms!Admitted
    <3> QED BY <1>1, <1>2, <3>1 DEF AlarmIInv, Places, OtherPlace, Alarms!Reserving
  <2>3. AttemptsAreLeft'
    BY <1>1, <1>2 DEF AlarmIInv, Places, AttemptsAreLeft
  <2> QED BY <2>1, <2>2, <2>3 DEF Places
<1>6. OneWriter'
  BY <1>1, <1>2 DEF AlarmIInv, OneWriter, WriterIsTaken, WriterIsHeld, WriterIsOne,
     HasWriter, Alarms!Admitted, Clearing, Section
<1>7. ActiveIsCounted'
  <2>1. \A u \in Alarms!Thread : Counted(u)' <=> Counted(u)
    BY <1>1, <1>2 DEF Counted, Alarms!Admitted, Alarms!Declared, Alarms!Writing
  <2> QED BY <1>1, <1>2, <2>1, CountSame
<1>8. OneHolderReserves'
  <2>1. ReservedByOne'
    BY <1>1, <1>2, AlarmTypeFacts, ZenonT(40) DEF AlarmIInv, OneHolderReserves, ReservedByOne, Reserves
  <2>2. BaseIsQuiet'
    BY <1>1, <1>2, AlarmTypeFacts DEF AlarmIInv, OneHolderReserves, BaseIsQuiet, Reserves
  <2>3. OthersAreOutside'
    BY <1>1, <1>2, <1>4, HoldersAreThreads, ZenonT(40) DEF AlarmIInv, OneHolderReserves,
       OthersAreOutside, Reserves, Clearing, Section, Inside
  <2>4. SequenceTells'
    BY <1>1, <1>2, AlarmTypeFacts DEF AlarmIInv, OneHolderReserves, SequenceTells, Reserves
  <2> QED BY <2>1, <2>2, <2>3, <2>4 DEF OneHolderReserves
<1>9. Captured'
  <2>1. AdmittedIsCurrent'
    <3> SUFFICES ASSUME NEW h \in Holder, admission'[h].acquired
                 PROVE  /\ updateCount' = admission'[h].expected
                        /\ shown' = captured'[h]
                        /\ admission'[h].requireNone => ~hasAlarm' /\ call'[h] = "admitted"
                        /\ call'[h] \in Carrying => publishing'[h].delta = 1
      BY DEF AdmittedIsCurrent
    <3>1. h = t /\ admission[h].acquired /\ Alarms!Admitted(t)
      BY <1>1, <1>2, <1>4 DEF Alarms!Admitted
    <3>2. /\ updateCount = admission[h].expected /\ shown = captured[h]
          /\ admission[h].requireNone => call[h] = "admitted"
          /\ call[h] \in Carrying => publishing[h].delta = 1
      BY <3>1 DEF AlarmIInv, Captured, AdmittedIsCurrent
    <3>3. ~admission[h].requireNone
      BY <1>2, <3>1, <3>2
    <3> QED BY <1>1, <1>2, <3>1, <3>2, <3>3 DEF Carrying
  <2>2. CaptureIsKnown'
    <3> SUFFICES ASSUME NEW h \in Holder, call'[h] \notin {"idle", "superseded"}
                 PROVE  /\ admission'[h].expected <= updateCount'
                        /\ admission'[h].expected = updateCount' => captured'[h] = shown'
      BY DEF CaptureIsKnown
    <3>1. /\ admission[h].expected \in Nat /\ updateCount \in Nat
             /\ updateCount' = updateCount + 1
      BY <1>2, AlarmTypeFacts
    <3>2. CASE h = t /\ Alarms!Admitted(t)
      <4>1. updateCount = admission[h].expected /\ shown = captured[h]
        BY <3>2 DEF AlarmIInv, Captured, AdmittedIsCurrent, Alarms!Admitted
      <4>2. admission'[h].expected = admission[h].expected + 1
        BY <1>2, <3>2
      <4>3. captured'[h] = shown'
        BY <1>1, <4>1
      <4> QED BY <3>1, <4>1, <4>2, <4>3
    <3>3. CASE ~(h = t /\ Alarms!Admitted(t))
      <4>1. admission'[h].expected = admission[h].expected
        <5>1. CASE h = t
          BY <1>2, <3>3, <5>1
        <5>2. CASE h # t
          BY <1>2, <5>2
        <5> QED BY <5>1, <5>2
      <4>2. call[h] \notin {"idle", "superseded"}
        BY <1>2, HoldersAreThreads
      <4>3. admission[h].expected <= updateCount
        BY <4>2 DEF AlarmIInv, Captured, CaptureIsKnown
      <4> QED BY <3>1, <4>1, <4>3
    <3> QED BY <3>2, <3>3
  <2> QED BY <2>1, <2>2 DEF Captured
<1>10. Carried'
  BY <1>1, <1>2 DEF AlarmIInv, Carried, WaitingIsDeferred, PayloadIsCarried, CodesAreKnown,
     ImageIsShown, ImageHasCodes, Alarms!DeferredDescribesWaiting, Carrying
<1> QED BY <1>3, <1>5, <1>6, <1>7, <1>8, <1>9, <1>10 DEF AlarmIInv

(* A caller captures what is shown with the revision. *)
LEMMA CaptureCountKeeps ==
  ASSUME AlarmIInv, NEW h \in Holder, Alarms!CaptureCount(h)
  PROVE  AlarmIInv'
<1> Alarms!TypeOK
  BY DEF AlarmIInv
<1>1. UNCHANGED <<intent, alarmWriter, deferred, overflowPayload, waiting, image,
                  hasAlarm, updateCount, shown, left, after, seen, publishing>>
  BY DEF Alarms!CaptureCount, Alarms!imageVars, Alarms!deferredVars, Alarms!locals
<1>2. /\ h \in Alarms!Thread
      /\ call[h] \in {"idle", "captured", "superseded"}
         /\ call'[h] \in {"capture intent", "captured"}
      /\ \A u \in Alarms!Thread : u # h => call'[u] = call[u]
      /\ call' \in [Alarms!Thread -> Alarms!Label]
      /\ ~admission[h].acquired /\ ~admission'[h].acquired
         /\ admission'[h].expected = updateCount
      /\ \A g \in Holder : g # h => admission'[g] = admission[g]
      /\ admission' \in [Holder -> Alarms!Reservation]
      /\ captured'[h] = shown
      /\ \A g \in Holder : g # h => captured'[g] = captured[g]
      /\ captured' \in [Holder -> SUBSET Alarms!Alarm]
  <2>1. /\ h \in Alarms!Thread /\ call[h] \in {"idle", "captured", "superseded"}
           /\ ~admission[h].acquired
        /\ captured' = [captured EXCEPT ![h] = shown]
           /\ captured \in [Holder -> SUBSET Alarms!Alarm]
        /\ admission \in [Holder -> Alarms!Reservation] /\ updateCount \in Nat
           /\ shown \subseteq Alarms!Alarm
    BY DEF Alarms!CaptureCount, Alarms!Thread, AlarmIInv, Alarms!TypeOK, Places,
       HolderPlace, Lasting, Clearing
  <2>2. PICK mode \in Mode :
          /\ admission' = [admission EXCEPT ![h] =
               [Alarms!NotAdmitted EXCEPT !.expected = updateCount, !.exact = mode.exact,
                                   !.requireNone = mode.requireNone]]
          /\ Alarms!Goto(h, IF mode.exact THEN "capture intent" ELSE "captured")
    BY DEF Alarms!CaptureCount
  <2> DEFINE capture == [Alarms!NotAdmitted EXCEPT !.expected = updateCount, !.exact = mode.exact,
                                            !.requireNone = mode.requireNone]
  <2>3. mode.exact \in BOOLEAN /\ mode.requireNone \in BOOLEAN
    BY ThreadAssumption
  <2>4. Alarms!Quiet \in Alarms!Intent
    BY DEF Alarms!Quiet, Alarms!Intent
  <2>5. capture \in Alarms!Reservation /\ ~capture.acquired /\ capture.expected = updateCount
    BY <2>1, <2>3, <2>4 DEF Alarms!NotAdmitted, Alarms!Reservation
  <2>6. admission' = [admission EXCEPT ![h] = capture]
    BY <2>2
  <2> HIDE DEF capture
  <2>7. /\ admission'[h] = capture /\ admission' \in [Holder -> Alarms!Reservation]
        /\ \A g \in Holder : g # h => admission'[g] = admission[g]
    BY <2>1, <2>5, <2>6
  <2>8. PICK label \in {"capture intent", "captured"} : Alarms!Goto(h, label)
    BY <2>2
  <2>9. label \in Alarms!Label
    BY DEF Alarms!Label, Alarms!Elsewhere
  <2>10. /\ captured'[h] = shown /\ captured' \in [Holder -> SUBSET Alarms!Alarm]
         /\ \A g \in Holder : g # h => captured'[g] = captured[g]
    BY <2>1
  <2> QED BY <2>1, <2>5, <2>7, <2>8, <2>9, <2>10, GotoFacts
<1>3. Alarms!TypeOK'
  BY <1>1, <1>2 DEF Alarms!TypeOK
<1>4. Places'
  BY <1>1, <1>2, AlarmTypeFacts DEF AlarmIInv, Places, HolderPlace, OtherPlace,
     AttemptsAreLeft,
     Clearing, Lasting, Alarms!Reserving
<1>5. OneWriter'
  BY <1>1, <1>2 DEF AlarmIInv, OneWriter, WriterIsTaken, WriterIsHeld, WriterIsOne,
     HasWriter, Alarms!Admitted, Clearing, Section
<1>6. ActiveIsCounted'
  <2>1. \A u \in Alarms!Thread : Counted(u)' <=> Counted(u)
    BY <1>1, <1>2 DEF Counted, Alarms!Admitted, Alarms!Declared, Alarms!Writing,
       Alarms!Return
  <2> QED BY <1>1, <1>2, <2>1, CountSame
<1>7. OneHolderReserves'
  <2>1. ReservedByOne'
    BY <1>1, <1>2, AlarmTypeFacts DEF AlarmIInv, OneHolderReserves, ReservedByOne, Reserves
  <2>2. BaseIsQuiet'
    BY <1>1, <1>2, AlarmTypeFacts DEF AlarmIInv, OneHolderReserves, BaseIsQuiet, Reserves
  <2>3. OthersAreOutside'
    BY <1>1, <1>2, AlarmTypeFacts, ZenonT(40) DEF AlarmIInv, OneHolderReserves, OthersAreOutside,
       Reserves,
       Clearing, Section, Inside
  <2>4. SequenceTells'
    BY <1>1, <1>2, AlarmTypeFacts DEF AlarmIInv, OneHolderReserves, SequenceTells, Reserves
  <2> QED BY <2>1, <2>2, <2>3, <2>4 DEF OneHolderReserves
<1>8. Captured'
  <2>1. AdmittedIsCurrent'
    BY <1>1, <1>2, AlarmTypeFacts, ZenonT(40) DEF AlarmIInv, Captured, AdmittedIsCurrent, Carrying
  <2>2. CaptureIsKnown'
    <3> SUFFICES ASSUME NEW g \in Holder, call'[g] \notin {"idle", "superseded"}
                 PROVE  /\ admission'[g].expected <= updateCount'
                        /\ admission'[g].expected = updateCount' =>
                             captured'[g] = shown' \/ \E t \in Alarms!Thread : call'[t] \in Unfinished
      BY DEF CaptureIsKnown
    <3>1. CASE g = h
      <4>1. updateCount \in Nat /\ updateCount' = updateCount /\ shown' = shown
        BY <1>1, AlarmTypeFacts
      <4>2. admission'[g].expected = updateCount /\ captured'[g] = shown
        BY <1>2, <3>1
      <4> QED BY <4>1, <4>2
    <3>2. CASE g # h
      <4>1. /\ admission[g].expected <= updateCount
            /\ admission[g].expected = updateCount =>
                 captured[g] = shown \/ \E t \in Alarms!Thread : call[t] \in Unfinished
        BY <1>2, <3>2, HoldersAreThreads DEF AlarmIInv, Captured, CaptureIsKnown
      <4>2. (\E t \in Alarms!Thread : call[t] \in Unfinished)
            => \E t \in Alarms!Thread : call'[t] \in Unfinished
        BY <1>2 DEF Unfinished
      <4> QED BY <1>1, <1>2, <3>2, <4>1, <4>2
    <3> QED BY <3>1, <3>2
  <2> QED BY <2>1, <2>2 DEF Captured
<1>9. Carried'
  BY <1>1, <1>2, ZenonT(40) DEF AlarmIInv, Carried, WaitingIsDeferred, PayloadIsCarried, CodesAreKnown,
     ImageIsShown, ImageHasCodes, Alarms!DeferredDescribesWaiting, Carrying
<1> QED BY <1>3, <1>4, <1>5, <1>6, <1>7, <1>8, <1>9 DEF AlarmIInv

(* An exact caller captures the base of the intent word as well. *)
LEMMA CaptureIntentKeeps ==
  ASSUME AlarmIInv, NEW h \in Holder, Alarms!CaptureIntent(h)
  PROVE  AlarmIInv'
<1> Alarms!TypeOK
  BY DEF AlarmIInv
<1>1. UNCHANGED <<intent, alarmWriter, deferred, overflowPayload, waiting, image,
                  hasAlarm, updateCount, shown, left, after, seen, publishing,
                  captured>>
  BY DEF Alarms!CaptureIntent, Alarms!imageVars, Alarms!deferredVars, Alarms!locals
<1>2. /\ h \in Alarms!Thread
      /\ call[h] = "capture intent" /\ call'[h] = "captured"
      /\ \A u \in Alarms!Thread : u # h => call'[u] = call[u]
      /\ call' \in [Alarms!Thread -> Alarms!Label]
      /\ ~admission[h].acquired /\ ~admission'[h].acquired
         /\ admission'[h].expected = admission[h].expected
      /\ \A g \in Holder : g # h => admission'[g] = admission[g]
      /\ admission' \in [Holder -> Alarms!Reservation]
  <2>1. call[h] = "capture intent" /\ h \in Alarms!Thread /\ ~admission[h].acquired
    BY DEF Alarms!CaptureIntent, Alarms!At, Alarms!Thread, AlarmIInv, Places,
       HolderPlace, Lasting, Clearing
  <2>2. admission \in [Holder -> Alarms!Reservation]
        /\ admission[h] \in Alarms!Reservation /\ intent \in Alarms!Intent
    BY DEF Alarms!TypeOK
  <2> DEFINE capture == [admission[h] EXCEPT !.base = Alarms!Base(intent)]
  <2>3. Alarms!Base(intent) \in Alarms!Intent
    BY <2>2 DEF Alarms!Base, Alarms!Intent
  <2>4. /\ capture \in Alarms!Reservation /\ capture.acquired = admission[h].acquired
        /\ capture.expected = admission[h].expected
    BY <2>2, <2>3 DEF Alarms!Reservation
  <2>5. admission' = [admission EXCEPT ![h] = capture]
    BY DEF Alarms!CaptureIntent
  <2> HIDE DEF capture
  <2>6. /\ admission'[h] = capture /\ admission' \in [Holder -> Alarms!Reservation]
        /\ \A g \in Holder : g # h => admission'[g] = admission[g]
    BY <2>2, <2>4, <2>5
  <2>7. Alarms!Goto(h, "captured") /\ "captured" \in Alarms!Label
    BY DEF Alarms!CaptureIntent, Alarms!Label, Alarms!Elsewhere
  <2> QED BY <2>1, <2>4, <2>6, <2>7, GotoFacts
<1>3. Alarms!TypeOK'
  BY <1>1, <1>2 DEF Alarms!TypeOK
<1>4. Places'
  BY <1>1, <1>2, AlarmTypeFacts DEF AlarmIInv, Places, HolderPlace, OtherPlace,
     AttemptsAreLeft,
     Clearing, Lasting, Alarms!Reserving
<1>5. OneWriter'
  BY <1>1, <1>2 DEF AlarmIInv, OneWriter, WriterIsTaken, WriterIsHeld, WriterIsOne,
     HasWriter, Alarms!Admitted, Clearing, Section
<1>6. ActiveIsCounted'
  <2>1. \A u \in Alarms!Thread : Counted(u)' <=> Counted(u)
    BY <1>1, <1>2 DEF Counted, Alarms!Admitted, Alarms!Declared, Alarms!Writing,
       Alarms!Return
  <2> QED BY <1>1, <1>2, <2>1, CountSame
<1>7. OneHolderReserves'
  <2>1. ReservedByOne'
    BY <1>1, <1>2, AlarmTypeFacts DEF AlarmIInv, OneHolderReserves, ReservedByOne, Reserves
  <2>2. BaseIsQuiet'
    BY <1>1, <1>2, AlarmTypeFacts DEF AlarmIInv, OneHolderReserves, BaseIsQuiet, Reserves
  <2>3. OthersAreOutside'
    BY <1>1, <1>2, AlarmTypeFacts DEF AlarmIInv, OneHolderReserves, OthersAreOutside,
       Reserves,
       Clearing, Section, Inside
  <2>4. SequenceTells'
    BY <1>1, <1>2, AlarmTypeFacts DEF AlarmIInv, OneHolderReserves, SequenceTells, Reserves
  <2> QED BY <2>1, <2>2, <2>3, <2>4 DEF OneHolderReserves
<1>8. Captured'
  <2>1. AdmittedIsCurrent'
    BY <1>1, <1>2, AlarmTypeFacts DEF AlarmIInv, Captured, AdmittedIsCurrent, Carrying
  <2>2. CaptureIsKnown'
    BY <1>1, <1>2, AlarmTypeFacts DEF AlarmIInv, Captured, CaptureIsKnown, Unfinished
  <2> QED BY <2>1, <2>2 DEF Captured
<1>9. Carried'
  BY <1>1, <1>2 DEF AlarmIInv, Carried, WaitingIsDeferred, PayloadIsCarried, CodesAreKnown,
     ImageIsShown, ImageHasCodes, Alarms!DeferredDescribesWaiting, Carrying
<1> QED BY <1>3, <1>4, <1>5, <1>6, <1>7, <1>8, <1>9 DEF AlarmIInv

(* A caller of the admission promotes first what is deferred. *)
LEMMA AdmitCallKeeps ==
  ASSUME AlarmIInv, NEW h \in Holder, Alarms!AdmitCall(h)
  PROVE  AlarmIInv'
<1> Alarms!TypeOK
  BY DEF AlarmIInv
<1>1. UNCHANGED <<intent, alarmWriter, deferred, overflowPayload, waiting, image,
                  hasAlarm, updateCount, shown, seen, publishing, admission,
                  captured>>
  BY DEF Alarms!AdmitCall, Alarms!imageVars, Alarms!deferredVars, Alarms!holderVars
<1>2. /\ h \in Alarms!Thread
      /\ call[h] = "captured" /\ call'[h] \in {"promote", "admit look"}
      /\ \A u \in Alarms!Thread : u # h => call'[u] = call[u]
      /\ call' \in [Alarms!Thread -> Alarms!Label]
      /\ ~admission[h].acquired
      /\ after'[h] \in {after[h], "admit look"}
      /\ \A u \in Alarms!Thread : u # h => after'[u] = after[u]
      /\ \A u \in Alarms!Thread : u # h => left'[u] = left[u]
      /\ call'[h] = "promote" => left'[h] # 0
      /\ after' \in [Alarms!Thread -> Alarms!Return] /\ left' \in [Alarms!Thread -> 0 .. 2]
  <2>1. call[h] = "captured" /\ h \in Alarms!Thread /\ ~admission[h].acquired
    BY DEF Alarms!AdmitCall, Alarms!At, Alarms!Thread, AlarmIInv, Places, HolderPlace,
       Lasting, Clearing
  <2>2. {"promote", "admit look"} \subseteq Alarms!Label /\ "admit look" \in Alarms!Return
    BY DEF Alarms!Label, Alarms!Elsewhere, Alarms!Return
  <2>3. after \in [Alarms!Thread -> Alarms!Return] /\ left \in [Alarms!Thread -> 0 .. 2]
    BY DEF Alarms!TypeOK
  <2>4. CASE Alarms!HasDeferredAlarmPublication
    <3>1. /\ left' = [left EXCEPT ![h] = 2] /\ after' = [after EXCEPT ![h] = "admit look"]
          /\ Alarms!Goto(h, "promote")
      BY <2>4 DEF Alarms!AdmitCall
    <3>2. /\ left' \in [Alarms!Thread -> 0 .. 2] /\ left'[h] # 0
          /\ \A u \in Alarms!Thread : u # h => left'[u] = left[u]
      <4>1. 2 \in 0 .. 2 /\ 2 # 0
        OBVIOUS
      <4> QED BY <2>1, <2>3, <3>1, <4>1, SetFacts
    <3>3. /\ after' \in [Alarms!Thread -> Alarms!Return] /\ after'[h] = "admit look"
          /\ \A u \in Alarms!Thread : u # h => after'[u] = after[u]
      BY <2>1, <2>2, <2>3, <3>1
    <3> QED BY <2>1, <2>2, <3>1, <3>2, <3>3, GotoFacts
  <2>5. CASE ~Alarms!HasDeferredAlarmPublication
    <3>1. Alarms!Goto(h, "admit look") /\ left' = left /\ after' = after
      BY <2>5 DEF Alarms!AdmitCall
    <3> QED BY <2>1, <2>2, <2>3, <3>1, GotoFacts
  <2> QED BY <2>4, <2>5
<1>3. Alarms!TypeOK'
  BY <1>1, <1>2 DEF Alarms!TypeOK
<1>4. Places'
  BY <1>1, <1>2, AlarmTypeFacts, ZenonT(40) DEF AlarmIInv, Places, HolderPlace, OtherPlace,
     AttemptsAreLeft,
     Clearing, Lasting, Alarms!Reserving
<1>5. OneWriter'
  BY <1>1, <1>2 DEF AlarmIInv, OneWriter, WriterIsTaken, WriterIsHeld, WriterIsOne,
     HasWriter, Alarms!Admitted, Clearing, Section
<1>6. ActiveIsCounted'
  <2>1. \A u \in Alarms!Thread : Counted(u)' <=> Counted(u)
    BY <1>1, <1>2 DEF Counted, Alarms!Admitted, Alarms!Declared, Alarms!Writing,
       Alarms!Return
  <2> QED BY <1>1, <1>2, <2>1, CountSame
<1>7. OneHolderReserves'
  <2>1. ReservedByOne'
    BY <1>1, <1>2, AlarmTypeFacts DEF AlarmIInv, OneHolderReserves, ReservedByOne, Reserves
  <2>2. BaseIsQuiet'
    BY <1>1, <1>2, AlarmTypeFacts DEF AlarmIInv, OneHolderReserves, BaseIsQuiet, Reserves
  <2>3. OthersAreOutside'
    BY <1>1, <1>2, AlarmTypeFacts, ZenonT(40) DEF AlarmIInv, OneHolderReserves, OthersAreOutside,
       Reserves,
       Clearing, Section, Inside
  <2>4. SequenceTells'
    BY <1>1, <1>2, AlarmTypeFacts DEF AlarmIInv, OneHolderReserves, SequenceTells, Reserves
  <2> QED BY <2>1, <2>2, <2>3, <2>4 DEF OneHolderReserves
<1>8. Captured'
  <2>1. AdmittedIsCurrent'
    BY <1>1, <1>2, AlarmTypeFacts, ZenonT(40) DEF AlarmIInv, Captured, AdmittedIsCurrent, Carrying
  <2>2. CaptureIsKnown'
    BY <1>1, <1>2, AlarmTypeFacts DEF AlarmIInv, Captured, CaptureIsKnown, Unfinished
  <2> QED BY <2>1, <2>2 DEF Captured
<1>9. Carried'
  BY <1>1, <1>2 DEF AlarmIInv, Carried, WaitingIsDeferred, PayloadIsCarried, CodesAreKnown,
     ImageIsShown, ImageHasCodes, Alarms!DeferredDescribesWaiting, Carrying
<1> QED BY <1>3, <1>4, <1>5, <1>6, <1>7, <1>8, <1>9 DEF AlarmIInv

(* A caller whose revision is old is told so. *)
LEMMA AdmitLookKeeps ==
  ASSUME AlarmIInv, NEW h \in Holder, Alarms!AdmitLook(h)
  PROVE  AlarmIInv'
<1> Alarms!TypeOK
  BY DEF AlarmIInv
<1>1. UNCHANGED <<intent, alarmWriter, deferred, overflowPayload, waiting, image,
                  hasAlarm, updateCount, shown, left, after, seen, publishing>>
  BY DEF Alarms!AdmitLook, Alarms!Supersede, Alarms!imageVars, Alarms!deferredVars,
     Alarms!locals, Alarms!holderVars
<1>2. /\ h \in Alarms!Thread
      /\ call[h] = "admit look" /\ call'[h] \in {"superseded", "admit state"}
      /\ \A u \in Alarms!Thread : u # h => call'[u] = call[u]
      /\ call' \in [Alarms!Thread -> Alarms!Label]
      /\ ~admission[h].acquired /\ ~admission'[h].acquired
      /\ call'[h] # "superseded" => admission'[h].expected = admission[h].expected
         /\ captured' = captured
      /\ \A g \in Holder : g # h => admission'[g] = admission[g]
      /\ admission' \in [Holder -> Alarms!Reservation]
      /\ \A g \in Holder : g # h => captured'[g] = captured[g]
      /\ captured' \in [Holder -> SUBSET Alarms!Alarm]
  <2>1. call[h] = "admit look" /\ h \in Alarms!Thread /\ ~admission[h].acquired
    BY DEF Alarms!AdmitLook, Alarms!At, Alarms!Thread, AlarmIInv, Places, HolderPlace,
       Lasting, Clearing
  <2>2. admission \in [Holder -> Alarms!Reservation]
        /\ captured \in [Holder -> SUBSET Alarms!Alarm]
    BY DEF Alarms!TypeOK
  <2>3. CASE Alarms!Superseded(h)
    <3>1. Alarms!Supersede(h)
      BY <2>3 DEF Alarms!AdmitLook
    <3> QED BY <2>1, <3>1, SupersedeFacts
  <2>4. CASE ~Alarms!Superseded(h)
    <3>1. Alarms!Goto(h, "admit state") /\ admission' = admission /\ captured' = captured
      BY <2>4 DEF Alarms!AdmitLook, Alarms!holderVars
    <3>2. "admit state" \in Alarms!Label
      BY DEF Alarms!Label, Alarms!Elsewhere
    <3> QED BY <2>1, <2>2, <3>1, <3>2, GotoFacts
  <2> QED BY <2>3, <2>4
<1>3. Alarms!TypeOK'
  BY <1>1, <1>2 DEF Alarms!TypeOK
<1>4. Places'
  BY <1>1, <1>2, AlarmTypeFacts DEF AlarmIInv, Places, HolderPlace, OtherPlace,
     AttemptsAreLeft,
     Clearing, Lasting, Alarms!Reserving
<1>5. OneWriter'
  BY <1>1, <1>2 DEF AlarmIInv, OneWriter, WriterIsTaken, WriterIsHeld, WriterIsOne,
     HasWriter, Alarms!Admitted, Clearing, Section
<1>6. ActiveIsCounted'
  <2>1. \A u \in Alarms!Thread : Counted(u)' <=> Counted(u)
    BY <1>1, <1>2 DEF Counted, Alarms!Admitted, Alarms!Declared, Alarms!Writing,
       Alarms!Return
  <2> QED BY <1>1, <1>2, <2>1, CountSame
<1>7. OneHolderReserves'
  <2>1. ReservedByOne'
    BY <1>1, <1>2, AlarmTypeFacts DEF AlarmIInv, OneHolderReserves, ReservedByOne, Reserves
  <2>2. BaseIsQuiet'
    BY <1>1, <1>2, AlarmTypeFacts DEF AlarmIInv, OneHolderReserves, BaseIsQuiet, Reserves
  <2>3. OthersAreOutside'
    BY <1>1, <1>2, AlarmTypeFacts, ZenonT(40) DEF AlarmIInv, OneHolderReserves, OthersAreOutside,
       Reserves,
       Clearing, Section, Inside
  <2>4. SequenceTells'
    BY <1>1, <1>2, AlarmTypeFacts DEF AlarmIInv, OneHolderReserves, SequenceTells, Reserves
  <2> QED BY <2>1, <2>2, <2>3, <2>4 DEF OneHolderReserves
<1>8. Captured'
  <2>1. AdmittedIsCurrent'
    <3> SUFFICES ASSUME NEW g \in Holder, admission'[g].acquired
                 PROVE  /\ updateCount' = admission'[g].expected
                        /\ shown' = captured'[g]
                        /\ admission'[g].requireNone => ~hasAlarm' /\ call'[g] = "admitted"
                        /\ call'[g] \in Carrying => publishing'[g].delta = 1
      BY DEF AdmittedIsCurrent
    <3>1. g # h /\ admission'[g] = admission[g] /\ call'[g] = call[g]
          /\ captured'[g] = captured[g]
      BY <1>2, HoldersAreThreads
    <3> QED BY <1>1, <3>1 DEF AlarmIInv, Captured, AdmittedIsCurrent
  <2>2. CaptureIsKnown'
    BY <1>1, <1>2, AlarmTypeFacts DEF AlarmIInv, Captured, CaptureIsKnown, Unfinished
  <2> QED BY <2>1, <2>2 DEF Captured
<1>9. Carried'
  BY <1>1, <1>2, ZenonT(40) DEF AlarmIInv, Carried, WaitingIsDeferred, PayloadIsCarried, CodesAreKnown,
     ImageIsShown, ImageHasCodes, Alarms!DeferredDescribesWaiting, Carrying
<1> QED BY <1>3, <1>4, <1>5, <1>6, <1>7, <1>8, <1>9 DEF AlarmIInv

(* The state to be reserved is the one found here. *)
LEMMA AdmitStateKeeps ==
  ASSUME AlarmIInv, NEW h \in Holder, Alarms!AdmitState(h)
  PROVE  AlarmIInv'
<1> Alarms!TypeOK
  BY DEF AlarmIInv
<1>1. UNCHANGED <<intent, alarmWriter, deferred, overflowPayload, waiting, image,
                  hasAlarm, updateCount, shown, left, after, seen, publishing>>
  BY DEF Alarms!AdmitState, Alarms!Busy, Alarms!Supersede, Alarms!imageVars,
     Alarms!deferredVars, Alarms!locals
<1>2. /\ h \in Alarms!Thread
      /\ call[h] = "admit state" /\ call'[h] \in {"superseded", "captured", "admit quiet"}
      /\ \A u \in Alarms!Thread : u # h => call'[u] = call[u]
      /\ call' \in [Alarms!Thread -> Alarms!Label]
      /\ ~admission[h].acquired /\ ~admission'[h].acquired
      /\ call'[h] # "superseded" => admission'[h].expected = admission[h].expected
         /\ captured' = captured
      /\ \A g \in Holder : g # h => admission'[g] = admission[g]
      /\ admission' \in [Holder -> Alarms!Reservation]
      /\ \A g \in Holder : g # h => captured'[g] = captured[g]
      /\ captured' \in [Holder -> SUBSET Alarms!Alarm]
  <2>1. call[h] = "admit state" /\ h \in Alarms!Thread /\ ~admission[h].acquired
    BY DEF Alarms!AdmitState, Alarms!At, Alarms!Thread, AlarmIInv, Places, HolderPlace,
       Lasting, Clearing
  <2>2. admission \in [Holder -> Alarms!Reservation]
        /\ captured \in [Holder -> SUBSET Alarms!Alarm]
    BY DEF Alarms!TypeOK
  <2>3. CASE Alarms!Drifted(h)
    <3>1. Alarms!Supersede(h)
      BY <2>3 DEF Alarms!AdmitState
    <3> QED BY <2>1, <3>1, SupersedeFacts
  <2>4. CASE ~Alarms!Drifted(h) /\ admission[h].exact /\ intent.reserved
    <3>1. Alarms!Busy(h)
      BY <2>4 DEF Alarms!AdmitState
    <3> QED BY <2>1, <2>2, <3>1, BusyFacts
  <2>5. CASE ~Alarms!Drifted(h) /\ ~(admission[h].exact /\ intent.reserved)
    <3> DEFINE with == [admission[h] EXCEPT !.base = intent]
    <3>1. /\ admission' = [admission EXCEPT ![h] = with] /\ Alarms!Goto(h, "admit quiet")
          /\ captured' = captured
      BY <2>5 DEF Alarms!AdmitState
    <3>2. admission[h] \in Alarms!Reservation /\ intent \in Alarms!Intent
      BY DEF Alarms!TypeOK
    <3>3. /\ with \in Alarms!Reservation /\ with.acquired = admission[h].acquired
          /\ with.expected = admission[h].expected
      BY <3>2 DEF Alarms!Reservation
    <3> HIDE DEF with
    <3>4. /\ admission'[h] = with /\ admission' \in [Holder -> Alarms!Reservation]
          /\ \A g \in Holder : g # h => admission'[g] = admission[g]
      BY <2>2, <3>1, <3>3
    <3>5. "admit quiet" \in Alarms!Label
      BY DEF Alarms!Label, Alarms!Elsewhere
    <3> QED BY <2>1, <2>2, <3>1, <3>3, <3>4, <3>5, GotoFacts
  <2> QED BY <2>3, <2>4, <2>5
<1>3. Alarms!TypeOK'
  BY <1>1, <1>2 DEF Alarms!TypeOK
<1>4. Places'
  BY <1>1, <1>2, AlarmTypeFacts DEF AlarmIInv, Places, HolderPlace, OtherPlace,
     AttemptsAreLeft,
     Clearing, Lasting, Alarms!Reserving
<1>5. OneWriter'
  BY <1>1, <1>2 DEF AlarmIInv, OneWriter, WriterIsTaken, WriterIsHeld, WriterIsOne,
     HasWriter, Alarms!Admitted, Clearing, Section
<1>6. ActiveIsCounted'
  <2>1. \A u \in Alarms!Thread : Counted(u)' <=> Counted(u)
    BY <1>1, <1>2 DEF Counted, Alarms!Admitted, Alarms!Declared, Alarms!Writing,
       Alarms!Return
  <2> QED BY <1>1, <1>2, <2>1, CountSame
<1>7. OneHolderReserves'
  <2>1. ReservedByOne'
    BY <1>1, <1>2, AlarmTypeFacts DEF AlarmIInv, OneHolderReserves, ReservedByOne, Reserves
  <2>2. BaseIsQuiet'
    BY <1>1, <1>2, AlarmTypeFacts DEF AlarmIInv, OneHolderReserves, BaseIsQuiet, Reserves
  <2>3. OthersAreOutside'
    BY <1>1, <1>2, AlarmTypeFacts, ZenonT(40) DEF AlarmIInv, OneHolderReserves, OthersAreOutside,
       Reserves,
       Clearing, Section, Inside
  <2>4. SequenceTells'
    BY <1>1, <1>2, AlarmTypeFacts DEF AlarmIInv, OneHolderReserves, SequenceTells, Reserves
  <2> QED BY <2>1, <2>2, <2>3, <2>4 DEF OneHolderReserves
<1>8. Captured'
  <2>1. AdmittedIsCurrent'
    <3> SUFFICES ASSUME NEW g \in Holder, admission'[g].acquired
                 PROVE  /\ updateCount' = admission'[g].expected
                        /\ shown' = captured'[g]
                        /\ admission'[g].requireNone => ~hasAlarm' /\ call'[g] = "admitted"
                        /\ call'[g] \in Carrying => publishing'[g].delta = 1
      BY DEF AdmittedIsCurrent
    <3>1. g # h /\ admission'[g] = admission[g] /\ call'[g] = call[g]
          /\ captured'[g] = captured[g]
      BY <1>2, HoldersAreThreads
    <3> QED BY <1>1, <3>1 DEF AlarmIInv, Captured, AdmittedIsCurrent
  <2>2. CaptureIsKnown'
    BY <1>1, <1>2, AlarmTypeFacts DEF AlarmIInv, Captured, CaptureIsKnown, Unfinished
  <2> QED BY <2>1, <2>2 DEF Captured
<1>9. Carried'
  BY <1>1, <1>2, ZenonT(40) DEF AlarmIInv, Carried, WaitingIsDeferred, PayloadIsCarried, CodesAreKnown,
     ImageIsShown, ImageHasCodes, Alarms!DeferredDescribesWaiting, Carrying
<1> QED BY <1>3, <1>4, <1>5, <1>6, <1>7, <1>8, <1>9 DEF AlarmIInv

(* Only a quiet state is reserved. *)
LEMMA AdmitQuietKeeps ==
  ASSUME AlarmIInv, NEW h \in Holder, Alarms!AdmitQuiet(h)
  PROVE  AlarmIInv'
<1> Alarms!TypeOK
  BY DEF AlarmIInv
<1>1. UNCHANGED <<intent, alarmWriter, deferred, overflowPayload, waiting, image,
                  hasAlarm, updateCount, shown, left, after, seen, publishing>>
  BY DEF Alarms!AdmitQuiet, Alarms!Busy, Alarms!Supersede, Alarms!imageVars,
     Alarms!deferredVars, Alarms!locals, Alarms!holderVars
<1>2. /\ h \in Alarms!Thread
      /\ call[h] = "admit quiet" /\ call'[h] \in {"superseded", "captured", "admit reserve"}
      /\ \A u \in Alarms!Thread : u # h => call'[u] = call[u]
      /\ call' \in [Alarms!Thread -> Alarms!Label]
      /\ ~admission[h].acquired /\ ~admission'[h].acquired
      /\ call'[h] # "superseded" => admission'[h].expected = admission[h].expected
         /\ captured' = captured
      /\ \A g \in Holder : g # h => admission'[g] = admission[g]
      /\ admission' \in [Holder -> Alarms!Reservation]
      /\ \A g \in Holder : g # h => captured'[g] = captured[g]
      /\ captured' \in [Holder -> SUBSET Alarms!Alarm]
      /\ call'[h] = "admit reserve" =>
           /\ admission'[h].base.active = 0 /\ ~admission'[h].base.reserved
  <2>1. call[h] = "admit quiet" /\ h \in Alarms!Thread /\ ~admission[h].acquired
    BY DEF Alarms!AdmitQuiet, Alarms!At, Alarms!Thread, AlarmIInv, Places, HolderPlace,
       Lasting, Clearing
  <2>2. admission \in [Holder -> Alarms!Reservation]
        /\ captured \in [Holder -> SUBSET Alarms!Alarm]
    BY DEF Alarms!TypeOK
  <2>3. \/ Alarms!Supersede(h)
        \/ Alarms!Busy(h)
        \/ /\ Alarms!Goto(h, "admit reserve") /\ admission' = admission /\ captured' = captured
           /\ admission[h].base.active = 0 /\ ~admission[h].base.reserved
    BY DEF Alarms!AdmitQuiet, Alarms!holderVars
  <2>4. CASE Alarms!Supersede(h)
    BY <2>1, <2>4, SupersedeFacts
  <2>5. CASE Alarms!Busy(h)
    BY <2>1, <2>2, <2>5, BusyFacts
  <2>6. CASE /\ Alarms!Goto(h, "admit reserve") /\ admission' = admission
        /\ captured' = captured
             /\ admission[h].base.active = 0 /\ ~admission[h].base.reserved
    <3>1. "admit reserve" \in Alarms!Label
      BY DEF Alarms!Label, Alarms!Elsewhere
    <3> QED BY <2>1, <2>2, <2>6, <3>1, GotoFacts
  <2> QED BY <2>3, <2>4, <2>5, <2>6
<1>3. Alarms!TypeOK'
  BY <1>1, <1>2 DEF Alarms!TypeOK
<1>4. Places'
  BY <1>1, <1>2, AlarmTypeFacts DEF AlarmIInv, Places, HolderPlace, OtherPlace,
     AttemptsAreLeft,
     Clearing, Lasting, Alarms!Reserving
<1>5. OneWriter'
  BY <1>1, <1>2 DEF AlarmIInv, OneWriter, WriterIsTaken, WriterIsHeld, WriterIsOne,
     HasWriter, Alarms!Admitted, Clearing, Section
<1>6. ActiveIsCounted'
  <2>1. \A u \in Alarms!Thread : Counted(u)' <=> Counted(u)
    BY <1>1, <1>2 DEF Counted, Alarms!Admitted, Alarms!Declared, Alarms!Writing,
       Alarms!Return
  <2> QED BY <1>1, <1>2, <2>1, CountSame
<1>7. OneHolderReserves'
  <2>1. ReservedByOne'
    BY <1>1, <1>2, AlarmTypeFacts DEF AlarmIInv, OneHolderReserves, ReservedByOne, Reserves
  <2>2. BaseIsQuiet'
    BY <1>1, <1>2, AlarmTypeFacts DEF AlarmIInv, OneHolderReserves, BaseIsQuiet, Reserves
  <2>3. OthersAreOutside'
    BY <1>1, <1>2, AlarmTypeFacts, ZenonT(40) DEF AlarmIInv, OneHolderReserves, OthersAreOutside,
       Reserves,
       Clearing, Section, Inside
  <2>4. SequenceTells'
    BY <1>1, <1>2, AlarmTypeFacts DEF AlarmIInv, OneHolderReserves, SequenceTells, Reserves
  <2> QED BY <2>1, <2>2, <2>3, <2>4 DEF OneHolderReserves
<1>8. Captured'
  <2>1. AdmittedIsCurrent'
    <3> SUFFICES ASSUME NEW g \in Holder, admission'[g].acquired
                 PROVE  /\ updateCount' = admission'[g].expected
                        /\ shown' = captured'[g]
                        /\ admission'[g].requireNone => ~hasAlarm' /\ call'[g] = "admitted"
                        /\ call'[g] \in Carrying => publishing'[g].delta = 1
      BY DEF AdmittedIsCurrent
    <3>1. g # h /\ admission'[g] = admission[g] /\ call'[g] = call[g]
          /\ captured'[g] = captured[g]
      BY <1>2, HoldersAreThreads
    <3> QED BY <1>1, <3>1 DEF AlarmIInv, Captured, AdmittedIsCurrent
  <2>2. CaptureIsKnown'
    BY <1>1, <1>2, AlarmTypeFacts DEF AlarmIInv, Captured, CaptureIsKnown, Unfinished
  <2> QED BY <2>1, <2>2 DEF Captured
<1>9. Carried'
  BY <1>1, <1>2, ZenonT(40) DEF AlarmIInv, Carried, WaitingIsDeferred, PayloadIsCarried, CodesAreKnown,
     ImageIsShown, ImageHasCodes, Alarms!DeferredDescribesWaiting, Carrying
<1> QED BY <1>3, <1>4, <1>5, <1>6, <1>7, <1>8, <1>9 DEF AlarmIInv

(* When the word is reserved nobody is in a call that may write. *)
LEMMA AdmitReserveKeeps ==
  ASSUME AlarmIInv, NEW h \in Holder, Alarms!AdmitReserve(h)
  PROVE  AlarmIInv'
<1> Alarms!TypeOK
  BY DEF AlarmIInv
<1>1. UNCHANGED <<alarmWriter, deferred, overflowPayload, waiting, image, hasAlarm,
                  updateCount, shown, left, after, seen, publishing>>
  BY DEF Alarms!AdmitReserve, Alarms!Busy, Alarms!Supersede, Alarms!imageVars,
     Alarms!deferredVars, Alarms!locals, Alarms!holderVars
<1>2. /\ h \in Alarms!Thread
      /\ call[h] = "admit reserve" /\ call'[h] \in {"superseded", "captured", "admit verify"}
      /\ \A u \in Alarms!Thread : u # h => call'[u] = call[u]
      /\ call' \in [Alarms!Thread -> Alarms!Label]
      /\ ~admission[h].acquired /\ ~admission'[h].acquired
      /\ call'[h] # "superseded" => admission'[h].expected = admission[h].expected
         /\ captured' = captured
      /\ \A g \in Holder : g # h => admission'[g] = admission[g]
      /\ admission' \in [Holder -> Alarms!Reservation]
      /\ \A g \in Holder : g # h => captured'[g] = captured[g]
      /\ captured' \in [Holder -> SUBSET Alarms!Alarm]
      /\ intent' \in Alarms!Intent /\ intent'.active = intent.active
      /\ call'[h] # "admit verify" => intent' = intent
      /\ call'[h] = "admit verify" => /\ ~intent.reserved /\ intent'.reserved
                                         /\ intent.active = 0
                                      /\ admission' = admission
                                      /\ intent'.seq = admission[h].base.seq
                                      /\ \A u \in Alarms!Thread : call[u] \notin Inside
  <2>1. call[h] = "admit reserve" /\ h \in Alarms!Thread /\ ~admission[h].acquired
    BY DEF Alarms!AdmitReserve, Alarms!At, Alarms!Thread, AlarmIInv, Places,
       HolderPlace, Lasting, Clearing
  <2>2. admission \in [Holder -> Alarms!Reservation]
        /\ captured \in [Holder -> SUBSET Alarms!Alarm]
    BY DEF Alarms!TypeOK
  <2>3. CASE intent = admission[h].base
    <3>1. /\ intent' = Alarms!Reserved(h) /\ Alarms!Goto(h, "admit verify")
             /\ "admit verify" \in Alarms!Label
          /\ admission' = admission /\ captured' = captured
      BY <2>3 DEF Alarms!AdmitReserve, Alarms!holderVars, Alarms!Label, Alarms!Reserving
    <3>2. /\ intent' \in Alarms!Intent /\ intent'.reserved
          /\ intent'.seq = admission[h].base.seq /\ intent'.active = admission[h].base.active
      BY <3>1, ReservedFacts
    <3>3. admission[h].base.active = 0 /\ ~admission[h].base.reserved
      BY <2>1 DEF AlarmIInv, OneHolderReserves, BaseIsQuiet
    <3>4. ~intent.reserved /\ intent.active = 0
      BY <2>3, <3>3
    <3>5. ASSUME NEW u \in Alarms!Thread PROVE call[u] \notin Inside
      <4>1. ~Counted(u)
        BY <3>4, CountedIsActive
      <4>2. ~Alarms!Admitted(u)
        BY <3>4 DEF AlarmIInv, OneHolderReserves, ReservedByOne, Reserves, Alarms!Admitted
      <4>3. call[u] # "under reserve"
        BY <4>2 DEF AlarmIInv, Places, HolderPlace, OtherPlace, Alarms!Admitted,
           Alarms!Reserving
      <4> QED BY <4>1, <4>2, <4>3 DEF Counted, Inside, Section, Clearing,
         Alarms!Declared, Alarms!Writing
    <3> QED BY <2>1, <2>2, <2>3, <3>1, <3>2, <3>3, <3>4, <3>5, GotoFacts
  <2>4. CASE intent # admission[h].base
    <3>1. intent' = intent /\ (Alarms!Supersede(h) \/ Alarms!Busy(h))
      BY <2>4 DEF Alarms!AdmitReserve
    <3>2. intent' \in Alarms!Intent /\ intent'.active = intent.active
      BY <3>1 DEF Alarms!TypeOK
    <3>3. CASE Alarms!Supersede(h)
      BY <2>1, <3>1, <3>2, <3>3, SupersedeFacts
    <3>4. CASE Alarms!Busy(h)
      BY <2>1, <2>2, <3>1, <3>2, <3>4, BusyFacts
    <3> QED BY <3>1, <3>3, <3>4
  <2> QED BY <2>3, <2>4
<1>3. Alarms!TypeOK'
  BY <1>1, <1>2 DEF Alarms!TypeOK
<1>4. Places'
  <2>1. HolderPlace'
    BY <1>1, <1>2, AlarmTypeFacts DEF AlarmIInv, Places, HolderPlace, Clearing, Lasting
  <2>2. OtherPlace'
    BY <1>1, <1>2 DEF AlarmIInv, Places, OtherPlace, Alarms!Reserving
  <2>3. AttemptsAreLeft'
    BY <1>1, <1>2 DEF AlarmIInv, Places, AttemptsAreLeft
  <2> QED BY <2>1, <2>2, <2>3 DEF Places
<1>5. OneWriter'
  BY <1>1, <1>2, ZenonT(40) DEF AlarmIInv, OneWriter, WriterIsTaken, WriterIsHeld, WriterIsOne,
     HasWriter, Alarms!Admitted, Clearing, Section
<1>6. ActiveIsCounted'
  <2>1. \A u \in Alarms!Thread : Counted(u)' <=> Counted(u)
    BY <1>1, <1>2 DEF Counted, Alarms!Admitted, Alarms!Declared, Alarms!Writing,
       Alarms!Return
  <2> QED BY <1>1, <1>2, <2>1, CountSame
<1>7. OneHolderReserves'
  <2>1. ReservedByOne'
    <3>1. CASE call'[h] = "admit verify"
      <4>1. \A g \in Holder : ~Reserves(g)
        BY <1>2, <3>1 DEF AlarmIInv, OneHolderReserves, ReservedByOne
      <4>2. \A g \in Holder : Reserves(g)' => g = h
        BY <1>1, <1>2, <3>1, <4>1, HoldersAreThreads DEF Reserves
      <4> QED BY <1>2, <3>1, <4>2 DEF ReservedByOne
    <3>2. CASE call'[h] # "admit verify"
      <4>1. \A g \in Holder : Reserves(g)' => Reserves(g)
        BY <1>1, <1>2, <3>2, HoldersAreThreads DEF Reserves
      <4> QED BY <1>2, <3>2, <4>1 DEF AlarmIInv, OneHolderReserves, ReservedByOne
    <3> QED BY <3>1, <3>2
  <2>2. BaseIsQuiet'
    BY <1>1, <1>2, AlarmTypeFacts DEF AlarmIInv, OneHolderReserves, BaseIsQuiet, Reserves
  <2>3. OthersAreOutside'
    BY <1>1, <1>2, AlarmTypeFacts, ZenonT(40) DEF AlarmIInv, OneHolderReserves, OthersAreOutside,
       Reserves,
       Clearing, Section, Inside
  <2>4. SequenceTells'
    <3> SUFFICES ASSUME NEW g \in Holder, Reserves(g)'
                 PROVE  /\ admission'[g].base.seq <= intent'.seq
                        /\ intent'.seq = admission'[g].base.seq =>
                             /\ intent'.active = 0
                             /\ admission'[g].acquired => deferred' = Alarms!Nothing
      BY DEF SequenceTells
    <3>1. CASE call'[h] = "admit verify"
      <4>1. g = h
        BY <1>1, <1>2, <3>1, HoldersAreThreads DEF AlarmIInv, OneHolderReserves,
           ReservedByOne, Reserves
      <4>2. intent'.seq = admission'[h].base.seq /\ intent'.active = 0
            /\ ~admission'[h].acquired
        BY <1>2, <3>1
      <4>3. admission'[g].base.seq \in Nat
        BY <1>2, <3>1, AlarmTypeFacts
      <4> QED BY <4>1, <4>2, <4>3
    <3>2. CASE call'[h] # "admit verify"
      <4>1. g # h /\ Reserves(g) /\ admission'[g] = admission[g]
        BY <1>1, <1>2, <3>2, HoldersAreThreads DEF Reserves
      <4> QED BY <1>1, <1>2, <3>2, <4>1 DEF AlarmIInv, OneHolderReserves, SequenceTells
    <3> QED BY <3>1, <3>2
  <2> QED BY <2>1, <2>2, <2>3, <2>4 DEF OneHolderReserves
<1>8. Captured'
  <2>1. AdmittedIsCurrent'
    <3> SUFFICES ASSUME NEW g \in Holder, admission'[g].acquired
                 PROVE  /\ updateCount' = admission'[g].expected
                        /\ shown' = captured'[g]
                        /\ admission'[g].requireNone => ~hasAlarm' /\ call'[g] = "admitted"
                        /\ call'[g] \in Carrying => publishing'[g].delta = 1
      BY DEF AdmittedIsCurrent
    <3>1. g # h /\ admission'[g] = admission[g] /\ call'[g] = call[g]
          /\ captured'[g] = captured[g]
      BY <1>2, HoldersAreThreads
    <3> QED BY <1>1, <3>1 DEF AlarmIInv, Captured, AdmittedIsCurrent
  <2>2. CaptureIsKnown'
    BY <1>1, <1>2, AlarmTypeFacts DEF AlarmIInv, Captured, CaptureIsKnown, Unfinished
  <2> QED BY <2>1, <2>2 DEF Captured
<1>9. Carried'
  BY <1>1, <1>2, AlarmTypeFacts, ZenonT(40) DEF AlarmIInv, Carried, WaitingIsDeferred, PayloadIsCarried,
     CodesAreKnown, ImageIsShown, ImageHasCodes, Alarms!DeferredDescribesWaiting, Carrying
<1> QED BY <1>3, <1>4, <1>5, <1>6, <1>7, <1>8, <1>9 DEF AlarmIInv

(* Nobody is half-way through the image when the holder looks again, so    *)
(* the image is the one captured.                                          *)
LEMMA AdmitVerifyKeeps ==
  ASSUME AlarmIInv, NEW h \in Holder, Alarms!AdmitVerify(h)
  PROVE  AlarmIInv'
<1> Alarms!TypeOK
  BY DEF AlarmIInv
<1>1. UNCHANGED <<intent, alarmWriter, deferred, overflowPayload, waiting, image,
                  hasAlarm, updateCount, shown, left, after, seen, publishing,
                  captured>>
  BY DEF Alarms!AdmitVerify, Alarms!imageVars, Alarms!deferredVars, Alarms!locals
<1>2. /\ h \in Alarms!Thread
      /\ call[h] = "admit verify"
      /\ \A u \in Alarms!Thread : u # h => call'[u] = call[u]
      /\ call' \in [Alarms!Thread -> Alarms!Label]
      /\ \/ /\ call'[h] = "admitted" /\ admission'[h].acquired
            /\ updateCount = admission[h].expected /\ shown = captured[h]
               /\ deferred = Alarms!Nothing
            /\ admission[h].requireNone => ~hasAlarm
         \/ call'[h] = "back out" /\ admission' = admission
      /\ ~admission[h].acquired /\ admission'[h].base = admission[h].base
      /\ admission'[h].expected = admission[h].expected
      /\ admission'[h].requireNone = admission[h].requireNone
      /\ \A g \in Holder : g # h => admission'[g] = admission[g]
      /\ admission' \in [Holder -> Alarms!Reservation]
  <2>1. call[h] = "admit verify" /\ h \in Alarms!Thread /\ ~admission[h].acquired
    BY DEF Alarms!AdmitVerify, Alarms!At, Alarms!Thread, AlarmIInv, Places,
       HolderPlace, Lasting, Clearing
  <2>2. admission \in [Holder -> Alarms!Reservation] /\ admission[h] \in Alarms!Reservation
    BY DEF Alarms!TypeOK
  <2>3. CASE Alarms!Current(h)
    <3> DEFINE with == [admission[h] EXCEPT !.acquired = TRUE]
    <3>1. admission' = [admission EXCEPT ![h] = with] /\ Alarms!Goto(h, "admitted")
      BY <2>3 DEF Alarms!AdmitVerify
    <3>2. /\ with \in Alarms!Reservation /\ with.acquired /\ with.base = admission[h].base
          /\ with.expected = admission[h].expected
          /\ with.requireNone = admission[h].requireNone
      BY <2>2 DEF Alarms!Reservation
    <3> HIDE DEF with
    <3>3. /\ admission'[h] = with /\ admission' \in [Holder -> Alarms!Reservation]
          /\ \A g \in Holder : g # h => admission'[g] = admission[g]
      BY <2>2, <3>1, <3>2
    <3>4. /\ updateCount = admission[h].expected /\ deferred = Alarms!Nothing
          /\ admission[h].requireNone => ~hasAlarm
      BY <2>3 DEF Alarms!Current, Alarms!Undisturbed, Alarms!HasDeferredAlarmPublication
    <3>5. \A u \in Alarms!Thread : call[u] \notin Unfinished
      BY <2>1 DEF AlarmIInv, OneHolderReserves, OthersAreOutside, Reserves, Inside, Section,
         Clearing, Unfinished
    <3>6. shown = captured[h]
      BY <2>1, <3>4, <3>5 DEF AlarmIInv, Captured, CaptureIsKnown
    <3>7. "admitted" \in Alarms!Label
      BY DEF Alarms!Label, Alarms!Reserving
    <3> QED BY <2>1, <3>1, <3>2, <3>3, <3>4, <3>6, <3>7, GotoFacts
  <2>4. CASE ~Alarms!Current(h)
    <3>1. Alarms!Goto(h, "back out") /\ admission' = admission /\ "back out" \in Alarms!Label
      BY <2>4 DEF Alarms!AdmitVerify, Alarms!Label, Alarms!Reserving
    <3> QED BY <2>1, <2>2, <3>1, GotoFacts
  <2> QED BY <2>3, <2>4
<1>3. Alarms!TypeOK'
  BY <1>1, <1>2 DEF Alarms!TypeOK
<1>4. Places'
  BY <1>1, <1>2, AlarmTypeFacts, ZenonT(40) DEF AlarmIInv, Places, HolderPlace, OtherPlace,
     AttemptsAreLeft,
     Clearing, Lasting, Alarms!Reserving
<1>5. OneWriter'
  BY <1>1, <1>2 DEF AlarmIInv, OneWriter, WriterIsTaken, WriterIsHeld, WriterIsOne,
     HasWriter, Alarms!Admitted, Clearing, Section
<1>6. ActiveIsCounted'
  <2>1. \A u \in Alarms!Thread : Counted(u)' <=> Counted(u)
    BY <1>1, <1>2 DEF Counted, Alarms!Admitted, Alarms!Declared, Alarms!Writing,
       Alarms!Return
  <2> QED BY <1>1, <1>2, <2>1, CountSame
<1>7. OneHolderReserves'
  <2>1. ReservedByOne'
    BY <1>1, <1>2, AlarmTypeFacts DEF AlarmIInv, OneHolderReserves, ReservedByOne, Reserves
  <2>2. BaseIsQuiet'
    BY <1>1, <1>2, AlarmTypeFacts, ZenonT(40) DEF AlarmIInv, OneHolderReserves, BaseIsQuiet, Reserves
  <2>3. OthersAreOutside'
    BY <1>1, <1>2 DEF AlarmIInv, OneHolderReserves, OthersAreOutside, Reserves, Clearing,
       Section, Inside
  <2>4. SequenceTells'
    BY <1>1, <1>2, AlarmTypeFacts DEF AlarmIInv, OneHolderReserves, SequenceTells, Reserves
  <2> QED BY <2>1, <2>2, <2>3, <2>4 DEF OneHolderReserves
<1>8. Captured'
  <2>1. AdmittedIsCurrent'
    BY <1>1, <1>2, AlarmTypeFacts, ZenonT(40) DEF AlarmIInv, Captured, AdmittedIsCurrent, Carrying
  <2>2. CaptureIsKnown'
    BY <1>1, <1>2, AlarmTypeFacts DEF AlarmIInv, Captured, CaptureIsKnown, Unfinished
  <2> QED BY <2>1, <2>2 DEF Captured
<1>9. Carried'
  BY <1>1, <1>2 DEF AlarmIInv, Carried, WaitingIsDeferred, PayloadIsCarried, CodesAreKnown,
     ImageIsShown, ImageHasCodes, Alarms!DeferredDescribesWaiting, Carrying
<1> QED BY <1>3, <1>4, <1>5, <1>6, <1>7, <1>8, <1>9 DEF AlarmIInv

(* A holder that backs out gives back the reservation alone. *)
LEMMA BackOutKeeps ==
  ASSUME AlarmIInv, NEW h \in Holder, Alarms!BackOut(h)
  PROVE  AlarmIInv'
<1> Alarms!TypeOK
  BY DEF AlarmIInv
<1>1. UNCHANGED <<alarmWriter, deferred, overflowPayload, waiting, image, hasAlarm,
                  updateCount, shown, seen, publishing, admission, captured>>
  BY DEF Alarms!BackOut, Alarms!ReleaseReservation, Alarms!imageVars,
     Alarms!deferredVars, Alarms!holderVars
<1>2. /\ h \in Alarms!Thread
      /\ call[h] = "back out" /\ call'[h] = "promote"
      /\ \A u \in Alarms!Thread : u # h => call'[u] = call[u]
      /\ call' \in [Alarms!Thread -> Alarms!Label]
      /\ Reserves(h)
      /\ intent' \in Alarms!Intent /\ ~intent'.reserved
      /\ intent'.seq = intent.seq /\ intent'.active = intent.active
      /\ after'[h] = "admit answer"
      /\ \A u \in Alarms!Thread : u # h => after'[u] = after[u]
      /\ \A u \in Alarms!Thread : u # h => left'[u] = left[u]
      /\ left'[h] # 0
      /\ after' \in [Alarms!Thread -> Alarms!Return] /\ left' \in [Alarms!Thread -> 0 .. 2]
      /\ ~admission[h].acquired
  <2>1. call[h] = "back out" /\ h \in Alarms!Thread
    BY DEF Alarms!BackOut, Alarms!At, Alarms!Thread
  <2>2. Reserves(h)
    BY <2>1 DEF AlarmIInv, Places, HolderPlace, Reserves
  <2>3. Alarms!ReleaseReservation(h) /\ Alarms!Goto(h, "promote") /\ "promote" \in Alarms!Label
    BY DEF Alarms!BackOut, Alarms!Label, Alarms!Elsewhere
  <2>4. /\ intent' \in Alarms!Intent /\ ~intent'.reserved
        /\ intent'.seq = intent.seq /\ intent'.active = intent.active
    BY <2>2, <2>3, ReleaseFacts
  <2>5. /\ left \in [Alarms!Thread -> 0 .. 2]
           /\ after \in [Alarms!Thread -> Alarms!Return] /\ "admit answer" \in Alarms!Return
        /\ left' = [left EXCEPT ![h] = 2] /\ after' = [after EXCEPT ![h] = "admit answer"]
    BY DEF Alarms!TypeOK, Alarms!BackOut, Alarms!Return
  <2>9. ~admission[h].acquired
    BY <2>1 DEF AlarmIInv, Places, HolderPlace, Lasting, Clearing
  <2>10. /\ left' \in [Alarms!Thread -> 0 .. 2] /\ left'[h] # 0
         /\ \A u \in Alarms!Thread : u # h => left'[u] = left[u]
    <3>1. 2 \in 0 .. 2 /\ 2 # 0
      OBVIOUS
    <3> QED BY <2>1, <2>5, <3>1, SetFacts
  <2>11. /\ after' \in [Alarms!Thread -> Alarms!Return] /\ after'[h] = "admit answer"
         /\ \A u \in Alarms!Thread : u # h => after'[u] = after[u]
    BY <2>1, <2>5
  <2> QED BY <2>1, <2>2, <2>3, <2>4, <2>9, <2>10, <2>11, GotoFacts
<1>3. Alarms!TypeOK'
  BY <1>1, <1>2 DEF Alarms!TypeOK
<1>4. Places'
  BY <1>1, <1>2, AlarmTypeFacts, ZenonT(40) DEF AlarmIInv, Places, HolderPlace, OtherPlace,
     AttemptsAreLeft,
     Clearing, Lasting, Alarms!Reserving
<1>5. OneWriter'
  BY <1>1, <1>2 DEF AlarmIInv, OneWriter, WriterIsTaken, WriterIsHeld, WriterIsOne,
     HasWriter, Alarms!Admitted, Clearing, Section
<1>6. ActiveIsCounted'
  <2>1. \A u \in Alarms!Thread : Counted(u)' <=> Counted(u)
    BY <1>1, <1>2 DEF Counted, Alarms!Admitted, Alarms!Declared, Alarms!Writing,
       Alarms!Return
  <2> QED BY <1>1, <1>2, <2>1, CountSame
<1>7. OneHolderReserves'
  BY <1>1, <1>2, AlarmTypeFacts DEF AlarmIInv, OneHolderReserves, ReservedByOne,
     BaseIsQuiet,
     OthersAreOutside, SequenceTells, Reserves, Clearing, Section, Inside
<1>8. Captured'
  <2>1. AdmittedIsCurrent'
    BY <1>1, <1>2, AlarmTypeFacts DEF AlarmIInv, Captured, AdmittedIsCurrent, Carrying
  <2>2. CaptureIsKnown'
    BY <1>1, <1>2, AlarmTypeFacts DEF AlarmIInv, Captured, CaptureIsKnown, Unfinished
  <2> QED BY <2>1, <2>2 DEF Captured
<1>9. Carried'
  BY <1>1, <1>2 DEF AlarmIInv, Carried, WaitingIsDeferred, PayloadIsCarried, CodesAreKnown,
     ImageIsShown, ImageHasCodes, Alarms!DeferredDescribesWaiting, Carrying
<1> QED BY <1>3, <1>4, <1>5, <1>6, <1>7, <1>8, <1>9 DEF AlarmIInv

(* What the holder has captured is still so when its admission ends. *)
LEMMA EndMotionAdmissionKeeps ==
  ASSUME AlarmIInv, NEW h \in Holder, Alarms!EndMotionAdmission(h)
  PROVE  AlarmIInv'
<1> Alarms!TypeOK
  BY DEF AlarmIInv
<1>1. UNCHANGED <<alarmWriter, deferred, overflowPayload, waiting, image, hasAlarm,
                  updateCount, shown, seen, publishing, captured>>
  BY DEF Alarms!EndMotionAdmission, Alarms!ReleaseReservation, Alarms!imageVars,
     Alarms!deferredVars
<1>2. /\ h \in Alarms!Thread
      /\ call[h] = "admitted" /\ call'[h] = "promote"
      /\ \A u \in Alarms!Thread : u # h => call'[u] = call[u]
      /\ call' \in [Alarms!Thread -> Alarms!Label]
      /\ Reserves(h)
      /\ intent' \in Alarms!Intent /\ ~intent'.reserved
      /\ intent'.seq = intent.seq /\ intent'.active = intent.active
      /\ after'[h] = "captured"
      /\ \A u \in Alarms!Thread : u # h => after'[u] = after[u]
      /\ \A u \in Alarms!Thread : u # h => left'[u] = left[u]
      /\ left'[h] # 0
      /\ after' \in [Alarms!Thread -> Alarms!Return] /\ left' \in [Alarms!Thread -> 0 .. 2]
      /\ ~admission'[h].acquired /\ admission'[h].expected = admission[h].expected
      /\ \A g \in Holder : g # h => admission'[g] = admission[g]
      /\ admission' \in [Holder -> Alarms!Reservation]
  <2>1. call[h] = "admitted" /\ h \in Alarms!Thread
    BY DEF Alarms!EndMotionAdmission, Alarms!At, Alarms!Thread
  <2>2. Reserves(h)
    BY <2>1 DEF AlarmIInv, Places, HolderPlace, Reserves
  <2>3. Alarms!ReleaseReservation(h) /\ Alarms!Goto(h, "promote") /\ "promote" \in Alarms!Label
    BY DEF Alarms!EndMotionAdmission, Alarms!Label, Alarms!Elsewhere
  <2>4. /\ intent' \in Alarms!Intent /\ ~intent'.reserved
        /\ intent'.seq = intent.seq /\ intent'.active = intent.active
    BY <2>2, <2>3, ReleaseFacts
  <2>5. /\ left \in [Alarms!Thread -> 0 .. 2]
           /\ after \in [Alarms!Thread -> Alarms!Return] /\ "captured" \in Alarms!Return
        /\ left' = [left EXCEPT ![h] = 2] /\ after' = [after EXCEPT ![h] = "captured"]
    BY DEF Alarms!TypeOK, Alarms!EndMotionAdmission, Alarms!Return
  <2>6. admission[h] \in Alarms!Reservation /\ Alarms!Quiet \in Alarms!Intent
        /\ admission[h].base \in Alarms!Intent
    BY AlarmTypeFacts DEF Alarms!TypeOK, Alarms!Quiet, Alarms!Intent
  <2>7. /\ Alarms!Capture(h) \in Alarms!Reservation /\ ~Alarms!Capture(h).acquired
        /\ Alarms!Capture(h).expected = admission[h].expected
    BY <2>6 DEF Alarms!Capture, Alarms!Reservation
  <2>8. admission \in [Holder -> Alarms!Reservation]
        /\ admission' = [admission EXCEPT ![h] = Alarms!Capture(h)]
    BY DEF Alarms!TypeOK, Alarms!EndMotionAdmission
  <2>9. /\ admission' \in [Holder -> Alarms!Reservation]
        /\ ~admission'[h].acquired /\ admission'[h].expected = admission[h].expected
        /\ \A g \in Holder : g # h => admission'[g] = admission[g]
    BY <2>7, <2>8
  <2>10. /\ left' \in [Alarms!Thread -> 0 .. 2] /\ left'[h] # 0
         /\ \A u \in Alarms!Thread : u # h => left'[u] = left[u]
    <3>1. 2 \in 0 .. 2 /\ 2 # 0
      OBVIOUS
    <3> QED BY <2>1, <2>5, <3>1, SetFacts
  <2>11. /\ after' \in [Alarms!Thread -> Alarms!Return] /\ after'[h] = "captured"
         /\ \A u \in Alarms!Thread : u # h => after'[u] = after[u]
    BY <2>1, <2>5
  <2> QED BY <2>1, <2>2, <2>3, <2>4, <2>9, <2>10, <2>11, GotoFacts
<1>3. Alarms!TypeOK'
  BY <1>1, <1>2 DEF Alarms!TypeOK
<1>4. Places'
  <2>1. HolderPlace'
    BY <1>1, <1>2, AlarmTypeFacts DEF AlarmIInv, Places, HolderPlace, Clearing, Lasting
  <2>2. OtherPlace'
    BY <1>1, <1>2 DEF AlarmIInv, Places, OtherPlace, Alarms!Reserving
  <2>3. AttemptsAreLeft'
    BY <1>1, <1>2 DEF AlarmIInv, Places, AttemptsAreLeft
  <2> QED BY <2>1, <2>2, <2>3 DEF Places
<1>5. OneWriter'
  BY <1>1, <1>2 DEF AlarmIInv, OneWriter, WriterIsTaken, WriterIsHeld, WriterIsOne,
     HasWriter, Alarms!Admitted, Clearing, Section
<1>6. ActiveIsCounted'
  <2>1. \A u \in Alarms!Thread : Counted(u)' <=> Counted(u)
    BY <1>1, <1>2 DEF Counted, Alarms!Admitted, Alarms!Declared, Alarms!Writing,
       Alarms!Return
  <2> QED BY <1>1, <1>2, <2>1, CountSame
<1>7. OneHolderReserves'
  <2>1. ReservedByOne'
    BY <1>1, <1>2, AlarmTypeFacts DEF AlarmIInv, OneHolderReserves, ReservedByOne, Reserves
  <2>2. BaseIsQuiet'
    BY <1>1, <1>2, AlarmTypeFacts DEF AlarmIInv, OneHolderReserves, BaseIsQuiet, Reserves
  <2>3. OthersAreOutside'
    BY <1>1, <1>2, ZenonT(40) DEF AlarmIInv, OneHolderReserves, OthersAreOutside, Reserves, Clearing,
       Section, Inside
  <2>4. SequenceTells'
    BY <1>1, <1>2, AlarmTypeFacts DEF AlarmIInv, OneHolderReserves, SequenceTells, Reserves
  <2> QED BY <2>1, <2>2, <2>3, <2>4 DEF OneHolderReserves
<1>8. Captured'
  <2>1. AdmittedIsCurrent'
    <3> SUFFICES ASSUME NEW g \in Holder, admission'[g].acquired
                 PROVE  /\ updateCount' = admission'[g].expected
                        /\ shown' = captured'[g]
                        /\ admission'[g].requireNone => ~hasAlarm' /\ call'[g] = "admitted"
                        /\ call'[g] \in Carrying => publishing'[g].delta = 1
      BY DEF AdmittedIsCurrent
    <3>1. g # h /\ admission'[g] = admission[g] /\ call'[g] = call[g]
      BY <1>2, HoldersAreThreads
    <3> QED BY <1>1, <3>1 DEF AlarmIInv, Captured, AdmittedIsCurrent
  <2>2. CaptureIsKnown'
    BY <1>1, <1>2, AlarmTypeFacts DEF AlarmIInv, Captured, CaptureIsKnown, Unfinished
  <2> QED BY <2>1, <2>2 DEF Captured
<1>9. Carried'
  BY <1>1, <1>2, ZenonT(40) DEF AlarmIInv, Carried, WaitingIsDeferred, PayloadIsCarried, CodesAreKnown,
     ImageIsShown, ImageHasCodes, Alarms!DeferredDescribesWaiting, Carrying
<1> QED BY <1>3, <1>4, <1>5, <1>6, <1>7, <1>8, <1>9 DEF AlarmIInv

(* A caller that backed out is told whether to try again. *)
LEMMA AdmitAnswerKeeps ==
  ASSUME AlarmIInv, NEW h \in Holder, Alarms!AdmitAnswer(h)
  PROVE  AlarmIInv'
<1> Alarms!TypeOK
  BY DEF AlarmIInv
<1>1. UNCHANGED <<intent, alarmWriter, deferred, overflowPayload, waiting, image,
                  hasAlarm, updateCount, shown, left, after, seen, publishing>>
  BY DEF Alarms!AdmitAnswer, Alarms!Busy, Alarms!Supersede, Alarms!imageVars,
     Alarms!deferredVars, Alarms!locals
<1>2. /\ h \in Alarms!Thread
      /\ call[h] = "admit answer" /\ call'[h] \in {"superseded", "captured"}
      /\ \A u \in Alarms!Thread : u # h => call'[u] = call[u]
      /\ call' \in [Alarms!Thread -> Alarms!Label]
      /\ ~admission[h].acquired /\ ~admission'[h].acquired
      /\ call'[h] # "superseded" => admission'[h].expected = admission[h].expected
         /\ captured' = captured
      /\ \A g \in Holder : g # h => admission'[g] = admission[g]
      /\ admission' \in [Holder -> Alarms!Reservation]
      /\ \A g \in Holder : g # h => captured'[g] = captured[g]
      /\ captured' \in [Holder -> SUBSET Alarms!Alarm]
  <2>1. call[h] = "admit answer" /\ h \in Alarms!Thread /\ ~admission[h].acquired
    BY DEF Alarms!AdmitAnswer, Alarms!At, Alarms!Thread, AlarmIInv, Places,
       HolderPlace, Lasting, Clearing
  <2>2. admission \in [Holder -> Alarms!Reservation]
        /\ captured \in [Holder -> SUBSET Alarms!Alarm]
    BY DEF Alarms!TypeOK
  <2>3. Alarms!Supersede(h) \/ Alarms!Busy(h)
    BY DEF Alarms!AdmitAnswer
  <2>4. CASE Alarms!Supersede(h)
    BY <2>1, <2>4, SupersedeFacts
  <2>5. CASE Alarms!Busy(h)
    BY <2>1, <2>2, <2>5, BusyFacts
  <2> QED BY <2>3, <2>4, <2>5
<1>3. Alarms!TypeOK'
  BY <1>1, <1>2 DEF Alarms!TypeOK
<1>4. Places'
  BY <1>1, <1>2, AlarmTypeFacts DEF AlarmIInv, Places, HolderPlace, OtherPlace,
     AttemptsAreLeft,
     Clearing, Lasting, Alarms!Reserving
<1>5. OneWriter'
  BY <1>1, <1>2 DEF AlarmIInv, OneWriter, WriterIsTaken, WriterIsHeld, WriterIsOne,
     HasWriter, Alarms!Admitted, Clearing, Section
<1>6. ActiveIsCounted'
  <2>1. \A u \in Alarms!Thread : Counted(u)' <=> Counted(u)
    BY <1>1, <1>2 DEF Counted, Alarms!Admitted, Alarms!Declared, Alarms!Writing,
       Alarms!Return
  <2> QED BY <1>1, <1>2, <2>1, CountSame
<1>7. OneHolderReserves'
  <2>1. ReservedByOne'
    BY <1>1, <1>2, AlarmTypeFacts DEF AlarmIInv, OneHolderReserves, ReservedByOne, Reserves
  <2>2. BaseIsQuiet'
    BY <1>1, <1>2, AlarmTypeFacts DEF AlarmIInv, OneHolderReserves, BaseIsQuiet, Reserves
  <2>3. OthersAreOutside'
    BY <1>1, <1>2, AlarmTypeFacts, ZenonT(40) DEF AlarmIInv, OneHolderReserves, OthersAreOutside,
       Reserves,
       Clearing, Section, Inside
  <2>4. SequenceTells'
    BY <1>1, <1>2, AlarmTypeFacts DEF AlarmIInv, OneHolderReserves, SequenceTells, Reserves
  <2> QED BY <2>1, <2>2, <2>3, <2>4 DEF OneHolderReserves
<1>8. Captured'
  <2>1. AdmittedIsCurrent'
    <3> SUFFICES ASSUME NEW g \in Holder, admission'[g].acquired
                 PROVE  /\ updateCount' = admission'[g].expected
                        /\ shown' = captured'[g]
                        /\ admission'[g].requireNone => ~hasAlarm' /\ call'[g] = "admitted"
                        /\ call'[g] \in Carrying => publishing'[g].delta = 1
      BY DEF AdmittedIsCurrent
    <3>1. g # h /\ admission'[g] = admission[g] /\ call'[g] = call[g]
          /\ captured'[g] = captured[g]
      BY <1>2, HoldersAreThreads
    <3> QED BY <1>1, <3>1 DEF AlarmIInv, Captured, AdmittedIsCurrent
  <2>2. CaptureIsKnown'
    BY <1>1, <1>2, AlarmTypeFacts DEF AlarmIInv, Captured, CaptureIsKnown, Unfinished
  <2> QED BY <2>1, <2>2 DEF Captured
<1>9. Carried'
  BY <1>1, <1>2, ZenonT(40) DEF AlarmIInv, Carried, WaitingIsDeferred, PayloadIsCarried, CodesAreKnown,
     ImageIsShown, ImageHasCodes, Alarms!DeferredDescribesWaiting, Carrying
<1> QED BY <1>3, <1>4, <1>5, <1>6, <1>7, <1>8, <1>9 DEF AlarmIInv

(* The holder empties the image alone, and moves the sequence under its    *)
(* own reservation.                                                        *)
LEMMA ClearUnderMotionAdmissionKeeps ==
  ASSUME AlarmIInv, NEW h \in Holder, Alarms!ClearUnderMotionAdmission(h)
  PROVE  AlarmIInv'
<1> Alarms!TypeOK
  BY DEF AlarmIInv
<1>1. UNCHANGED <<alarmWriter, deferred, overflowPayload, waiting, image, hasAlarm,
                  updateCount, shown, left, after, seen, publishing, captured>>
  BY DEF Alarms!ClearUnderMotionAdmission, Alarms!Advance, Alarms!imageVars,
     Alarms!deferredVars, Alarms!locals
<1>2. /\ h \in Alarms!Thread
      /\ call[h] = "admitted" /\ call'[h] = "clear flag"
      /\ \A u \in Alarms!Thread : u # h => call'[u] = call[u]
      /\ call' \in [Alarms!Thread -> Alarms!Label]
      /\ intent' \in Alarms!Intent /\ intent'.active = intent.active
         /\ intent'.reserved = intent.reserved
      /\ admission'[h].base.active = admission[h].base.active
      /\ admission'[h].base.reserved = admission[h].base.reserved
      /\ admission'[h].expected = admission[h].expected
      /\ admission[h].acquired /\ admission'[h].acquired
      /\ admission'[h].requireNone = admission[h].requireNone
      /\ \A g \in Holder : g # h => admission'[g] = admission[g]
      /\ admission' \in [Holder -> Alarms!Reservation]
      /\ intent.seq = admission[h].base.seq
      /\ intent'.seq = intent.seq + 1 /\ admission'[h].base.seq = admission[h].base.seq + 1
      /\ ~alarmWriter /\ ~admission[h].requireNone
  <2>1. call[h] = "admitted" /\ h \in Alarms!Thread
    BY DEF Alarms!ClearUnderMotionAdmission, Alarms!At, Alarms!Thread
  <2>2. admission[h].acquired
    BY <2>1 DEF AlarmIInv, Places, HolderPlace
  <2>3. Alarms!Undisturbed(h) /\ hasAlarm /\ Alarms!Advance(h)
        /\ Alarms!Goto(h, "clear flag") /\ "clear flag" \in Alarms!Label
    BY DEF Alarms!ClearUnderMotionAdmission, Alarms!Label, Alarms!Writing
  <2>4. intent.seq = admission[h].base.seq /\ ~alarmWriter
    BY <2>3, ReservedFacts DEF Alarms!Undisturbed
  <2>5. ~admission[h].requireNone
    BY <2>2, <2>3 DEF AlarmIInv, Captured, AdmittedIsCurrent
  <2> QED BY <2>1, <2>2, <2>3, <2>4, <2>5, AdvanceFacts, GotoFacts
<1>3. Alarms!TypeOK'
  BY <1>1, <1>2 DEF Alarms!TypeOK
<1>4. /\ \A g \in Holder : Reserves(g) => g = h
      /\ \A u \in Alarms!Thread : u # h => call[u] \notin Inside
      /\ admission[h].base.seq <= intent.seq
      /\ intent.seq = admission[h].base.seq => intent.active = 0 /\ deferred = Alarms!Nothing
  <2>1. Reserves(h)
    BY <1>2 DEF Reserves
  <2> QED BY <1>2, <2>1 DEF AlarmIInv, OneHolderReserves, ReservedByOne,
     OthersAreOutside, SequenceTells
<1>5. Places'
  <2>1. HolderPlace'
    BY <1>1, <1>2, AlarmTypeFacts DEF AlarmIInv, Places, HolderPlace, Clearing, Lasting
  <2>2. OtherPlace'
    BY <1>1, <1>2 DEF AlarmIInv, Places, OtherPlace, Alarms!Reserving
  <2>3. AttemptsAreLeft'
    BY <1>1, <1>2 DEF AlarmIInv, Places, AttemptsAreLeft
  <2> QED BY <2>1, <2>2, <2>3 DEF Places
<1>6. OneWriter'
  <2>1. WriterIsTaken'
    BY <1>1, <1>2 DEF AlarmIInv, OneWriter, WriterIsTaken, HasWriter, Alarms!Admitted,
       Clearing,
       Section
  <2>2. WriterIsHeld'
    BY <1>1, <1>2 DEF AlarmIInv, OneWriter, WriterIsHeld, HasWriter, Alarms!Admitted,
       Clearing,
       Section
  <2>3. WriterIsOne'
    <3>1. ASSUME NEW u \in Alarms!Thread, call'[u] \in Section \cup Clearing PROVE u = h
      BY <1>2, <1>4, <3>1 DEF Inside
    <3> QED BY <3>1 DEF WriterIsOne
  <2> QED BY <2>1, <2>2, <2>3 DEF OneWriter
<1>7. ActiveIsCounted'
  <2>1. \A u \in Alarms!Thread : Counted(u)' <=> Counted(u)
    BY <1>1, <1>2 DEF Counted, Alarms!Admitted, Alarms!Declared, Alarms!Writing,
       Alarms!Return
  <2> QED BY <1>1, <1>2, <2>1, CountSame
<1>8. OneHolderReserves'
  <2>1. ReservedByOne'
    BY <1>1, <1>2, AlarmTypeFacts, ZenonT(40) DEF AlarmIInv, OneHolderReserves, ReservedByOne, Reserves
  <2>2. BaseIsQuiet'
    BY <1>1, <1>2, AlarmTypeFacts DEF AlarmIInv, OneHolderReserves, BaseIsQuiet, Reserves
  <2>3. OthersAreOutside'
    BY <1>1, <1>2, <1>4, HoldersAreThreads DEF AlarmIInv, OneHolderReserves,
       OthersAreOutside, Reserves, Clearing, Section, Inside
  <2>4. SequenceTells'
    <3> SUFFICES ASSUME NEW g \in Holder, Reserves(g)'
                 PROVE  /\ admission'[g].base.seq <= intent'.seq
                        /\ intent'.seq = admission'[g].base.seq =>
                             intent'.active = 0 /\ deferred' = Alarms!Nothing
      BY DEF SequenceTells
    <3>1. g = h
      <4>1. CASE g # h
        <5>1. Reserves(g)
          BY <1>2, <4>1, HoldersAreThreads DEF Reserves
        <5> QED BY <1>4, <5>1
      <4> QED BY <4>1
    <3>2. /\ intent.seq \in Nat /\ admission[h].base.seq \in Nat
          /\ admission[h].base.seq <= intent.seq
      BY <1>4, AlarmTypeFacts
    <3>3. \/ intent'.seq = intent.seq + 1 /\ admission'[h].base.seq = admission[h].base.seq + 1
          \/ intent' = intent /\ admission' = admission
      BY <1>2
    <3>4. intent'.seq = admission'[h].base.seq => intent.seq = admission[h].base.seq
      BY <3>2, <3>3
    <3>5. admission'[h].base.seq <= intent'.seq
      BY <3>2, <3>3
    <3> QED BY <1>1, <1>2, <1>4, <3>1, <3>4, <3>5
  <2> QED BY <2>1, <2>2, <2>3, <2>4 DEF OneHolderReserves
<1>9. Captured'
  <2>1. AdmittedIsCurrent'
    BY <1>1, <1>2, <1>4, HoldersAreThreads, ZenonT(40) DEF AlarmIInv, Captured, AdmittedIsCurrent,
       Carrying
  <2>2. CaptureIsKnown'
    BY <1>1, <1>2, AlarmTypeFacts, ZenonT(40) DEF AlarmIInv, Captured, CaptureIsKnown, Unfinished
  <2> QED BY <2>1, <2>2 DEF Captured
<1>10. Carried'
  BY <1>1, <1>2 DEF AlarmIInv, Carried, WaitingIsDeferred, PayloadIsCarried, CodesAreKnown,
     ImageIsShown, ImageHasCodes, Alarms!DeferredDescribesWaiting, Carrying
<1> QED BY <1>3, <1>5, <1>6, <1>7, <1>8, <1>9, <1>10 DEF AlarmIInv

(* The holder takes the writer flag that nobody else can take. *)
LEMMA TriggerUnderWriterKeeps ==
  ASSUME AlarmIInv, NEW h \in Holder, Alarms!TriggerUnderWriter(h)
  PROVE  AlarmIInv'
<1> Alarms!TypeOK
  BY DEF AlarmIInv
<1>1. UNCHANGED <<intent, deferred, overflowPayload, waiting, image, hasAlarm,
                  updateCount, shown, left, after, seen, admission, captured>>
  BY DEF Alarms!TriggerUnderWriter, Alarms!imageVars, Alarms!deferredVars, Alarms!holderVars
<1>2. /\ h \in Alarms!Thread
      /\ call[h] = "admitted" /\ call'[h] = "under reserve"
      /\ \A u \in Alarms!Thread : u # h => call'[u] = call[u]
      /\ call' \in [Alarms!Thread -> Alarms!Label]
      /\ alarmWriter' /\ ~alarmWriter /\ admission[h].acquired /\ ~admission[h].requireNone
      /\ publishing'[h].alarms # <<>> /\ publishing'[h].delta = 1
         /\ publishing'[h].code # NoAlarm
      /\ \A u \in Alarms!Thread : u # h => publishing'[u] = publishing[u]
      /\ publishing' \in [Alarms!Thread -> Alarms!Payload]
  <2> DEFINE payload == [code |-> h, delta |-> 1, alarms |-> <<h>>]
  <2>1. call[h] = "admitted" /\ h \in Alarms!Thread /\ h \in Alarms!Alarm /\ h # NoAlarm
    BY ThreadAssumption DEF Alarms!TriggerUnderWriter, Alarms!At, Alarms!Thread,
       Alarms!Alarm
  <2>2. admission[h].acquired
    BY <2>1 DEF AlarmIInv, Places, HolderPlace
  <2>3. /\ ~alarmWriter /\ alarmWriter' = TRUE /\ ~admission[h].requireNone
        /\ Alarms!Goto(h, "under reserve") /\ "under reserve" \in Alarms!Label
    BY DEF Alarms!TriggerUnderWriter, Alarms!Current, Alarms!Undisturbed, Alarms!Label,
       Alarms!Reserving
  <2>4. publishing \in [Alarms!Thread -> Alarms!Payload]
        /\ publishing' = [publishing EXCEPT ![h] = payload]
    BY DEF Alarms!TypeOK, Alarms!TriggerUnderWriter
  <2>5. payload \in Alarms!Payload /\ payload.alarms # <<>> /\ payload.delta = 1
        /\ payload.code # NoAlarm
    <3>1. <<h>> \in Seq(Alarms!Alarm) /\ <<h>> # <<>>
      BY <2>1
    <3> QED BY <2>1, <3>1 DEF Alarms!Payload
  <2> HIDE DEF payload
  <2>6. /\ publishing'[h] = payload /\ publishing' \in [Alarms!Thread -> Alarms!Payload]
        /\ \A u \in Alarms!Thread : u # h => publishing'[u] = publishing[u]
    BY <2>1, <2>4, <2>5
  <2> QED BY <2>1, <2>2, <2>3, <2>5, <2>6, GotoFacts
<1>3. Alarms!TypeOK'
  BY <1>1, <1>2 DEF Alarms!TypeOK
<1>4. /\ \A g \in Holder : Reserves(g) => g = h
      /\ \A u \in Alarms!Thread : u # h => call[u] \notin Inside
      /\ admission[h].base.seq <= intent.seq
      /\ intent.seq = admission[h].base.seq => intent.active = 0 /\ deferred = Alarms!Nothing
  <2>1. Reserves(h)
    BY <1>2 DEF Reserves
  <2> QED BY <1>2, <2>1 DEF AlarmIInv, OneHolderReserves, ReservedByOne,
     OthersAreOutside, SequenceTells
<1>5. Places'
  BY <1>1, <1>2, AlarmTypeFacts, ZenonT(40) DEF AlarmIInv, Places, HolderPlace, OtherPlace,
     AttemptsAreLeft,
     Clearing, Lasting, Alarms!Reserving
<1>6. OneWriter'
  <2>1. WriterIsTaken'
    BY <1>1, <1>2 DEF AlarmIInv, OneWriter, WriterIsTaken, HasWriter, Alarms!Admitted,
       Clearing,
       Section
  <2>2. WriterIsHeld'
    BY <1>1, <1>2 DEF AlarmIInv, OneWriter, WriterIsHeld, HasWriter, Alarms!Admitted,
       Clearing,
       Section
  <2>3. WriterIsOne'
    <3>1. ASSUME NEW u \in Alarms!Thread, call'[u] \in Section \cup Clearing PROVE u = h
      BY <1>2, <1>4, <3>1 DEF Inside
    <3> QED BY <3>1 DEF WriterIsOne
  <2> QED BY <2>1, <2>2, <2>3 DEF OneWriter
<1>7. ActiveIsCounted'
  <2>1. \A u \in Alarms!Thread : Counted(u)' <=> Counted(u)
    BY <1>1, <1>2 DEF Counted, Alarms!Admitted, Alarms!Declared, Alarms!Writing,
       Alarms!Return
  <2> QED BY <1>1, <1>2, <2>1, CountSame
<1>8. OneHolderReserves'
  <2>1. ReservedByOne'
    BY <1>1, <1>2, AlarmTypeFacts DEF AlarmIInv, OneHolderReserves, ReservedByOne, Reserves
  <2>2. BaseIsQuiet'
    BY <1>1, <1>2, AlarmTypeFacts DEF AlarmIInv, OneHolderReserves, BaseIsQuiet, Reserves
  <2>3. OthersAreOutside'
    BY <1>1, <1>2, <1>4, HoldersAreThreads DEF AlarmIInv, OneHolderReserves,
       OthersAreOutside, Reserves, Clearing, Section, Inside
  <2>4. SequenceTells'
    BY <1>1, <1>2, AlarmTypeFacts DEF AlarmIInv, OneHolderReserves, SequenceTells, Reserves
  <2> QED BY <2>1, <2>2, <2>3, <2>4 DEF OneHolderReserves
<1>9. Captured'
  <2>1. AdmittedIsCurrent'
    BY <1>1, <1>2, AlarmTypeFacts, ZenonT(40) DEF AlarmIInv, Captured, AdmittedIsCurrent, Carrying
  <2>2. CaptureIsKnown'
    BY <1>1, <1>2, AlarmTypeFacts DEF AlarmIInv, Captured, CaptureIsKnown, Unfinished
  <2> QED BY <2>1, <2>2 DEF Captured
<1>10. Carried'
  <2>1. WaitingIsDeferred'
    BY <1>1, <1>2 DEF AlarmIInv, Carried, WaitingIsDeferred
  <2>2. PayloadIsCarried'
    <3> SUFFICES ASSUME NEW u \in Alarms!Thread
                 PROVE  /\ publishing'[u].alarms # <<>> <=> call'[u] \in Carrying
                        /\ call'[u] \in Carrying => publishing'[u].delta # 0
                        /\ call'[u] \in {"under reserve", "publish image"} =>
                             publishing'[u].code # NoAlarm
      BY DEF PayloadIsCarried
    <3>1. CASE u = h
      <4>1. /\ publishing'[u].alarms # <<>> /\ publishing'[u].code # NoAlarm
            /\ publishing'[u].delta = 1 /\ call'[u] = "under reserve"
        BY <1>2, <3>1
      <4>2. 1 # 0 /\ "under reserve" \in Carrying
        BY DEF Carrying
      <4> QED BY <4>1, <4>2
    <3>2. CASE u # h
      BY <1>2, <3>2 DEF AlarmIInv, Carried, PayloadIsCarried
    <3> QED BY <3>1, <3>2
  <2>3. CodesAreKnown'
    BY <1>1, <1>2 DEF AlarmIInv, Carried, CodesAreKnown
  <2>4. ImageIsShown'
    BY <1>1, <1>2 DEF AlarmIInv, Carried, ImageIsShown
  <2>5. ImageHasCodes'
    BY <1>1, <1>2 DEF AlarmIInv, Carried, ImageHasCodes
  <2>6. Alarms!DeferredDescribesWaiting'
    BY <1>1, <1>2 DEF AlarmIInv, Carried, Alarms!DeferredDescribesWaiting
  <2> QED BY <2>1, <2>2, <2>3, <2>4, <2>5, <2>6 DEF Carried
<1> QED BY <1>3, <1>5, <1>6, <1>7, <1>8, <1>9, <1>10 DEF AlarmIInv

(* An alarm under an admission that another call has outdated is given up  *)
(* before the image.                                                       *)
LEMMA TriggerUnderReserveKeeps ==
  ASSUME AlarmIInv, NEW h \in Holder, Alarms!TriggerUnderReserve(h)
  PROVE  AlarmIInv'
<1> Alarms!TypeOK
  BY DEF AlarmIInv
<1>1. UNCHANGED <<alarmWriter, deferred, overflowPayload, waiting, image, hasAlarm,
                  updateCount, shown, left, after, seen, captured>>
  BY DEF Alarms!TriggerUnderReserve, Alarms!Advance, Alarms!imageVars, Alarms!deferredVars
<1>2. /\ h \in Alarms!Thread
      /\ call[h] = "under reserve"
      /\ \A u \in Alarms!Thread : u # h => call'[u] = call[u]
      /\ call' \in [Alarms!Thread -> Alarms!Label]
      /\ intent' \in Alarms!Intent /\ intent'.active = intent.active
         /\ intent'.reserved = intent.reserved
      /\ admission'[h].base.active = admission[h].base.active
      /\ admission'[h].base.reserved = admission[h].base.reserved
      /\ admission'[h].expected = admission[h].expected
      /\ admission[h].acquired /\ admission'[h].acquired
      /\ admission'[h].requireNone = admission[h].requireNone
      /\ \A g \in Holder : g # h => admission'[g] = admission[g]
      /\ admission' \in [Holder -> Alarms!Reservation]
      /\ \/ /\ call'[h] = "publish image" /\ publishing' = publishing
            /\ intent.seq = admission[h].base.seq
            /\ intent'.seq = intent.seq + 1
               /\ admission'[h].base.seq = admission[h].base.seq + 1
         \/ /\ call'[h] = "release writer" /\ publishing'[h].alarms = <<>>
            /\ intent' = intent /\ admission' = admission
      /\ \A u \in Alarms!Thread : u # h => publishing'[u] = publishing[u]
      /\ publishing' \in [Alarms!Thread -> Alarms!Payload]
  <2>1. call[h] = "under reserve" /\ h \in Alarms!Thread
    BY DEF Alarms!TriggerUnderReserve, Alarms!At, Alarms!Thread
  <2>2. admission[h].acquired
    BY <2>1 DEF AlarmIInv, Places, HolderPlace
  <2>3. /\ publishing \in [Alarms!Thread -> Alarms!Payload]
           /\ admission \in [Holder -> Alarms!Reservation]
        /\ intent \in Alarms!Intent
           /\ {"publish image", "release writer"} \subseteq Alarms!Label
    BY DEF Alarms!TypeOK, Alarms!Label, Alarms!Writing, Alarms!Elsewhere
  <2>4. CASE intent = Alarms!Reserved(h)
    <3>1. Alarms!Advance(h) /\ Alarms!Goto(h, "publish image") /\ publishing' = publishing
      BY <2>4 DEF Alarms!TriggerUnderReserve
    <3>2. intent.seq = admission[h].base.seq
      BY <2>4, ReservedFacts
    <3> QED BY <2>1, <2>2, <2>3, <3>1, <3>2, AdvanceFacts, GotoFacts
  <2>5. CASE intent # Alarms!Reserved(h)
    <3>1. /\ publishing' = [publishing EXCEPT ![h] = Alarms!NoPayload]
             /\ Alarms!Goto(h, "release writer")
          /\ intent' = intent /\ admission' = admission
      BY <2>5 DEF Alarms!TriggerUnderReserve
    <3>2. Alarms!NoPayload \in Alarms!Payload /\ Alarms!NoPayload.alarms = <<>>
      BY DEF Alarms!NoPayload, Alarms!Payload
    <3>3. /\ publishing'[h] = Alarms!NoPayload
             /\ publishing' \in [Alarms!Thread -> Alarms!Payload]
          /\ \A u \in Alarms!Thread : u # h => publishing'[u] = publishing[u]
      BY <2>1, <2>3, <3>1, <3>2
    <3> QED BY <2>1, <2>2, <2>3, <3>1, <3>2, <3>3, GotoFacts
  <2> QED BY <2>4, <2>5
<1>3. Alarms!TypeOK'
  BY <1>1, <1>2 DEF Alarms!TypeOK
<1>4. /\ \A g \in Holder : Reserves(g) => g = h
      /\ \A u \in Alarms!Thread : u # h => call[u] \notin Inside
      /\ admission[h].base.seq <= intent.seq
      /\ intent.seq = admission[h].base.seq => intent.active = 0 /\ deferred = Alarms!Nothing
  <2>1. Reserves(h)
    BY <1>2 DEF Reserves
  <2> QED BY <1>2, <2>1 DEF AlarmIInv, OneHolderReserves, ReservedByOne,
     OthersAreOutside, SequenceTells
<1>5. Places'
  BY <1>1, <1>2, AlarmTypeFacts, ZenonT(40) DEF AlarmIInv, Places, HolderPlace, OtherPlace,
     AttemptsAreLeft,
     Clearing, Lasting, Alarms!Reserving
<1>6. OneWriter'
  <2>1. WriterIsTaken'
    BY <1>1, <1>2 DEF AlarmIInv, OneWriter, WriterIsTaken, HasWriter, Alarms!Admitted,
       Clearing,
       Section
  <2>2. WriterIsHeld'
    BY <1>1, <1>2 DEF AlarmIInv, OneWriter, WriterIsHeld, HasWriter, Alarms!Admitted,
       Clearing,
       Section
  <2>3. WriterIsOne'
    BY <1>1, <1>2, ZenonT(40) DEF AlarmIInv, OneWriter, WriterIsOne, Clearing, Section
  <2> QED BY <2>1, <2>2, <2>3 DEF OneWriter
<1>7. ActiveIsCounted'
  <2>1. \A u \in Alarms!Thread : Counted(u)' <=> Counted(u)
    BY <1>1, <1>2 DEF Counted, Alarms!Admitted, Alarms!Declared, Alarms!Writing,
       Alarms!Return
  <2> QED BY <1>1, <1>2, <2>1, CountSame
<1>8. OneHolderReserves'
  <2>1. ReservedByOne'
    BY <1>1, <1>2, AlarmTypeFacts, ZenonT(40) DEF AlarmIInv, OneHolderReserves, ReservedByOne, Reserves
  <2>2. BaseIsQuiet'
    BY <1>1, <1>2, AlarmTypeFacts, ZenonT(40) DEF AlarmIInv, OneHolderReserves, BaseIsQuiet, Reserves
  <2>3. OthersAreOutside'
    BY <1>1, <1>2, <1>4, HoldersAreThreads, ZenonT(40) DEF AlarmIInv, OneHolderReserves,
       OthersAreOutside, Reserves, Clearing, Section, Inside
  <2>4. SequenceTells'
    <3> SUFFICES ASSUME NEW g \in Holder, Reserves(g)'
                 PROVE  /\ admission'[g].base.seq <= intent'.seq
                        /\ intent'.seq = admission'[g].base.seq =>
                             intent'.active = 0 /\ deferred' = Alarms!Nothing
      BY DEF SequenceTells
    <3>1. g = h
      <4>1. CASE g # h
        <5>1. Reserves(g)
          BY <1>2, <4>1, HoldersAreThreads DEF Reserves
        <5> QED BY <1>4, <5>1
      <4> QED BY <4>1
    <3>2. /\ intent.seq \in Nat /\ admission[h].base.seq \in Nat
          /\ admission[h].base.seq <= intent.seq
      BY <1>4, AlarmTypeFacts
    <3>3. \/ intent'.seq = intent.seq + 1 /\ admission'[h].base.seq = admission[h].base.seq + 1
          \/ intent' = intent /\ admission' = admission
      BY <1>2
    <3>4. intent'.seq = admission'[h].base.seq => intent.seq = admission[h].base.seq
      BY <3>2, <3>3
    <3>5. admission'[h].base.seq <= intent'.seq
      BY <3>2, <3>3
    <3> QED BY <1>1, <1>2, <1>4, <3>1, <3>4, <3>5
  <2> QED BY <2>1, <2>2, <2>3, <2>4 DEF OneHolderReserves
<1>9. Captured'
  <2>1. AdmittedIsCurrent'
    <3> SUFFICES ASSUME NEW g \in Holder, admission'[g].acquired
                 PROVE  /\ updateCount' = admission'[g].expected
                        /\ shown' = captured'[g]
                        /\ admission'[g].requireNone => ~hasAlarm' /\ call'[g] = "admitted"
                        /\ call'[g] \in Carrying => publishing'[g].delta = 1
      BY DEF AdmittedIsCurrent
    <3>1. /\ admission[g].acquired /\ admission'[g].expected = admission[g].expected
          /\ admission'[g].requireNone = admission[g].requireNone
      BY <1>2
    <3>2. g = h
      BY <1>4, <3>1 DEF Reserves
    <3>3. /\ updateCount = admission[g].expected /\ shown = captured[g]
          /\ admission[g].requireNone => call[g] = "admitted"
          /\ call[g] \in Carrying => publishing[g].delta = 1
      BY <3>1 DEF AlarmIInv, Captured, AdmittedIsCurrent
    <3>4. ~admission[g].requireNone /\ publishing[g].delta = 1
      BY <1>2, <3>2, <3>3 DEF Carrying
    <3>5. call'[g] \in Carrying => publishing'[g].delta = 1
      BY <1>2, <3>2, <3>4 DEF Carrying
    <3> QED BY <1>1, <3>1, <3>3, <3>4, <3>5
  <2>2. CaptureIsKnown'
    BY <1>1, <1>2, <1>4, HoldersAreThreads, ZenonT(40) DEF AlarmIInv, Captured, CaptureIsKnown,
       Unfinished
  <2> QED BY <2>1, <2>2 DEF Captured
<1>10. Carried'
  <2>1. WaitingIsDeferred'
    BY <1>1, <1>2 DEF AlarmIInv, Carried, WaitingIsDeferred
  <2>2. PayloadIsCarried'
    BY <1>1, <1>2, ZenonT(40) DEF AlarmIInv, Carried, PayloadIsCarried, Carrying
  <2>3. CodesAreKnown'
    BY <1>1, <1>2 DEF AlarmIInv, Carried, CodesAreKnown
  <2>4. ImageIsShown'
    BY <1>1, <1>2 DEF AlarmIInv, Carried, ImageIsShown
  <2>5. ImageHasCodes'
    BY <1>1, <1>2 DEF AlarmIInv, Carried, ImageHasCodes
  <2>6. Alarms!DeferredDescribesWaiting'
    BY <1>1, <1>2 DEF AlarmIInv, Carried, Alarms!DeferredDescribesWaiting
  <2> QED BY <2>1, <2>2, <2>3, <2>4, <2>5, <2>6 DEF Carried
<1> QED BY <1>3, <1>5, <1>6, <1>7, <1>8, <1>9, <1>10 DEF AlarmIInv

(* It holds when no call was made yet. *)
LEMMA AlarmInitIInv == Alarms!Init => AlarmIInv
<1> SUFFICES ASSUME Alarms!Init PROVE AlarmIInv
  OBVIOUS
<1>1. /\ intent = Alarms!Quiet /\ alarmWriter = FALSE /\ deferred = Alarms!Nothing
         /\ overflowPayload = NoAlarm
      /\ image = <<>> /\ hasAlarm = FALSE /\ updateCount = 0
      /\ shown = {} /\ waiting = <<>>
  BY DEF Alarms!Init
<1>2. /\ \A t \in Alarms!Thread : /\ call[t] = "idle" /\ left[t] = 0 /\ after[t] = "idle"
                                  /\ seen[t] = Alarms!Nothing
                                     /\ publishing[t] = Alarms!NoPayload
      /\ \A h \in Holder : /\ admission[h] = Alarms!NotAdmitted /\ captured[h] = {}
                           /\ call[h] = "idle" /\ after[h] = "idle"
  BY DEF Alarms!Init, Alarms!Thread
<1>3. /\ Alarms!Quiet \in Alarms!Intent /\ Alarms!Nothing \in Alarms!Publication
         /\ Alarms!NoPayload \in Alarms!Payload
      /\ Alarms!NotAdmitted \in Alarms!Reservation
  BY BoundAssumption DEF Alarms!Quiet, Alarms!Intent, Alarms!Nothing,
     Alarms!Publication, Alarms!NoPayload, Alarms!Payload, Alarms!NotAdmitted,
     Alarms!Reservation
<1>4. Alarms!TypeOK
  <2>1. "idle" \in Alarms!Label /\ "idle" \in Alarms!Return
    BY DEF Alarms!Label, Alarms!Elsewhere, Alarms!Return
  <2>2. /\ <<>> \in Seq(Alarms!Alarm) /\ <<>> \in Seq(Alarms!Alarm \cup {NoAlarm})
           /\ Len(<<>>) <= MaxAlarms
    BY BoundAssumption
  <2>3. /\ call \in [Alarms!Thread -> Alarms!Label] /\ left \in [Alarms!Thread -> 0 .. 2]
           /\ after \in [Alarms!Thread -> Alarms!Return]
        /\ seen \in [Alarms!Thread -> Alarms!Publication]
           /\ publishing \in [Alarms!Thread -> Alarms!Payload]
        /\ admission \in [Holder -> Alarms!Reservation]
           /\ captured \in [Holder -> SUBSET Alarms!Alarm]
    BY <1>3, <2>1 DEF Alarms!Init
  <2> QED BY <1>1, <1>3, <2>2, <2>3 DEF Alarms!TypeOK
<1>5. /\ ~Alarms!Quiet.reserved /\ Alarms!Quiet.active = 0
      /\ Alarms!Nothing.count = 0 /\ ~Alarms!Nothing.overflow
      /\ Alarms!NoPayload.alarms = <<>>
      /\ ~Alarms!NotAdmitted.acquired
  BY DEF Alarms!Quiet, Alarms!Nothing, Alarms!NoPayload, Alarms!NotAdmitted
<1>6. Places
  BY <1>2, <1>5 DEF Places, HolderPlace, OtherPlace, AttemptsAreLeft, Lasting,
     Clearing, Alarms!Reserving
<1>7. OneWriter
  BY <1>1, <1>2 DEF OneWriter, WriterIsTaken, WriterIsHeld, WriterIsOne, HasWriter, Section,
     Clearing
<1>8. ActiveIsCounted
  <2>1. Active = {}
    BY <1>2 DEF Active, Counted, Alarms!Declared, Alarms!Writing
  <2> QED BY <1>1, <1>5, <2>1, FS_EmptySet DEF ActiveIsCounted
<1>9. OneHolderReserves
  BY <1>2, <1>5 DEF OneHolderReserves, ReservedByOne, BaseIsQuiet, OthersAreOutside,
     SequenceTells, Reserves
<1>10. Captured
  BY <1>2, <1>5 DEF Captured, AdmittedIsCurrent, CaptureIsKnown
<1>11. Carried
  <2>1. Alarms!Range(image) = {}
    BY <1>1, EmptyRange
  <2>2. Len(waiting) = 0
    BY <1>1
  <2> QED BY <1>1, <1>2, <1>5, <2>1, <2>2 DEF Carried, WaitingIsDeferred, PayloadIsCarried,
         CodesAreKnown, ImageIsShown, ImageHasCodes, Alarms!DeferredDescribesWaiting,
         Carrying
<1> QED BY <1>4, <1>6, <1>7, <1>8, <1>9, <1>10, <1>11 DEF AlarmIInv

(* It depends on nothing but the state of the manager. *)
LEMMA AlarmStutterIInv ==
  ASSUME AlarmIInv, UNCHANGED Alarms!vars
  PROVE  AlarmIInv'
<1>1. UNCHANGED <<intent, alarmWriter, deferred, overflowPayload, waiting, image, hasAlarm,
                  updateCount, shown, call, left, after, seen, publishing, admission,
                  captured>>
  BY DEF Alarms!vars, Alarms!imageVars, Alarms!deferredVars, Alarms!locals,
     Alarms!holderVars
<1>2. Alarms!TypeOK' /\ Places'
  BY <1>1 DEF AlarmIInv, Alarms!TypeOK, Places, HolderPlace, OtherPlace, AttemptsAreLeft
<1>3. OneWriter'
  BY <1>1 DEF AlarmIInv, OneWriter, WriterIsTaken, WriterIsHeld, WriterIsOne,
     HasWriter, Alarms!Admitted
<1>4. ActiveIsCounted'
  BY <1>1 DEF AlarmIInv, ActiveIsCounted, Active, Counted, Alarms!Admitted
<1>5. OneHolderReserves'
  BY <1>1 DEF AlarmIInv, OneHolderReserves, ReservedByOne, BaseIsQuiet, OthersAreOutside,
     SequenceTells, Reserves
<1>6. Captured'
  BY <1>1 DEF AlarmIInv, Captured, AdmittedIsCurrent, CaptureIsKnown
<1>7. Carried'
  BY <1>1 DEF AlarmIInv, Carried, WaitingIsDeferred, PayloadIsCarried, CodesAreKnown,
     ImageIsShown,
     ImageHasCodes, Alarms!DeferredDescribesWaiting
<1> QED BY <1>2, <1>3, <1>4, <1>5, <1>6, <1>7 DEF AlarmIInv

(* Every step of every call keeps it. *)
LEMMA AlarmNextIInv == AlarmIInv /\ [Alarms!Next]_Alarms!vars => AlarmIInv'
<1> SUFFICES ASSUME AlarmIInv, [Alarms!Next]_Alarms!vars PROVE AlarmIInv'
  OBVIOUS
<1>1. CASE UNCHANGED Alarms!vars
  BY <1>1, AlarmStutterIInv
<1>2. ASSUME NEW t \in Alarms!Thread, Alarms!PublishAlarmUnderWriter(t) \/ Alarms!TryPromoteDeferredAlarms(t)
      PROVE  AlarmIInv'
  <2>1. CASE Alarms!PublishAlarmUnderWriter(t)
    BY <2>1, PublishImageKeeps, PublishFlagKeeps, PublishCountKeeps, ReleaseWriterKeeps
       DEF Alarms!PublishAlarmUnderWriter
  <2>2. CASE Alarms!TryPromoteDeferredAlarms(t)
    BY <2>2, PromoteKeeps, PromoteDeclareKeeps, PromoteWriterKeeps, PromoteTakeKeeps,
       PromotePayloadKeeps DEF Alarms!TryPromoteDeferredAlarms
  <2> QED BY <1>2, <2>1, <2>2
<1>3. ASSUME NEW t \in Alarms!Thread, Alarms!Withdraw(t) \/ Alarms!DeferAlarm(t) \/ Alarms!Trigger(t)
      PROVE  AlarmIInv'
  BY <1>3, WithdrawKeeps, DeferLoadKeeps, DeferSwapKeeps, OverflowPayloadKeeps,
     OverflowFlagKeeps, TriggerDeclareKeeps, TriggerWriterKeeps DEF Alarms!DeferAlarm,
     Alarms!Trigger
<1>4. ASSUME NEW t \in Alarms!Thread, Alarms!Clear(t)
      PROVE  AlarmIInv'
  BY <1>4, ClearCallKeeps, ClearLookKeeps, ClearDeclareKeeps, ClearWriterKeeps,
     ClearRecheckKeeps, ClearFlagKeeps, ClearImageKeeps, ClearCountKeeps DEF Alarms!Clear
<1>5. ASSUME NEW h \in Holder, Alarms!TryBeginMotionAdmission(h)
      PROVE  AlarmIInv'
  BY <1>5, CaptureCountKeeps, CaptureIntentKeeps, AdmitCallKeeps, AdmitLookKeeps,
     AdmitStateKeeps, AdmitQuietKeeps, AdmitReserveKeeps, AdmitVerifyKeeps, BackOutKeeps,
     AdmitAnswerKeeps DEF Alarms!TryBeginMotionAdmission
<1>6. ASSUME NEW h \in Holder,
             \/ Alarms!EndMotionAdmission(h)
             \/ Alarms!ClearUnderMotionAdmission(h) \/ Alarms!TriggerUnderMotionAdmission(h)
      PROVE  AlarmIInv'
  BY <1>6, EndMotionAdmissionKeeps, ClearUnderMotionAdmissionKeeps, TriggerUnderWriterKeeps,
     TriggerUnderReserveKeeps DEF Alarms!TriggerUnderMotionAdmission
<1>7. CASE Alarms!Next
  BY <1>2, <1>3, <1>4, <1>5, <1>6, <1>7 DEF Alarms!Next
<1> QED BY <1>1, <1>7

(* It holds of every state that is reached. *)
LEMMA AlarmInvariantHolds == Alarms!Spec => []AlarmIInv
<1> QED BY AlarmInitIInv, AlarmNextIInv, PTL DEF Alarms!Spec

(* The active count of the intent word never borrows from the sequence or  *)
(* the reservation flag beside it, and every record keeps its type.        *)
THEOREM AlarmTypesHold == Alarms!Spec => []Alarms!TypeOK
<1>1. AlarmIInv => Alarms!TypeOK
  BY DEF AlarmIInv
<1> QED BY <1>1, AlarmInvariantHolds, PTL

(* While an admission lasts nobody but its holder writes the image, which  *)
(* is the one the holder captured.                                         *)
THEOREM AdmissionsProve == Alarms!Spec => []AdmissionProof
<1>1. ASSUME AlarmIInv PROVE AdmissionProof
  <2> SUFFICES ASSUME NEW h \in Holder, Alarms!Admitted(h)
               PROVE  /\ intent.reserved
                      /\ \A t \in Alarms!Thread \ {h} : call[t] \notin Alarms!Writing
                      /\ shown = captured[h]
                      /\ Alarms!At(h, "admitted") =>
                           /\ updateCount = admission[h].expected
                           /\ admission[h].requireNone => ~hasAlarm
                           /\ intent = Alarms!Reserved(h) => deferred = Alarms!Nothing
                              /\ ~alarmWriter
    BY DEF AdmissionProof, Alarms!AdmissionProof
  <2>1. admission[h].acquired /\ Reserves(h) /\ Alarms!TypeOK
    BY <1>1 DEF Alarms!Admitted, Reserves, AlarmIInv
  <2>2. intent.reserved
    BY <1>1, <2>1 DEF AlarmIInv, OneHolderReserves, ReservedByOne
  <2>3. \A t \in Alarms!Thread \ {h} : call[t] \notin Inside
    BY <1>1, <2>1 DEF AlarmIInv, OneHolderReserves, OthersAreOutside
  <2>4. \A t \in Alarms!Thread \ {h} : call[t] \notin Alarms!Writing
    BY <2>3 DEF Inside, Section, Clearing, Alarms!Writing
  <2>5. /\ updateCount = admission[h].expected /\ shown = captured[h]
        /\ admission[h].requireNone => ~hasAlarm
    BY <1>1, <2>1 DEF AlarmIInv, Captured, AdmittedIsCurrent
  <2>6. Alarms!At(h, "admitted") => ~alarmWriter
    <3> SUFFICES ASSUME Alarms!At(h, "admitted"), alarmWriter PROVE FALSE
      OBVIOUS
    <3>1. PICK t \in Alarms!Thread : HasWriter(t)
      BY <1>1 DEF AlarmIInv, OneWriter, WriterIsHeld
    <3>2. t = h
      BY <2>3, <3>1 DEF HasWriter, Inside
    <3> QED BY <3>1, <3>2 DEF Alarms!At, HasWriter, Section, Clearing
  <2>7. intent = Alarms!Reserved(h) => deferred = Alarms!Nothing
    BY <1>1, <2>1, ReservedFacts DEF AlarmIInv, OneHolderReserves, SequenceTells
  <2> QED BY <2>2, <2>4, <2>5, <2>6, <2>7
<1> QED BY <1>1, AlarmInvariantHolds, PTL

(* No alarm is lost between the call that raises it and the image.         *)
THEOREM AlarmsReachTheImage == Alarms!Spec => []NoAlarmIsLost
<1>1. ASSUME AlarmIInv PROVE NoAlarmIsLost
  <2>1. waiting # <<>> <=> deferred # Alarms!Nothing
    BY <1>1 DEF AlarmIInv, Carried, WaitingIsDeferred
  <2>2. \A t \in Alarms!Thread : publishing[t].alarms # <<>> <=> call[t] \in Carrying
    BY <1>1 DEF AlarmIInv, Carried, PayloadIsCarried
  <2>3. (\A t \in Alarms!Thread : call[t] \notin Alarms!Writing) =>
          /\ shown # {} <=> hasAlarm
          /\ shown # {} <=> image # <<>>
    BY <1>1 DEF AlarmIInv, Carried, ImageIsShown, Alarms!Writing
  <2>4. NoAlarm \notin Alarms!Range(image)
    BY <1>1 DEF AlarmIInv, Carried, ImageHasCodes
  <2> QED BY <2>1, <2>2, <2>3, <2>4 DEF NoAlarmIsLost, Alarms!NoAlarmIsLost, Carrying
<1> QED BY <1>1, AlarmInvariantHolds, PTL

(* The deferred publication describes the alarms that wait for it.         *)
THEOREM PublicationsDescribe == Alarms!Spec => []DeferredDescribesWaiting
<1>1. AlarmIInv => DeferredDescribesWaiting
  BY DEF AlarmIInv, Carried, DeferredDescribesWaiting
<1> QED BY <1>1, AlarmInvariantHolds, PTL

-----------------------------------------------------------------------------
(* What holds of each of the two holds of both, one of which moves.        *)
THEOREM ReportsKeepTheirSpecs == ReportsSpec => Spec /\ Alarms!Spec
<1>1. ReportsInit => Init /\ Alarms!Init
  BY DEF ReportsInit
<1>2. [ChannelMoves \/ AlarmsMove]_<<moving, vars, alarmVariables>> =>
        [Next]_vars /\ [Alarms!Next]_Alarms!vars
  BY DEF ChannelMoves, AlarmsMove, alarmVariables, Alarms!vars, Alarms!imageVars,
     Alarms!deferredVars, Alarms!locals, Alarms!holderVars
<1> QED BY <1>1, <1>2, PTL DEF ReportsSpec, Spec, Alarms!Spec

=============================================================================
