---------------------------- MODULE Home_proofs ----------------------------
(***************************************************************************)
(* Proofs about HomePersistence, for every number of axes, of HOMEs, of    *)
(* failing calls and of ends of the Core, and about HomeAxis (Axis), for   *)
(* every size of the rings and of the ledger and every number of requests. *)
(*                                                                         *)
(* Persistence: a thread that is writing rows, or has nothing left to      *)
(* write, stands on a whole snapshot of what is in memory (Standing); what *)
(* is written to the history is at most the greatest record of that        *)
(* snapshot, of its fresh backup and of the memory (Fresh); and a HOME of  *)
(* this session is a line of the history or waits to be one (Complete).    *)
(*                                                                         *)
(* Axis: commands are queued in the order of their numbers (InOrder), so   *)
(* what the ledger answers is below all that is under way (AnsweredIsPast);*)
(* the disarm that ends a request is the last command under its lease      *)
(* (DisarmIsLast), so a disarm that is answered leaves none behind.        *)
(***************************************************************************)
EXTENDS MCHome, Sequences, SequenceTheorems, WellFoundedInduction, TLAPS

-----------------------------------------------------------------------------
(* Home persistence.                                                       *)

Label == {"idle", "backup", "backup copy", "open", "write", "restore", "restore copy",
          "history", "header", "rows", "down"}
Text == {"header", "row", "fragment", "joined"}
Line == [text : Text, seq : Nat]
File == [exists : BOOLEAN, data : Seq(Nat)]

FilesShape ==
  /\ snapshot \in File /\ Len(snapshot.data) <= Axes
  /\ backup \in File /\ Len(backup.data) <= Axes

HistoryShape == history \in [exists : BOOLEAN, lines : Seq(Line)]

MemoryShape ==
  /\ last \in [1 .. Axes -> Nat] /\ pending \in Seq(Nat \ {0})
  /\ next \in Nat \ {0} /\ session \subseteq Nat \ {0} /\ row \in Nat \ {0}

BudgetShape == budget \in [homes : Nat, failures : Nat, crashes : Nat]

ControlShape ==
  /\ pc \in Label
  /\ dirty \in BOOLEAN /\ had \in BOOLEAN /\ stale \in BOOLEAN /\ sound \in BOOLEAN /\ outdated \in BOOLEAN

Shape == FilesShape /\ HistoryShape /\ MemoryShape /\ BudgetShape /\ ControlShape

(* The numbers of this run end at MaxHomes, restarts included.             *)
Bounds ==
  /\ next + budget.homes <= MaxHomes + 1
  /\ Len(pending) + budget.homes <= MaxHomes
  /\ \A i \in 1 .. Len(snapshot.data) : snapshot.data[i] + budget.homes <= MaxHomes
  /\ \A i \in 1 .. Len(backup.data) : backup.data[i] + budget.homes <= MaxHomes
  /\ \A i \in 1 .. Len(history.lines) : history.lines[i].seq <= MaxHomes
  /\ \A a \in 1 .. Axes : last[a] < next
  /\ \A i \in 1 .. Len(pending) : pending[i] < next
  /\ \A s \in session : s < next
  /\ row <= MaxHomes + 1

Prefix(s, t) == \A i \in 1 .. Len(s) : s[i] = t[i]

(* Where the thread stands in a flush, and on which files.                 *)
Standing ==
  /\ dirty <=> pending # <<>>
  /\ pc \notin {"idle", "down"} => dirty
  /\ pc \in {"backup", "backup copy", "open", "write", "history", "header"} => row = 1
  /\ pc = "rows" => row <= Len(pending) + 1
  /\ pc \in {"backup", "backup copy"} => snapshot.exists /\ stale
  /\ pc = "backup copy" =>
       /\ backup.exists /\ Len(backup.data) <= Len(snapshot.data)
       /\ Prefix(backup.data, snapshot.data)
  /\ pc = "write" => snapshot.exists /\ ~outdated /\ Prefix(snapshot.data, last)
  /\ pc = "restore" => backup.exists
  /\ pc = "restore copy" =>
       /\ snapshot.exists /\ backup.exists /\ outdated = stale
       /\ Len(snapshot.data) <= Len(backup.data)
       /\ Prefix(snapshot.data, backup.data)
  /\ \/ pc \in {"history", "header", "rows"}
     \/ session # {} /\ ~dirty
     => Whole(snapshot) /\ snapshot.data = last
  /\ pc \in {"history", "header", "rows"} => ~outdated

InHistory(s) == \E i \in 1 .. Len(history.lines) : history.lines[i].seq = s

Complete ==
  /\ \A i \in 1 .. Len(history.lines) :
       history.lines[i].text = "fragment" => history.lines[i].seq = 0
  /\ \A s \in session : InHistory(s) \/ \E i \in 1 .. Len(pending) : pending[i] = s
  /\ pc = "rows" => \A i \in 1 .. row - 1 : InHistory(pending[i])

(* No line of the history is above every one of these records.             *)
Within(records) ==
  \A i \in 1 .. Len(history.lines) : \E a \in 1 .. Axes : history.lines[i].seq <= records[a]

Fresh ==
  /\ \A i \in 1 .. Len(pending) : \E a \in 1 .. Axes : pending[i] <= last[a]
  /\ sound =>
       /\ Within(last)
       /\ ~snapshot.exists => \A i \in 1 .. Len(history.lines) : history.lines[i].seq = 0
       /\ Whole(snapshot) /\ ~outdated => Within(snapshot.data)
       /\ /\ pc \in {"open", "write", "restore", "restore copy"}
          /\ ~stale /\ Whole(backup)
          => Within(backup.data)

IInv == Shape /\ Bounds /\ Standing /\ Complete /\ Fresh

-----------------------------------------------------------------------------
(* The operators of the module.                                            *)

LEMMA TopRecord ==
  ASSUME NEW r \in [1 .. Axes -> Nat], NEW m \in Nat, \A a \in 1 .. Axes : r[a] <= m
  PROVE  /\ NextAfter(r) \in Nat \ {0} /\ NextAfter(r) <= m + 1
         /\ \A a \in 1 .. Axes : r[a] < NextAfter(r)
<1> DEFINE S == {r[a] : a \in 1 .. Axes}
           U == {n \in Nat : \A y \in S : y <= n}
           R == OpToRel(<, Nat)
           Below == {ss \in Nat \X Nat : ss[1] < ss[2]}
<1>1. S \subseteq Nat /\ \A a \in 1 .. Axes : r[a] \in S
  OBVIOUS
<1>2. \A n : n \in U <=> n \in Nat /\ \A y \in S : y <= n
  OBVIOUS
<1>3. m \in U /\ \A y \in S : y <= m
  OBVIOUS
<1>4. IsWellFoundedOn(Below, Nat)
  <2>1. IsWellFoundedOn(R, Nat)
    BY NatLessThanWellFounded, Zenon
  <2>2. R = Below
    BY Zenon DEF OpToRel
  <2> QED BY <2>1, <2>2, Zenon
<1>5. NextAfter(r) = Max(S) + 1
  BY DEF NextAfter
<1> HIDE DEF S, U, R
<1>6. PICK top \in U : \A n \in U : ~(n < top)
  <2>1. U \subseteq Nat
    BY <1>2
  <2>2. PICK top \in U : \A n \in U : ~(<<n, top>> \in Below)
    <3> HIDE DEF Below
    <3> QED BY <1>3, <1>4, <2>1, WFMin
  <2> QED BY <2>1, <2>2
<1> HIDE DEF Below
<1>7. top \in Nat /\ \A y \in S : y \in Nat /\ y <= top
  BY <1>1, <1>2
<1>8. r[1] \in S
  BY <1>1, PersistenceAssumption
<1>9. top \in S
  <2>1. SUFFICES ASSUME top \notin S PROVE FALSE
    OBVIOUS
  <2>2. \A y \in S : y \in Nat /\ y < top
    BY <1>7, <2>1
  <2>3. top - 1 \in Nat /\ \A y \in S : y <= top - 1
    BY <1>7, <1>8, <2>2
  <2> QED BY <1>2, <1>6, <1>7, <2>3
<1>10. Max(S) \in S /\ \A y \in S : Max(S) >= y
  BY <1>7, <1>9 DEF Max
<1>11. Max(S) \in Nat /\ Max(S) <= m
  BY <1>3, <1>7, <1>10
<1>12. \A a \in 1 .. Axes : r[a] < Max(S) + 1
  BY <1>1, <1>7, <1>10, <1>11
<1> QED BY <1>5, <1>11, <1>12

(* A file with a record for every axis is what the memory holds if they    *)
(* agree axis by axis.                                                     *)
LEMMA LastIsData ==
  ASSUME NEW data \in Seq(Nat), Len(data) = Axes, NEW r \in [1 .. Axes -> Nat],
         \A i \in 1 .. Axes : data[i] = r[i]
  PROVE  data = r
<1>1. data \in [1 .. Axes -> Nat]
  BY LenProperties
<1> QED BY <1>1

LEMMA MoreIsLonger ==
  ASSUME NEW from, NEW to \in File, from.data[Len(to.data) + 1] \in Nat
  PROVE  /\ More(from, to) \in File /\ More(from, to).exists = to.exists
         /\ Len(More(from, to).data) = Len(to.data) + 1
         /\ \A i \in 1 .. Len(to.data) : More(from, to).data[i] = to.data[i]
         /\ More(from, to).data[Len(to.data) + 1] = from.data[Len(to.data) + 1]
<1>1. More(from, to).data = Append(to.data, from.data[Len(to.data) + 1])
  BY DEF More, File
<1>2. Append(to.data, from.data[Len(to.data) + 1]) \in Seq(Nat)
  BY DEF File
<1> DEFINE longer == Append(to.data, from.data[Len(to.data) + 1])
<1>3. More(from, to) = [to EXCEPT !.data = longer] /\ longer \in Seq(Nat)
  BY <1>2 DEF More
<1>4. More(from, to) \in File /\ More(from, to).exists = to.exists
  <2> HIDE DEF longer
  <2> QED BY <1>3 DEF File
<1> QED BY <1>1, <1>4 DEF File

(* What a write makes of the lines of the history.                         *)
Written(before, now, text, seq) ==
  /\ now \in Seq(Line)
  /\ \A j \in 1 .. Len(now) :
       \/ \E i \in 1 .. Len(before) : now[j] = before[i]
       \/ now[j].seq = seq /\ (now[j].text = "fragment" => text = "fragment")
  /\ \A i \in 1 .. Len(before) :
       \/ before[i].text = "fragment"
       \/ \E j \in 1 .. Len(now) : now[j] = before[i]
  /\ \E j \in 1 .. Len(now) : now[j].seq = seq

LEMMA WriteKeepsLines ==
  ASSUME NEW lines \in Seq(Line), NEW text \in Text, NEW seq \in Nat
  PROVE  Written(lines, Write(lines, text, seq), text, seq)
<1> DEFINE W == Write(lines, text, seq)
           n == Len(lines)
<1>1. CASE Open(lines)
  <2> DEFINE new == [text |-> IF text = "fragment" THEN text ELSE "joined", seq |-> seq]
  <2>1. n \in Nat /\ n >= 1 /\ lines[n].text = "fragment"
    BY <1>1 DEF Open
  <2>2. new \in Line /\ new.seq = seq /\ (new.text = "fragment" => text = "fragment")
    BY DEF Line, Text
  <2>3. W = [lines EXCEPT ![n] = new]
    BY <1>1 DEF Write
  <2> HIDE DEF W, new
  <2>4. W \in Seq(Line) /\ Len(W) = n /\ W[n] = new
        /\ \A i \in 1 .. n : i # n => W[i] = lines[i]
    BY <2>1, <2>2, <2>3
  <2>5. \A j \in 1 .. n : \/ \E i \in 1 .. n : W[j] = lines[i]
                          \/ W[j].seq = seq /\ (W[j].text = "fragment" => text = "fragment")
    BY <2>2, <2>4
  <2>6. \A i \in 1 .. n : lines[i].text = "fragment" \/ \E j \in 1 .. n : W[j] = lines[i]
    BY <2>1, <2>4
  <2>7. \E j \in 1 .. n : W[j].seq = seq
    BY <2>1, <2>2, <2>4
  <2> QED BY <2>4, <2>5, <2>6, <2>7 DEF W, Written
<1>2. CASE ~Open(lines)
  <2> DEFINE new == [text |-> text, seq |-> seq]
  <2>1. new \in Line /\ new.seq = seq /\ new.text = text
    BY DEF Line
  <2>2. W = Append(lines, new)
    BY <1>2 DEF Write
  <2> HIDE DEF W, new
  <2>3. n \in Nat /\ W \in Seq(Line) /\ Len(W) = n + 1 /\ W[n + 1] = new
        /\ \A i \in 1 .. n : W[i] = lines[i]
    BY <2>1, <2>2
  <2>4. \A j \in 1 .. n + 1 : \/ \E i \in 1 .. n : W[j] = lines[i]
                              \/ W[j].seq = seq /\ (W[j].text = "fragment" => text = "fragment")
    BY <2>1, <2>3
  <2>5. \A i \in 1 .. n : \E j \in 1 .. n + 1 : W[j] = lines[i]
    BY <2>3
  <2>6. \E j \in 1 .. n + 1 : W[j].seq = seq
    BY <2>1, <2>3
  <2> QED BY <2>3, <2>4, <2>5, <2>6 DEF W, Written
<1> QED BY <1>1, <1>2

-----------------------------------------------------------------------------
(* The invariant at the start.                                             *)

LEMMA Initially == Init => IInv
<1> SUFFICES ASSUME Init PROVE IInv
  OBVIOUS
<1> USE PersistenceAssumption DEF Init, NoFile, None
<1>1. Shape
  <2>1. NoFile \in File /\ Len(NoFile.data) = 0
    BY DEF File
  <2>2. FilesShape
    BY <2>1 DEF FilesShape
  <2>3. history = [exists |-> FALSE, lines |-> <<>>] /\ <<>> \in Seq(Line)
    OBVIOUS
  <2>4. HistoryShape
    BY <2>3 DEF HistoryShape
  <2>5. MemoryShape
    <3>1. last = [a \in 1 .. Axes |-> 0] /\ pending = <<>> /\ next = 1 /\ session = {}
          /\ row = 1
      OBVIOUS
    <3>2. last \in [1 .. Axes -> Nat] /\ pending \in Seq(Nat \ {0})
      BY <3>1
    <3> QED BY <3>1, <3>2 DEF MemoryShape
  <2>6. BudgetShape
    BY DEF BudgetShape
  <2>7. ControlShape
    <3>1. pc = "idle" /\ had = FALSE /\ stale = TRUE /\ sound = TRUE
          /\ outdated = FALSE /\ dirty = FALSE
      OBVIOUS
    <3> HIDE DEF Init
    <3> QED BY <3>1 DEF ControlShape, Label
  <2> QED BY <2>2, <2>4, <2>5, <2>6, <2>7 DEF Shape
<1>2. Bounds
  BY DEF Bounds
<1>3. Standing
  BY DEF Standing
<1>4. Complete
  BY DEF Complete
<1>5. Fresh
  BY DEF Fresh, Within, Whole
<1> QED BY <1>1, <1>2, <1>3, <1>4, <1>5 DEF IInv

-----------------------------------------------------------------------------
(* What the shape says of each field.                                      *)

LEMMA Fields ==
  ASSUME Shape
  PROVE  /\ snapshot.exists \in BOOLEAN /\ snapshot.data \in Seq(Nat)
         /\ backup.exists \in BOOLEAN /\ backup.data \in Seq(Nat)
         /\ Len(snapshot.data) \in 0 .. Axes /\ Len(backup.data) \in 0 .. Axes
         /\ history.exists \in BOOLEAN /\ history.lines \in Seq(Line)
         /\ Len(history.lines) \in Nat /\ Len(pending) \in Nat
         /\ \A i \in 1 .. Len(history.lines) :
              history.lines[i].seq \in Nat /\ history.lines[i].text \in Text
         /\ \A i \in 1 .. Len(snapshot.data) : snapshot.data[i] \in Nat
         /\ \A i \in 1 .. Len(backup.data) : backup.data[i] \in Nat
         /\ budget.homes \in Nat
<1> USE PersistenceAssumption DEF Shape
<1>1. snapshot.exists \in BOOLEAN /\ snapshot.data \in Seq(Nat)
      /\ backup.exists \in BOOLEAN /\ backup.data \in Seq(Nat)
  BY DEF FilesShape, File
<1>2. Len(snapshot.data) \in 0 .. Axes /\ Len(backup.data) \in 0 .. Axes
  BY <1>1 DEF FilesShape
<1>3. history.exists \in BOOLEAN /\ history.lines \in Seq(Line)
  BY DEF HistoryShape
<1>4. \A i \in 1 .. Len(history.lines) : history.lines[i] \in Line
  BY <1>3
<1>5. Len(pending) \in Nat
  BY DEF MemoryShape
<1>6. budget.homes \in Nat
  BY DEF BudgetShape
<1>7. \A i \in 1 .. Len(history.lines) :
        history.lines[i].seq \in Nat /\ history.lines[i].text \in Text
  BY <1>4 DEF Line
<1>8. /\ \A i \in 1 .. Len(snapshot.data) : snapshot.data[i] \in Nat
      /\ \A i \in 1 .. Len(backup.data) : backup.data[i] \in Nat
  BY <1>1
<1>9. Len(history.lines) \in Nat
  BY <1>3
<1> QED BY <1>1, <1>2, <1>3, <1>5, <1>6, <1>7, <1>8, <1>9

LEMMA SpendShape ==
  ASSUME BudgetShape, NEW what \in {"homes", "failures", "crashes"}, Spend(what)
  PROVE  /\ BudgetShape'
         /\ budget'.homes = IF what = "homes" THEN budget.homes - 1 ELSE budget.homes
BY DEF BudgetShape, Spend

(* A step that changes nothing.                                            *)
LEMMA StutterKeeps == IInv /\ UNCHANGED vars => IInv'
<1> SUFFICES ASSUME IInv, UNCHANGED vars PROVE IInv'
  OBVIOUS
<1> USE DEF IInv, vars, disk, memory, flush, ghosts
<1>1. Shape'
  BY DEF Shape, FilesShape, HistoryShape, MemoryShape, BudgetShape, ControlShape
<1>2. Bounds'
  BY DEF Bounds
<1>3. Standing'
  BY DEF Standing, Whole, Prefix
<1>4. Complete'
  BY DEF Complete, InHistory
<1>5. Fresh'
  BY DEF Fresh, Within, Whole
<1> QED BY <1>1, <1>2, <1>3, <1>4, <1>5

LEMMA QueueKeeps ==
  ASSUME IInv, NEW a \in 1 .. Axes, QueueSuccessfulHome(a)
  PROVE  IInv'
<1>0. Shape /\ Bounds /\ Standing /\ Complete /\ Fresh
  BY DEF IInv
<1>1. /\ UNCHANGED <<snapshot, backup, history, pc, had, row, stale, sound, outdated>>
      /\ pc = "idle" /\ dirty' = TRUE /\ next' = next + 1 /\ Spend("homes")
      /\ session' = session \cup {next}
  BY DEF QueueSuccessfulHome, At, disk, flush
<1>2. /\ last' \in [1 .. Axes -> Nat] /\ last'[a] = next
      /\ \A b \in 1 .. Axes : b # a => last'[b] = last[b]
  BY <1>0 DEF QueueSuccessfulHome, Shape, MemoryShape
<1>3. /\ pending' \in Seq(Nat \ {0}) /\ Len(pending') = Len(pending) + 1
      /\ pending'[Len(pending) + 1] = next /\ Len(pending) \in Nat
      /\ \A i \in 1 .. Len(pending) : pending'[i] = pending[i]
  BY <1>0 DEF QueueSuccessfulHome, Shape, MemoryShape
<1>4. BudgetShape' /\ budget'.homes = budget.homes - 1 /\ budget.homes \in Nat
  BY <1>0, <1>1, SpendShape, Fields DEF Shape
<1>5. next \in Nat \ {0} /\ (\A b \in 1 .. Axes : last[b] \in Nat)
      /\ \A i \in 1 .. Len(pending) : pending[i] \in Nat
  BY <1>0 DEF Shape, MemoryShape
<1>6. Shape'
  <2>1. FilesShape' /\ HistoryShape' /\ ControlShape'
    BY <1>0, <1>1 DEF Shape, FilesShape, HistoryShape, ControlShape
  <2>2. MemoryShape'
    BY <1>0, <1>1, <1>2, <1>3 DEF Shape, MemoryShape
  <2> QED BY <1>4, <2>1, <2>2 DEF Shape
<1>7. Bounds'
  <2>1. \A b \in 1 .. Axes : last'[b] < next'
    BY <1>0, <1>1, <1>2, <1>5 DEF Bounds
  <2>2. \A i \in 1 .. Len(pending') : pending'[i] < next'
    <3> SUFFICES ASSUME NEW i \in 1 .. Len(pending') PROVE pending'[i] < next'
      OBVIOUS
    <3>1. CASE i = Len(pending) + 1
      BY <1>1, <1>3, <1>5, <3>1
    <3>2. CASE i \in 1 .. Len(pending)
      <4>1. pending[i] < next /\ pending'[i] = pending[i] /\ pending[i] \in Nat
        BY <1>0, <1>3, <1>5, <3>2 DEF Bounds
      <4> QED BY <1>1, <1>5, <4>1
    <3>3. i = Len(pending) + 1 \/ i \in 1 .. Len(pending)
      BY <1>3
    <3> QED BY <3>1, <3>2, <3>3
  <2>3. \A s \in session' : s < next'
    BY <1>0, <1>1, <1>5 DEF Bounds, Shape, MemoryShape
  <2>4. /\ \A i \in 1 .. Len(snapshot.data) : snapshot.data[i] + budget'.homes <= MaxHomes
        /\ \A i \in 1 .. Len(backup.data) : backup.data[i] + budget'.homes <= MaxHomes
    <3>1. \A i \in 1 .. Len(snapshot.data) :
            snapshot.data[i] \in Nat /\ snapshot.data[i] + budget.homes <= MaxHomes
      BY <1>0, Fields DEF Bounds
    <3>2. \A i \in 1 .. Len(backup.data) :
            backup.data[i] \in Nat /\ backup.data[i] + budget.homes <= MaxHomes
      BY <1>0, Fields DEF Bounds
    <3> QED BY SMTT(60), <1>4, <3>1, <3>2, PersistenceAssumption
  <2>5. /\ next' + budget'.homes <= MaxHomes + 1
        /\ Len(pending') + budget'.homes <= MaxHomes
    BY SMTT(60), <1>0, <1>1, <1>3, <1>4, <1>5, PersistenceAssumption DEF Bounds
  <2> QED BY <1>0, <1>1, <2>1, <2>2, <2>3, <2>4, <2>5 DEF Bounds
<1>8. Standing'
  BY <1>1, <1>3 DEF Standing
<1>9. Complete'
  <2>1. \A s \in session' : InHistory(s)' \/ \E i \in 1 .. Len(pending') : pending'[i] = s
    <3> SUFFICES ASSUME NEW s \in session', ~InHistory(s)
                 PROVE  \E i \in 1 .. Len(pending') : pending'[i] = s
      BY <1>1 DEF InHistory
    <3>1. CASE s = next
      BY <1>3, <3>1
    <3>2. CASE s \in session
      <4>1. PICK i \in 1 .. Len(pending) : pending[i] = s
        BY <1>0, <3>2 DEF Complete
      <4> QED BY <1>3, <4>1
    <3> QED BY <1>1, <3>1, <3>2
  <2> QED BY <1>0, <1>1, <2>1 DEF Complete
<1>10. Fresh'
  <2>1. \A i \in 1 .. Len(pending') : \E b \in 1 .. Axes : pending'[i] <= last'[b]
    <3>1. \A i \in 1 .. Len(pending') : pending'[i] <= next
      BY <1>0, <1>3, <1>5 DEF Bounds
    <3> QED BY <1>2, <3>1
  <2>2. sound => Within(last)'
    <3> SUFFICES ASSUME sound, NEW i \in 1 .. Len(history.lines)
                 PROVE  history.lines[i].seq <= next
      BY <1>1, <1>2 DEF Within
    <3>1. PICK b \in 1 .. Axes : history.lines[i].seq <= last[b]
      BY <1>0 DEF Fresh, Within
    <3>2. last[b] < next /\ history.lines[i].seq \in Nat
      BY <1>0, Fields DEF Bounds
    <3> QED BY <1>5, <3>1, <3>2
  <2> QED BY <1>0, <1>1, <2>1, <2>2 DEF Fresh, Within, Whole
<1> QED BY <1>6, <1>7, <1>8, <1>9, <1>10 DEF IInv

-----------------------------------------------------------------------------
(* The steps of a flush.                                                   *)

LEMMA FlushPendingKeeps == IInv /\ FlushPending => IInv'
<1> SUFFICES ASSUME IInv, FlushPending PROVE IInv'
  OBVIOUS
<1>0. Shape /\ Bounds /\ Standing /\ Complete /\ Fresh
  BY DEF IInv
<1>1. /\ UNCHANGED <<snapshot, backup, history, last, pending, dirty, next, budget,
                     session, sound, outdated>>
      /\ pc = "idle" /\ dirty /\ had' = snapshot.exists /\ row' = 1 /\ stale' = TRUE
      /\ pc' = IF snapshot.exists THEN "backup" ELSE "open"
  BY <1>0 DEF FlushPending, At, Goto, disk, memory, ghosts, Standing
<1>2. Shape'
  <2>1. ControlShape'
    BY <1>0, <1>1, Fields DEF Shape, ControlShape, Label
  <2>2. MemoryShape'
    BY <1>0, <1>1 DEF Shape, MemoryShape
  <2> QED BY <1>0, <1>1, <2>1, <2>2 DEF Shape, FilesShape, HistoryShape, BudgetShape
<1>3. Bounds'
  BY <1>0, <1>1, PersistenceAssumption DEF Bounds
<1>4. Standing'
  BY <1>0, <1>1, Fields DEF Standing
<1>5. Complete'
  BY <1>0, <1>1 DEF Complete, InHistory
<1>6. Fresh'
  BY <1>0, <1>1 DEF Fresh, Within, Whole
<1> QED BY <1>2, <1>3, <1>4, <1>5, <1>6 DEF IInv

LEMMA EmptyIsFile == Empty \in File /\ Empty.exists = TRUE /\ Len(Empty.data) = 0
BY DEF Empty, File

LEMMA BackupOpenKeeps == IInv /\ BackupOpen => IInv'
<1> SUFFICES ASSUME IInv, BackupOpen PROVE IInv'
  OBVIOUS
<1>0. Shape /\ Bounds /\ Standing /\ Complete /\ Fresh
  BY DEF IInv
<1>1. /\ UNCHANGED <<snapshot, history, last, pending, dirty, next, had, row, stale,
                     session, sound, outdated>>
      /\ pc = "backup" /\ (pc' = "backup copy" \/ pc' = "open")
  BY DEF BackupOpen, At, Goto, memory, ghosts, flush
<1>2. budget' = budget \/ Spend("failures")
  BY DEF BackupOpen, Fail
<1>3. BudgetShape' /\ budget'.homes = budget.homes
  BY <1>0, <1>2, SpendShape DEF Shape, BudgetShape
<1>4. \/ pc' = "backup copy" /\ backup' = Empty
      \/ pc' = "open" /\ backup' = backup
  BY DEF BackupOpen, Goto
<1>5. backup' \in File /\ Len(backup'.data) <= Axes /\ (backup' = backup \/ Len(backup'.data) = 0)
  <2>1. CASE backup' = Empty
    BY <2>1, EmptyIsFile, PersistenceAssumption
  <2>2. CASE backup' = backup
    BY <1>0, <2>2 DEF Shape, FilesShape
  <2> QED BY <1>4, <2>1, <2>2
<1>6. Shape'
  <2>1. FilesShape'
    BY <1>0, <1>1, <1>5 DEF Shape, FilesShape
  <2>2. ControlShape'
    BY <1>0, <1>1 DEF Shape, ControlShape, Label
  <2> QED BY <1>0, <1>1, <1>3, <2>1, <2>2 DEF Shape, HistoryShape, MemoryShape
<1>7. Bounds'
  <2>1. \A i \in 1 .. Len(backup'.data) : backup'.data[i] + budget.homes <= MaxHomes
    <3>1. CASE backup' = backup
      BY <1>0, <3>1 DEF Bounds
    <3>2. CASE Len(backup'.data) = 0
      BY <3>2
    <3> QED BY <1>5, <3>1, <3>2
  <2> QED BY <1>0, <1>1, <1>3, <2>1 DEF Bounds
<1>8. CASE pc' = "backup copy" /\ backup' = Empty
  <2>1. backup'.exists = TRUE /\ Len(backup'.data) = 0
    BY <1>8, EmptyIsFile
  <2>2. Len(snapshot.data) >= 0
    BY <1>0, Fields
  <2>3. Prefix(backup'.data, snapshot'.data)
    BY <2>1 DEF Prefix
  <2>4. Standing'
    BY <1>0, <1>1, <1>8, <2>1, <2>2, <2>3 DEF Standing, Whole
  <2>5. Complete'
    BY <1>0, <1>1, <1>8 DEF Complete, InHistory
  <2>6. Fresh'
    BY <1>0, <1>1, <1>8 DEF Fresh, Within, Whole
  <2> QED BY <1>6, <1>7, <2>4, <2>5, <2>6 DEF IInv
<1>9. CASE pc' = "open" /\ backup' = backup
  <2>4. Standing'
    BY <1>0, <1>1, <1>9 DEF Standing, Whole
  <2>5. Complete'
    BY <1>0, <1>1, <1>9 DEF Complete, InHistory
  <2>6. stale
    BY <1>0, <1>1 DEF Standing
  <2>7. Fresh'
    BY <1>0, <1>1, <1>9, <2>6 DEF Fresh, Within, Whole
  <2> QED BY <1>6, <1>7, <2>4, <2>5, <2>7 DEF IInv
<1> QED BY <1>4, <1>8, <1>9

(* A step that fails goes on without a change of the files.                *)
LEMMA BackupCopyKeeps == IInv /\ BackupCopy => IInv'
<1> SUFFICES ASSUME IInv, BackupCopy PROVE IInv'
  OBVIOUS
<1>0. Shape /\ Bounds /\ Standing /\ Complete /\ Fresh
  BY DEF IInv
<1>1. /\ UNCHANGED <<snapshot, history, last, pending, dirty, next, had, row,
                     session, sound, outdated>>
      /\ pc = "backup copy"
  BY DEF BackupCopy, At, memory, ghosts
<1>2. /\ backup.exists /\ Len(backup.data) <= Len(snapshot.data) /\ snapshot.exists
      /\ Prefix(backup.data, snapshot.data) /\ row = 1 /\ dirty /\ stale
  BY <1>0, <1>1 DEF Standing
<1>3. \/ /\ Len(backup.data) < Len(snapshot.data) /\ backup' = More(snapshot, backup)
         /\ UNCHANGED <<pc, budget, stale>>
      \/ /\ Len(backup.data) = Len(snapshot.data) /\ stale' = outdated /\ pc' = "open"
         /\ UNCHANGED <<backup, budget>>
      \/ Spend("failures") /\ pc' = "open" /\ UNCHANGED <<backup, stale>>
  BY DEF BackupCopy, Fail, Goto
<1>4. BudgetShape' /\ budget'.homes = budget.homes
  BY <1>0, <1>3, SpendShape DEF Shape, BudgetShape
<1>5. HistoryShape' /\ MemoryShape'
  BY <1>0, <1>1 DEF Shape, HistoryShape, MemoryShape
<1>6. ControlShape'
  BY <1>0, <1>1, <1>3 DEF Shape, ControlShape, Label
<1>7. Complete'
  BY <1>0, <1>1, <1>3 DEF Complete, InHistory
<1>8. CASE Len(backup.data) < Len(snapshot.data) /\ backup' = More(snapshot, backup)
           /\ UNCHANGED <<pc, budget, stale>>
  <2>0. /\ Len(backup.data) + 1 \in 1 .. Len(snapshot.data)
        /\ Len(backup.data) \in Nat /\ Len(snapshot.data) <= Axes
        /\ snapshot.data[Len(backup.data) + 1] \in Nat
    BY <1>0, <1>8, Fields
  <2>1. /\ backup' \in File /\ backup'.exists = backup.exists
        /\ Len(backup'.data) = Len(backup.data) + 1
        /\ \A i \in 1 .. Len(backup.data) : backup'.data[i] = backup.data[i]
        /\ backup'.data[Len(backup.data) + 1] = snapshot.data[Len(backup.data) + 1]
    BY <1>0, <1>8, <2>0, MoreIsLonger DEF Shape, FilesShape
  <2>2. Prefix(backup'.data, snapshot.data)
    BY <1>2, <2>0, <2>1 DEF Prefix
  <2>8. Len(backup'.data) <= Len(snapshot.data) /\ Len(backup'.data) <= Axes
    BY <1>0, <2>0, <2>1, Fields, PersistenceAssumption
  <2>3. FilesShape'
    BY <1>0, <1>1, <2>1, <2>8 DEF Shape, FilesShape
  <2>4. \A i \in 1 .. Len(backup'.data) : backup'.data[i] + budget.homes <= MaxHomes
    BY <1>0, <2>0, <2>1, <2>2 DEF Bounds, Prefix
  <2>5. Bounds'
    BY <1>0, <1>1, <1>4, <2>4 DEF Bounds
  <2>6. Standing'
    BY <1>0, <1>1, <1>2, <1>8, <2>1, <2>2, <2>8 DEF Standing, Whole
  <2>7. Fresh'
    BY <1>0, <1>1, <1>8 DEF Fresh, Within, Whole
  <2> QED BY <1>4, <1>5, <1>6, <1>7, <2>3, <2>5, <2>6, <2>7 DEF IInv, Shape
<1>9. CASE pc' = "open" /\ backup' = backup
  <2>1. FilesShape' /\ Bounds'
    BY <1>0, <1>1, <1>4, <1>9 DEF Shape, FilesShape, Bounds
  <2>2. Standing'
    BY <1>0, <1>1, <1>9 DEF Standing, Whole
  <2>3. CASE stale'
    BY <1>0, <1>1, <1>4, <1>5, <1>6, <1>7, <1>9, <2>1, <2>2, <2>3
       DEF IInv, Shape, Fresh, Within, Whole
  <2>4. CASE ~stale'
    <3>1. Len(backup.data) = Len(snapshot.data) /\ ~outdated
      <4>1. pc' # pc /\ stale' # stale
        BY <1>1, <1>2, <1>9, <2>4
      <4>2. Len(backup.data) = Len(snapshot.data) /\ stale' = outdated
        BY <1>3, <4>1
      <4> QED BY <2>4, <4>2
    <3>2. backup.data = snapshot.data
      <4>1. backup.data \in Seq(Nat) /\ snapshot.data \in Seq(Nat)
        BY <1>0, Fields
      <4> QED BY <1>2, <3>1, <4>1, SeqEqual DEF Prefix
    <3>3. Fresh'
      BY <1>0, <1>1, <1>2, <1>9, <3>1, <3>2 DEF Fresh, Within, Whole
    <3> QED BY <1>4, <1>5, <1>6, <1>7, <2>1, <2>2, <3>3 DEF IInv, Shape
  <2> QED BY <2>3, <2>4
<1> QED BY <1>3, <1>8, <1>9

LEMMA SnapshotOpenKeeps == IInv /\ SnapshotOpen => IInv'
<1> SUFFICES ASSUME IInv, SnapshotOpen PROVE IInv'
  OBVIOUS
<1>0. Shape /\ Bounds /\ Standing /\ Complete /\ Fresh
  BY DEF IInv
<1>1. /\ UNCHANGED <<backup, history, last, pending, dirty, next, had, row, stale,
                     session, sound>>
      /\ pc = "open"
  BY DEF SnapshotOpen, At, memory, ghosts, flush
<1>2. \/ snapshot' = Empty /\ outdated' = FALSE /\ pc' = "write" /\ UNCHANGED budget
      \/ Spend("failures") /\ pc' = "idle" /\ UNCHANGED <<snapshot, outdated>>
  BY DEF SnapshotOpen, Fail, Goto
<1>3. BudgetShape' /\ budget'.homes = budget.homes
  BY <1>0, <1>2, SpendShape DEF Shape, BudgetShape
<1>4. HistoryShape' /\ MemoryShape'
  BY <1>0, <1>1 DEF Shape, HistoryShape, MemoryShape
<1>5. ControlShape'
  BY <1>0, <1>1, <1>2 DEF Shape, ControlShape, Label
<1>6. Complete'
  BY <1>0, <1>1, <1>2 DEF Complete, InHistory
<1>7. CASE snapshot' = Empty /\ outdated' = FALSE /\ pc' = "write"
  <2>1. snapshot' \in File /\ snapshot'.exists = TRUE /\ Len(snapshot'.data) = 0
        /\ Len(snapshot'.data) <= Axes
    BY <1>7, EmptyIsFile, PersistenceAssumption
  <2>2. FilesShape'
    BY <1>0, <1>1, <2>1 DEF Shape, FilesShape
  <2>3. Bounds'
    <3>1. \A i \in 1 .. Len(snapshot'.data) : snapshot'.data[i] + budget.homes <= MaxHomes
      BY <2>1
    <3> QED BY <1>0, <1>1, <1>3, <3>1 DEF Bounds
  <2>4. Prefix(snapshot'.data, last')
    BY <2>1 DEF Prefix
  <2>5. Standing'
    BY <1>0, <1>1, <1>7, <2>1, <2>4 DEF Standing
  <2>6. ~Whole(snapshot')
    BY <2>1, PersistenceAssumption DEF Whole
  <2>7. Fresh'
    BY <1>0, <1>1, <1>7, <2>1, <2>6 DEF Fresh, Within, Whole
  <2> QED BY <1>3, <1>4, <1>5, <1>6, <2>2, <2>3, <2>5, <2>7 DEF IInv, Shape
<1>8. CASE pc' = "idle" /\ UNCHANGED <<snapshot, outdated>>
  <2>1. FilesShape' /\ Bounds'
    BY <1>0, <1>1, <1>3, <1>8 DEF Shape, FilesShape, Bounds
  <2>2. Standing'
    BY <1>0, <1>1, <1>8 DEF Standing, Whole
  <2>3. Fresh'
    BY <1>0, <1>1, <1>8 DEF Fresh, Within, Whole
  <2> QED BY <1>3, <1>4, <1>5, <1>6, <2>1, <2>2, <2>3 DEF IInv, Shape
<1> QED BY <1>2, <1>7, <1>8

LEMMA SnapshotWriteKeeps == IInv /\ SnapshotWrite => IInv'
<1> SUFFICES ASSUME IInv, SnapshotWrite PROVE IInv'
  OBVIOUS
<1>0. Shape /\ Bounds /\ Standing /\ Complete /\ Fresh
  BY DEF IInv
<1>1. /\ UNCHANGED <<backup, history, last, pending, dirty, next, had, row, stale,
                     session, sound, outdated>>
      /\ pc = "write"
  BY DEF SnapshotWrite, At, memory, ghosts, flush
<1>2. /\ snapshot.exists /\ ~outdated /\ Prefix(snapshot.data, last) /\ row = 1
      /\ dirty /\ pending # <<>>
  BY <1>0, <1>1 DEF Standing
<1>3. \/ /\ Len(snapshot.data) < Axes /\ snapshot' = More([data |-> last], snapshot)
         /\ UNCHANGED <<pc, budget>>
      \/ Len(snapshot.data) = Axes /\ pc' = "history" /\ UNCHANGED <<snapshot, budget>>
      \/ /\ Spend("failures") /\ UNCHANGED snapshot
         /\ \/ pc' = "idle"
            \/ pc' = "restore" /\ backup.exists
  <2>1. Goto(IF had /\ backup.exists THEN "restore" ELSE "idle")
        => pc' = "idle" \/ (pc' = "restore" /\ backup.exists)
    BY DEF Goto
  <2>2. Goto(IF pending = <<>> THEN "rows" ELSE "history") => pc' = "history"
    BY <1>2 DEF Goto
  <2> QED BY <2>1, <2>2 DEF SnapshotWrite, Fail
<1>4. BudgetShape' /\ budget'.homes = budget.homes
  BY <1>0, <1>3, SpendShape DEF Shape, BudgetShape
<1>5. HistoryShape' /\ MemoryShape'
  BY <1>0, <1>1 DEF Shape, HistoryShape, MemoryShape
<1>6. ControlShape'
  BY <1>0, <1>1, <1>3 DEF Shape, ControlShape, Label
<1>7. Complete'
  BY <1>0, <1>1, <1>3 DEF Complete, InHistory
<1>8. CASE Len(snapshot.data) < Axes /\ snapshot' = More([data |-> last], snapshot)
           /\ UNCHANGED <<pc, budget>>
  <2> DEFINE n == Len(snapshot.data)
  <2>1. n \in Nat /\ n + 1 \in 1 .. Axes
    BY <1>0, <1>8, Fields, PersistenceAssumption
  <2>2. [data |-> last].data = last /\ last[n + 1] \in Nat
    BY <1>0, <2>1 DEF Shape, MemoryShape
  <2>3. /\ snapshot' \in File /\ snapshot'.exists = snapshot.exists
        /\ Len(snapshot'.data) = n + 1
        /\ \A i \in 1 .. n : snapshot'.data[i] = snapshot.data[i]
        /\ snapshot'.data[n + 1] = last[n + 1]
    BY <1>0, <1>8, <2>2, MoreIsLonger DEF Shape, FilesShape
  <2>4. Prefix(snapshot'.data, last)
    BY <1>2, <2>1, <2>3 DEF Prefix
  <2>5. Len(snapshot'.data) <= Axes
    BY <2>1, <2>3
  <2>6. FilesShape'
    BY <1>0, <1>1, <2>3, <2>5 DEF Shape, FilesShape
  <2>7. \A i \in 1 .. Len(snapshot'.data) : snapshot'.data[i] + budget.homes <= MaxHomes
    <3>0. Len(snapshot'.data) \in 1 .. Axes
      BY <2>1, <2>3
    <3> SUFFICES ASSUME NEW i \in 1 .. Len(snapshot'.data)
                 PROVE  snapshot'.data[i] + budget.homes <= MaxHomes
      OBVIOUS
    <3>1. i \in 1 .. Axes /\ snapshot'.data[i] = last[i]
      BY <2>4, <3>0, PersistenceAssumption DEF Prefix
    <3>2. last[i] \in Nat /\ last[i] < next /\ next \in Nat /\ budget.homes \in Nat
      BY <1>0, <3>1, Fields DEF Shape, MemoryShape, Bounds
    <3> QED BY <1>0, <3>1, <3>2, PersistenceAssumption DEF Bounds
  <2>8. Bounds'
    BY <1>0, <1>1, <1>4, <2>7 DEF Bounds
  <2>9. Standing'
    BY <1>0, <1>1, <1>2, <1>8, <2>3, <2>4 DEF Standing
  <2>10. Whole(snapshot') => snapshot'.data = last
    <3>1. snapshot'.data \in Seq(Nat) /\ last \in [1 .. Axes -> Nat]
      BY <1>0, <2>3 DEF File, Shape, MemoryShape
    <3>2. Len(snapshot'.data) = Axes =>
            \A i \in 1 .. Axes : snapshot'.data[i] = last[i]
      BY <2>4 DEF Prefix
    <3> QED BY <3>1, <3>2, LastIsData DEF Whole
  <2>11. Fresh'
    BY <1>0, <1>1, <1>2, <1>8, <2>3, <2>10 DEF Fresh, Within, Whole
  <2> QED BY <1>4, <1>5, <1>6, <1>7, <2>6, <2>8, <2>9, <2>11 DEF IInv, Shape
<1>9. CASE /\ UNCHANGED snapshot
           /\ \/ Len(snapshot.data) = Axes /\ pc' = "history"
              \/ pc' = "idle"
              \/ pc' = "restore" /\ backup.exists
  <2>1. FilesShape' /\ Bounds'
    BY <1>0, <1>1, <1>4, <1>9 DEF Shape, FilesShape, Bounds
  <2>2. pc' = "history" => Whole(snapshot) /\ snapshot.data = last
    <3>1. snapshot.data \in Seq(Nat) /\ last \in [1 .. Axes -> Nat]
      BY <1>0, Fields DEF Shape, MemoryShape
    <3>2. pc' = "history" => Len(snapshot.data) = Axes
      BY <1>9
    <3>3. Len(snapshot.data) = Axes =>
            \A i \in 1 .. Axes : snapshot.data[i] = last[i]
      BY <1>2 DEF Prefix
    <3> QED BY <1>2, <3>1, <3>2, <3>3, LastIsData DEF Whole
  <2>3. Standing'
    BY <1>0, <1>1, <1>2, <1>9, <2>2 DEF Standing, Whole
  <2>4. Fresh'
    BY <1>0, <1>1, <1>9 DEF Fresh, Within, Whole
  <2> QED BY <1>4, <1>5, <1>6, <1>7, <2>1, <2>3, <2>4 DEF IInv, Shape
<1> QED BY <1>3, <1>8, <1>9

LEMMA RestoreOpenKeeps == IInv /\ RestoreOpen => IInv'
<1> SUFFICES ASSUME IInv, RestoreOpen PROVE IInv'
  OBVIOUS
<1>0. Shape /\ Bounds /\ Standing /\ Complete /\ Fresh
  BY DEF IInv
<1>1. /\ UNCHANGED <<backup, history, last, pending, dirty, next, had, row, stale,
                     session, sound>>
      /\ pc = "restore"
  BY DEF RestoreOpen, At, memory, ghosts, flush
<1>2. \/ snapshot' = Empty /\ outdated' = stale /\ pc' = "restore copy" /\ UNCHANGED budget
      \/ Spend("failures") /\ pc' = "idle" /\ UNCHANGED <<snapshot, outdated>>
  BY DEF RestoreOpen, Fail, Goto
<1>3. BudgetShape' /\ budget'.homes = budget.homes
  BY <1>0, <1>2, SpendShape DEF Shape, BudgetShape
<1>4. HistoryShape' /\ MemoryShape'
  BY <1>0, <1>1 DEF Shape, HistoryShape, MemoryShape
<1>5. ControlShape'
  BY <1>0, <1>1, <1>2 DEF Shape, ControlShape, Label
<1>6. Complete'
  BY <1>0, <1>1, <1>2 DEF Complete, InHistory
<1>7. CASE snapshot' = Empty /\ outdated' = stale /\ pc' = "restore copy"
  <2>1. snapshot' \in File /\ snapshot'.exists = TRUE /\ Len(snapshot'.data) = 0
        /\ Len(snapshot'.data) <= Axes /\ Len(snapshot'.data) <= Len(backup.data)
    <3>1. Len(backup.data) \in Nat
      BY <1>0, Fields
    <3>2. snapshot' \in File /\ snapshot'.exists = TRUE /\ Len(snapshot'.data) = 0
      BY <1>7, EmptyIsFile
    <3> QED BY <3>1, <3>2, PersistenceAssumption
  <2>2. FilesShape'
    BY <1>0, <1>1, <2>1 DEF Shape, FilesShape
  <2>3. Bounds'
    <3>1. \A i \in 1 .. Len(snapshot'.data) : snapshot'.data[i] + budget.homes <= MaxHomes
      BY <2>1
    <3> QED BY <1>0, <1>1, <1>3, <3>1 DEF Bounds
  <2>4. Prefix(snapshot'.data, backup.data)
    BY <2>1 DEF Prefix
  <2>5. Standing'
    BY <1>0, <1>1, <1>7, <2>1, <2>4 DEF Standing
  <2>6. ~Whole(snapshot')
    BY <2>1, PersistenceAssumption DEF Whole
  <2>7. Fresh'
    BY <1>0, <1>1, <1>7, <2>1, <2>6 DEF Fresh, Within, Whole
  <2> QED BY <1>3, <1>4, <1>5, <1>6, <2>2, <2>3, <2>5, <2>7 DEF IInv, Shape
<1>8. CASE pc' = "idle" /\ UNCHANGED <<snapshot, outdated>>
  <2>1. FilesShape' /\ Bounds'
    BY <1>0, <1>1, <1>3, <1>8 DEF Shape, FilesShape, Bounds
  <2>2. Standing'
    BY <1>0, <1>1, <1>8 DEF Standing, Whole
  <2>3. Fresh'
    BY <1>0, <1>1, <1>8 DEF Fresh, Within, Whole
  <2> QED BY <1>3, <1>4, <1>5, <1>6, <2>1, <2>2, <2>3 DEF IInv, Shape
<1> QED BY <1>2, <1>7, <1>8

LEMMA RestoreCopyKeeps == IInv /\ RestoreCopy => IInv'
<1> SUFFICES ASSUME IInv, RestoreCopy PROVE IInv'
  OBVIOUS
<1>0. Shape /\ Bounds /\ Standing /\ Complete /\ Fresh
  BY DEF IInv
<1>1. /\ UNCHANGED <<backup, history, last, pending, dirty, next, had, row, stale,
                     session, sound, outdated>>
      /\ pc = "restore copy"
  BY DEF RestoreCopy, At, memory, ghosts, flush
<1>2. /\ snapshot.exists /\ backup.exists /\ outdated = stale /\ dirty
      /\ Len(snapshot.data) <= Len(backup.data) /\ Prefix(snapshot.data, backup.data)
  BY <1>0, <1>1 DEF Standing
<1>3. \/ /\ Len(snapshot.data) < Len(backup.data) /\ snapshot' = More(backup, snapshot)
         /\ UNCHANGED <<pc, budget>>
      \/ pc' = "idle" /\ UNCHANGED snapshot /\ (UNCHANGED budget \/ Spend("failures"))
  BY DEF RestoreCopy, Fail, Goto
<1>4. BudgetShape' /\ budget'.homes = budget.homes
  BY <1>0, <1>3, SpendShape DEF Shape, BudgetShape
<1>5. HistoryShape' /\ MemoryShape'
  BY <1>0, <1>1 DEF Shape, HistoryShape, MemoryShape
<1>6. ControlShape'
  BY <1>0, <1>1, <1>3 DEF Shape, ControlShape, Label
<1>7. Complete'
  BY <1>0, <1>1, <1>3 DEF Complete, InHistory
<1>8. CASE Len(snapshot.data) < Len(backup.data) /\ snapshot' = More(backup, snapshot)
           /\ UNCHANGED <<pc, budget>>
  <2>0. /\ Len(snapshot.data) + 1 \in 1 .. Len(backup.data)
        /\ Len(snapshot.data) \in Nat /\ Len(backup.data) \in Nat
        /\ Len(backup.data) <= Axes
        /\ backup.data[Len(snapshot.data) + 1] \in Nat
    BY <1>0, <1>8, Fields
  <2>1. /\ snapshot' \in File /\ snapshot'.exists = snapshot.exists
        /\ Len(snapshot'.data) = Len(snapshot.data) + 1
        /\ \A i \in 1 .. Len(snapshot.data) : snapshot'.data[i] = snapshot.data[i]
        /\ snapshot'.data[Len(snapshot.data) + 1] = backup.data[Len(snapshot.data) + 1]
    BY <1>0, <1>8, <2>0, MoreIsLonger DEF Shape, FilesShape
  <2>2. Prefix(snapshot'.data, backup.data)
    BY <1>2, <2>0, <2>1 DEF Prefix
  <2>3. Len(snapshot'.data) <= Len(backup.data) /\ Len(snapshot'.data) <= Axes
        /\ Len(snapshot'.data) \in Nat
    BY <2>0, <2>1, PersistenceAssumption
  <2>4. FilesShape'
    BY <1>0, <1>1, <2>1, <2>3 DEF Shape, FilesShape
  <2>5. \A i \in 1 .. Len(snapshot'.data) : snapshot'.data[i] + budget.homes <= MaxHomes
    BY <1>0, <2>0, <2>3, <2>2 DEF Bounds, Prefix
  <2>6. Bounds'
    BY <1>0, <1>1, <1>4, <2>5 DEF Bounds
  <2>7. Standing'
    BY <1>0, <1>1, <1>2, <1>8, <2>1, <2>2, <2>3 DEF Standing
  <2>8. Len(snapshot'.data) = Axes => snapshot'.data = backup.data
    <3>1. snapshot'.data \in Seq(Nat) /\ backup.data \in Seq(Nat)
      BY <1>0, <2>1, Fields DEF File
    <3>2. Len(snapshot'.data) = Axes => Len(snapshot'.data) = Len(backup.data)
      BY <2>0, <2>3, PersistenceAssumption
    <3> QED BY <2>2, <3>1, <3>2, SeqEqual DEF Prefix
  <2>9. Whole(snapshot') => snapshot'.data = backup.data /\ Whole(backup)
    BY <1>2, <2>8 DEF Whole
  <2>10. Fresh'
    <3>1. sound /\ Whole(snapshot') /\ ~outdated => Within(backup.data)
      BY <1>0, <1>1, <1>2, <2>9 DEF Fresh
    <3>2. snapshot'.exists
      BY <1>2, <2>1
    <3> QED BY <1>0, <1>1, <1>8, <2>9, <3>1, <3>2 DEF Fresh, Within, Whole
  <2> QED BY <1>4, <1>5, <1>6, <1>7, <2>4, <2>6, <2>7, <2>10 DEF IInv, Shape
<1>9. CASE pc' = "idle" /\ UNCHANGED snapshot
  <2>1. FilesShape' /\ Bounds'
    BY <1>0, <1>1, <1>4, <1>9 DEF Shape, FilesShape, Bounds
  <2>2. Standing'
    BY <1>0, <1>1, <1>9 DEF Standing, Whole
  <2>3. Fresh'
    BY <1>0, <1>1, <1>9 DEF Fresh, Within, Whole
  <2> QED BY <1>4, <1>5, <1>6, <1>7, <2>1, <2>2, <2>3 DEF IInv, Shape
<1> QED BY <1>3, <1>8, <1>9

-----------------------------------------------------------------------------
(* The steps that write the history.                                       *)

LEMMA LineAdded ==
  ASSUME Shape, Bounds, Complete, NEW text \in Text, NEW seq \in Nat, seq <= MaxHomes,
         text = "fragment" => seq = 0,
         history' = [history EXCEPT !.lines = Write(@, text, seq)]
  PROVE  /\ HistoryShape'
         /\ \A j \in 1 .. Len(history'.lines) :
              \/ \E i \in 1 .. Len(history.lines) :
                   history'.lines[j].seq = history.lines[i].seq
              \/ history'.lines[j].seq = seq
         /\ \A j \in 1 .. Len(history'.lines) : history'.lines[j].seq <= MaxHomes
         /\ \A j \in 1 .. Len(history'.lines) :
              history'.lines[j].text = "fragment" => history'.lines[j].seq = 0
         /\ InHistory(seq)'
         /\ \A s \in Nat \ {0} : InHistory(s) => InHistory(s)'
<1> DEFINE W == Write(history.lines, text, seq)
<1>1. history.lines \in Seq(Line) /\ history \in [exists : BOOLEAN, lines : Seq(Line)]
  BY Fields DEF Shape, HistoryShape
<1>2. Written(history.lines, W, text, seq)
  BY <1>1, WriteKeepsLines
<1>3. history' = [history EXCEPT !.lines = W]
  OBVIOUS
<1> HIDE DEF W
<1>4. HistoryShape' /\ history'.lines = W
  BY <1>1, <1>2, <1>3 DEF HistoryShape, Written
<1>5. \A j \in 1 .. Len(W) : \/ \E i \in 1 .. Len(history.lines) : W[j].seq = history.lines[i].seq
                             \/ W[j].seq = seq
  BY <1>2 DEF Written
<1>6. \A j \in 1 .. Len(W) : W[j].seq <= MaxHomes
  BY <1>5 DEF Bounds
<1>7. \A j \in 1 .. Len(W) : W[j].text = "fragment" => W[j].seq = 0
  BY <1>2 DEF Complete, Written
<1>8. InHistory(seq)'
  BY <1>2, <1>4 DEF InHistory, Written
<1>9. \A s \in Nat \ {0} : InHistory(s) => InHistory(s)'
  BY <1>2, <1>4 DEF InHistory, Complete, Written
<1> QED BY <1>4, <1>5, <1>6, <1>7, <1>8, <1>9

(* A write of the flush keeps the invariant whatever the thread does next. *)
LEMMA LineKeeps ==
  ASSUME IInv, pc \in {"header", "rows"},
         NEW text \in Text, NEW seq \in Nat, NEW a \in 1 .. Axes, seq <= last[a],
         text = "fragment" => seq = 0,
         history' = [history EXCEPT !.lines = Write(@, text, seq)],
         UNCHANGED <<snapshot, backup, memory, had, stale, ghosts, outdated>>,
         UNCHANGED budget \/ Spend("failures"),
         \/ pc' = "idle" /\ row' = row
         \/ pc' = "rows" /\ row' = row /\ row = 1
         \/ /\ pc' = "rows" /\ pc = "rows" /\ row' = row + 1 /\ row <= Len(pending)
            /\ seq = pending[row]
  PROVE  IInv'
<1>0. Shape /\ Bounds /\ Standing /\ Complete /\ Fresh
  BY DEF IInv
<1>1. UNCHANGED <<snapshot, backup, last, pending, dirty, next, had, stale, session,
                  sound, outdated>>
  BY DEF memory, ghosts
<1>2. BudgetShape' /\ budget'.homes = budget.homes
  BY <1>0, SpendShape DEF Shape, BudgetShape
<1>3. /\ snapshot.exists /\ snapshot.data = last /\ ~outdated /\ dirty
      /\ Len(snapshot.data) = Axes /\ pending # <<>>
  BY <1>0 DEF Standing, Whole
<1>4. last[a] \in Nat /\ last[a] < next /\ next \in Nat /\ budget.homes \in Nat
      /\ row \in Nat \ {0} /\ Len(pending) \in Nat
  BY <1>0, Fields DEF Bounds, Shape, MemoryShape
<1>5. seq <= MaxHomes
  BY SMTT(60), <1>0, <1>4, PersistenceAssumption DEF Bounds
<1>6. /\ HistoryShape'
      /\ \A j \in 1 .. Len(history'.lines) :
           \/ \E i \in 1 .. Len(history.lines) :
                history'.lines[j].seq = history.lines[i].seq
           \/ history'.lines[j].seq = seq
      /\ \A j \in 1 .. Len(history'.lines) : history'.lines[j].seq <= MaxHomes
      /\ \A j \in 1 .. Len(history'.lines) :
           history'.lines[j].text = "fragment" => history'.lines[j].seq = 0
      /\ InHistory(seq)'
      /\ \A s \in Nat \ {0} : InHistory(s) => InHistory(s)'
  BY <1>0, <1>5, LineAdded
<1>7. pc' \in {"idle", "rows"} /\ row' \in Nat \ {0}
  BY <1>4
<1>8. row' <= MaxHomes + 1 /\ (pc' = "rows" => row' <= Len(pending) + 1)
  <2>1. row <= MaxHomes + 1 /\ Len(pending) <= MaxHomes
    BY SMTT(60), <1>0, <1>4, PersistenceAssumption DEF Bounds
  <2>2. CASE pc' = "idle" /\ row' = row
    BY <2>1, <2>2
  <2>3. CASE pc' = "rows" /\ row' = row /\ row = 1
    BY <1>4, <2>1, <2>3
  <2>4. CASE pc' = "rows" /\ row' = row + 1 /\ row <= Len(pending)
    BY SMTT(60), <1>4, <2>1, <2>4, PersistenceAssumption
  <2> QED BY <2>2, <2>3, <2>4
<1>9. Shape'
  <2>1. FilesShape'
    BY <1>0, <1>1 DEF Shape, FilesShape
  <2>2. MemoryShape'
    BY <1>0, <1>1, <1>7 DEF Shape, MemoryShape
  <2>3. ControlShape'
    BY <1>0, <1>1, <1>7 DEF Shape, ControlShape, Label
  <2> QED BY <1>2, <1>6, <2>1, <2>2, <2>3 DEF Shape
<1>10. Bounds'
  BY <1>0, <1>1, <1>2, <1>6, <1>8 DEF Bounds
<1>11. Standing'
  <2>1. Whole(snapshot)' /\ (snapshot.data = last)'
    BY <1>1, <1>3 DEF Whole
  <2>2. dirty' /\ pending' # <<>> /\ ~outdated'
    BY <1>1, <1>3
  <2>3. pc' = "rows" => row' <= Len(pending') + 1
    BY <1>1, <1>8
  <2>4. pc' = "idle" \/ pc' = "rows"
    BY <1>7
  <2> QED BY <2>1, <2>2, <2>3, <2>4 DEF Standing
<1>12. Complete'
  <2>1. \A s \in session' : InHistory(s)' \/ \E i \in 1 .. Len(pending') : pending'[i] = s
    BY <1>0, <1>1, <1>6 DEF Complete, Shape, MemoryShape
  <2>2. pc' = "rows" => \A i \in 1 .. row' - 1 : InHistory(pending[i])'
    <3> SUFFICES ASSUME pc' = "rows", NEW i \in 1 .. row' - 1
                 PROVE  InHistory(pending[i])'
      OBVIOUS
    <3>1. i \in 1 .. Len(pending) /\ pending[i] \in Nat \ {0}
      <4>1. i \in 1 .. Len(pending)
        BY <1>4, <1>7, <1>8
      <4> QED BY <1>0, <4>1 DEF Shape, MemoryShape
    <3>2. CASE row' = row
      <4>1. row = 1
        BY <1>4, <3>2
      <4> QED BY <3>2, <4>1
    <3>3. CASE row' = row + 1 /\ pc = "rows" /\ seq = pending[row]
      <4>1. CASE i = row
        BY <1>1, <1>6, <3>3, <4>1
      <4>2. CASE i # row
        <5>1. i \in 1 .. row - 1
          BY <1>4, <3>3, <4>2
        <5>2. InHistory(pending[i])
          BY <1>0, <3>3, <5>1 DEF Complete
        <5> QED BY <1>1, <1>6, <3>1, <5>2
      <4> QED BY <4>1, <4>2
    <3> QED BY <1>4, <3>2, <3>3
  <2> QED BY <1>1, <1>6, <2>1, <2>2 DEF Complete
<1>13. Fresh'
  <2>1. sound => Within(last)'
    <3> SUFFICES ASSUME sound, NEW j \in 1 .. Len(history'.lines)
                 PROVE  \E b \in 1 .. Axes : history'.lines[j].seq <= last[b]
      BY <1>1 DEF Within
    <3>1. CASE history'.lines[j].seq = seq
      BY <3>1
    <3>2. CASE \E i \in 1 .. Len(history.lines) :
                 history'.lines[j].seq = history.lines[i].seq
      BY <1>0, <3>2 DEF Fresh, Within
    <3> QED BY <1>6, <3>1, <3>2
  <2>2. snapshot'.data = last' /\ snapshot'.exists
    BY <1>1, <1>3
  <2> QED BY <1>0, <1>1, <1>7, <2>1, <2>2 DEF Fresh, Within
<1> QED BY <1>9, <1>10, <1>11, <1>12, <1>13 DEF IInv

(* A step at the history that writes no line.                              *)
LEMMA NoLineKeeps ==
  ASSUME IInv, pc \in {"history", "header", "rows"},
         history' \in {history, [history EXCEPT !.exists = TRUE]},
         UNCHANGED <<snapshot, backup, memory, flush, ghosts, outdated>>,
         UNCHANGED budget \/ Spend("failures"),
         \/ pc' = "idle"
         \/ pc = "history" /\ (pc' = "header" \/ pc' = "rows")
  PROVE  IInv'
<1>0. Shape /\ Bounds /\ Standing /\ Complete /\ Fresh
  BY DEF IInv
<1>1. UNCHANGED <<snapshot, backup, last, pending, dirty, next, had, row, stale, session,
                  sound, outdated>>
  BY DEF memory, ghosts, flush
<1>2. BudgetShape' /\ budget'.homes = budget.homes
  BY <1>0, SpendShape DEF Shape, BudgetShape
<1>3. HistoryShape' /\ history'.lines = history.lines
  BY <1>0 DEF Shape, HistoryShape
<1>4. pc = "history" => row = 1
  BY <1>0 DEF Standing
<1>5. Len(pending) \in Nat /\ pc' \in {"idle", "header", "rows"}
  BY <1>0, Fields
<1>11. Whole(snapshot) /\ snapshot.data = last /\ ~outdated /\ dirty /\ pending # <<>>
  BY <1>0 DEF Standing
<1>6. Shape'
  <2>1. FilesShape' /\ MemoryShape'
    BY <1>0, <1>1 DEF Shape, FilesShape, MemoryShape
  <2>2. ControlShape'
    BY <1>0, <1>1 DEF Shape, ControlShape, Label
  <2> QED BY <1>2, <1>3, <2>1, <2>2 DEF Shape
<1>7. Bounds'
  BY <1>0, <1>1, <1>2, <1>3 DEF Bounds
<1>8. Standing'
  <2>1. pc' = "rows" \/ pc' = "header" => row' = 1 /\ row' <= Len(pending') + 1
    BY <1>1, <1>4, <1>5
  <2>2. dirty' /\ pending' # <<>> /\ ~outdated'
    BY <1>1, <1>11
  <2>3. Whole(snapshot)' /\ (snapshot.data = last)'
    BY <1>1, <1>11 DEF Whole
  <2>4. pc' = "idle" \/ pc' = "header" \/ pc' = "rows"
    BY <1>5
  <2> QED BY <2>1, <2>2, <2>3, <2>4 DEF Standing
<1>9. Complete'
  <2>1. pc' = "rows" => row' = 1
    BY <1>1, <1>4
  <2> QED BY <1>0, <1>1, <1>3, <2>1 DEF Complete, InHistory
<1>10. Fresh'
  <2>1. sound => Within(last)'
    BY <1>0, <1>1, <1>3 DEF Fresh, Within
  <2>2. snapshot'.data = last' /\ snapshot'.exists
    BY <1>1, <1>11 DEF Whole
  <2> QED BY <1>0, <1>1, <1>5, <2>1, <2>2 DEF Fresh, Within
<1> QED BY <1>6, <1>7, <1>8, <1>9, <1>10 DEF IInv

LEMMA WriteFailsKeeps ==
  ASSUME IInv, pc \in {"header", "rows"}, WriteFails, UNCHANGED row,
         UNCHANGED <<snapshot, backup, memory, had, stale, ghosts, outdated>>
  PROVE  IInv'
<1>1. Spend("failures") /\ pc' = "idle"
  BY DEF WriteFails, Fail, Goto
<1>2. CASE UNCHANGED history
  BY <1>1, <1>2, NoLineKeeps DEF flush
<1>3. CASE history' = [history EXCEPT !.lines = Write(@, "fragment", 0)]
  <2>1. 1 \in 1 .. Axes /\ last[1] \in Nat
    BY PersistenceAssumption DEF IInv, Shape, MemoryShape
  <2>2. "fragment" \in Text /\ 0 \in Nat /\ 0 <= last[1]
    BY <2>1 DEF Text
  <2> QED BY <1>1, <1>3, <2>1, <2>2, LineKeeps
<1> QED BY <1>2, <1>3 DEF WriteFails

LEMMA HistoryOpenKeeps == IInv /\ HistoryOpen => IInv'
<1> SUFFICES ASSUME IInv, HistoryOpen PROVE IInv'
  OBVIOUS
<1>1. /\ pc = "history" /\ UNCHANGED <<snapshot, backup, memory, flush, ghosts, outdated>>
      /\ history' \in {history, [history EXCEPT !.exists = TRUE]}
      /\ UNCHANGED budget \/ Spend("failures")
      /\ pc' \in {"idle", "header", "rows"}
  BY DEF HistoryOpen, At, Goto, Fail
<1> QED BY <1>1, NoLineKeeps

LEMMA HistoryHeaderKeeps == IInv /\ HistoryHeader => IInv'
<1> SUFFICES ASSUME IInv, HistoryHeader PROVE IInv'
  OBVIOUS
<1>1. pc = "header" /\ UNCHANGED <<snapshot, backup, memory, flush, ghosts, outdated>>
  BY DEF HistoryHeader, At
<1>2. UNCHANGED <<had, row, stale>> /\ row = 1
  BY <1>1 DEF flush, IInv, Standing
<1>3. CASE WriteFails
  BY <1>1, <1>2, <1>3, WriteFailsKeeps
<1>4. CASE /\ history' = [history EXCEPT !.lines = Write(@, "header", 0)]
           /\ pc' = "rows" /\ UNCHANGED budget
  <2>1. 1 \in 1 .. Axes /\ last[1] \in Nat
    BY PersistenceAssumption DEF IInv, Shape, MemoryShape
  <2>2. "header" \in Text /\ "header" # "fragment" /\ 0 \in Nat /\ 0 <= last[1]
    BY <2>1 DEF Text
  <2> QED BY <1>1, <1>2, <1>4, <2>1, <2>2, LineKeeps
<1> QED BY <1>3, <1>4 DEF HistoryHeader, Goto

LEMMA HistoryRowKeeps == IInv /\ HistoryRow => IInv'
<1> SUFFICES ASSUME IInv, HistoryRow PROVE IInv'
  OBVIOUS
<1>1. /\ pc = "rows" /\ row <= Len(pending)
      /\ UNCHANGED <<snapshot, backup, memory, had, stale, ghosts, outdated>>
  BY DEF HistoryRow, At
<1>2. CASE WriteFails /\ UNCHANGED row
  BY <1>1, <1>2, WriteFailsKeeps
<1>3. CASE /\ history' = [history EXCEPT !.lines = Write(@, "row", pending[row])]
           /\ row' = row + 1 /\ UNCHANGED <<pc, budget>>
  <2>1. row \in 1 .. Len(pending) /\ pending[row] \in Nat /\ "row" \in Text
    BY <1>1, Fields DEF IInv, Shape, MemoryShape, Text
  <2>2. PICK a \in 1 .. Axes : pending[row] <= last[a]
    BY <2>1 DEF IInv, Fresh
  <2> QED BY <1>1, <1>3, <2>1, <2>2, LineKeeps
<1> QED BY <1>2, <1>3 DEF HistoryRow

LEMMA FlushEndKeeps == IInv /\ FlushEnd => IInv'
<1> SUFFICES ASSUME IInv, FlushEnd PROVE IInv'
  OBVIOUS
<1>0. Shape /\ Bounds /\ Standing /\ Complete /\ Fresh
  BY DEF IInv
<1>1. /\ UNCHANGED <<snapshot, backup, history, last, next, had, row, stale, budget,
                     session, sound, outdated>>
      /\ pc = "rows" /\ row > Len(pending) /\ dirty' = FALSE /\ pending' = <<>>
      /\ pc' = "idle"
  BY DEF FlushEnd, At, Goto, disk, flush, ghosts
<1>2. Whole(snapshot) /\ snapshot.data = last /\ row <= Len(pending) + 1
  BY <1>0, <1>1 DEF Standing
<1>3. row = Len(pending) + 1 /\ Len(pending) \in Nat
  BY <1>0, <1>1, <1>2, Fields DEF Shape, MemoryShape
<1>4. pending' \in Seq(Nat \ {0}) /\ Len(pending') = 0
  BY <1>1
<1>5. Shape'
  <2>1. FilesShape' /\ HistoryShape' /\ BudgetShape'
    BY <1>0, <1>1 DEF Shape, FilesShape, HistoryShape, BudgetShape
  <2>2. MemoryShape'
    BY <1>0, <1>1, <1>4 DEF Shape, MemoryShape
  <2>3. ControlShape'
    BY <1>0, <1>1 DEF Shape, ControlShape, Label
  <2> QED BY <2>1, <2>2, <2>3 DEF Shape
<1>6. Bounds'
  <2>1. Len(pending') + budget.homes <= MaxHomes
    BY <1>0, <1>3, <1>4, Fields, PersistenceAssumption DEF Bounds
  <2>2. \A i \in 1 .. Len(pending') : pending'[i] < next
    BY <1>4
  <2> QED BY <1>0, <1>1, <2>1, <2>2 DEF Bounds
<1>7. Standing'
  <2>1. Whole(snapshot)' /\ (snapshot.data = last)'
    BY <1>1, <1>2 DEF Whole
  <2> QED BY <1>1, <2>1 DEF Standing
<1>8. Complete'
  <2>1. \A s \in session : InHistory(s)
    <3> SUFFICES ASSUME NEW s \in session, NEW i \in 1 .. Len(pending), pending[i] = s
                 PROVE  InHistory(s)
      BY <1>0 DEF Complete
    <3>1. i \in 1 .. row - 1
      BY <1>3
    <3> QED BY <1>0, <1>1, <3>1 DEF Complete
  <2> QED BY <1>0, <1>1, <2>1 DEF Complete, InHistory
<1>9. Fresh'
  <2>1. \A i \in 1 .. Len(pending') : \E a \in 1 .. Axes : pending'[i] <= last'[a]
    BY <1>4
  <2> QED BY <1>0, <1>1, <2>1 DEF Fresh, Within, Whole
<1> QED BY <1>5, <1>6, <1>7, <1>8, <1>9 DEF IInv

-----------------------------------------------------------------------------
(* The end of the Core and its start.                                      *)

LEMMA CrashKeeps == IInv /\ Crash => IInv'
<1> SUFFICES ASSUME IInv, Crash PROVE IInv'
  OBVIOUS
<1>0. Shape /\ Bounds /\ Standing /\ Complete /\ Fresh
  BY DEF IInv
<1>1. /\ UNCHANGED <<snapshot, backup, history, last, pending, dirty, next, had, row,
                     stale, session, sound, outdated>>
      /\ pc' = "down" /\ Spend("crashes")
  BY DEF Crash, Goto, disk, memory, flush, ghosts
<1>2. BudgetShape' /\ budget'.homes = budget.homes
  BY <1>0, <1>1, SpendShape DEF Shape
<1>3. Shape'
  <2>1. FilesShape' /\ HistoryShape' /\ MemoryShape'
    BY <1>0, <1>1 DEF Shape, FilesShape, HistoryShape, MemoryShape
  <2>2. ControlShape'
    BY <1>0, <1>1 DEF Shape, ControlShape, Label
  <2> QED BY <1>2, <2>1, <2>2 DEF Shape
<1>4. Bounds'
  BY <1>0, <1>1, <1>2 DEF Bounds
<1>5. Standing'
  BY <1>0, <1>1 DEF Standing, Whole
<1>6. Complete'
  BY <1>0, <1>1 DEF Complete, InHistory
<1>7. Fresh'
  BY <1>0, <1>1 DEF Fresh, Within, Whole
<1> QED BY <1>3, <1>4, <1>5, <1>6, <1>7 DEF IInv

(* What is read from a file, or assumed when none can be read.             *)
LEMMA ParseShape ==
  ASSUME Shape, Bounds, NEW read \in BOOLEAN, NEW records,
         records = IF read THEN Parse(snapshot) ELSE None
  PROVE  /\ records \in [1 .. Axes -> Nat]
         /\ \A a \in 1 .. Axes : records[a] + budget.homes <= MaxHomes
         /\ read /\ Whole(snapshot) =>
              \A a \in 1 .. Axes : records[a] = snapshot.data[a]
<1>1. snapshot.data \in Seq(Nat) /\ Len(snapshot.data) \in 0 .. Axes
      /\ \A i \in 1 .. Len(snapshot.data) : snapshot.data[i] \in Nat
  BY Fields
<1>2. budget.homes \in Nat /\ budget.homes <= MaxHomes
  BY Fields, PersistenceAssumption DEF Bounds
<1>3. CASE read
  <2>1. \A a \in 1 .. Axes : records[a] = IF a <= Len(snapshot.data) THEN snapshot.data[a] ELSE 0
    BY <1>3 DEF Parse
  <2>2. \A a \in 1 .. Axes : records[a] \in Nat /\ records[a] + budget.homes <= MaxHomes
    <3> SUFFICES ASSUME NEW a \in 1 .. Axes
                 PROVE  records[a] \in Nat /\ records[a] + budget.homes <= MaxHomes
      OBVIOUS
    <3>1. CASE a <= Len(snapshot.data)
      <4>1. a \in 1 .. Len(snapshot.data)
        BY <1>1, <3>1, PersistenceAssumption
      <4> QED BY <1>1, <2>1, <3>1, <4>1 DEF Bounds
    <3>2. CASE ~(a <= Len(snapshot.data))
      BY <1>2, <2>1, <3>2
    <3> QED BY <3>1, <3>2
  <2>3. records \in [1 .. Axes -> Nat]
    BY <1>3, <2>2 DEF Parse
  <2> QED BY <1>1, <2>1, <2>2, <2>3 DEF Whole
<1>4. CASE ~read
  BY <1>2, <1>4 DEF None
<1> QED BY <1>3, <1>4

LEMMA InitializeKeeps == IInv /\ Initialize => IInv'
<1> SUFFICES ASSUME IInv, Initialize PROVE IInv'
  OBVIOUS
<1>0. Shape /\ Bounds /\ Standing /\ Complete /\ Fresh
  BY DEF IInv
<1>1. PICK read \in BOOLEAN :
        /\ IF read THEN UNCHANGED budget ELSE Spend("failures")
        /\ last' = IF read THEN Parse(snapshot) ELSE None
        /\ next' = IF read THEN NextAfter(Parse(snapshot)) ELSE 1
        /\ sound' = (sound /\ read /\ (Whole(snapshot) \/ ~snapshot.exists) /\ ~outdated)
  BY DEF Initialize, Fail
<1>2. /\ UNCHANGED <<snapshot, backup, history, outdated>>
      /\ pending' = <<>> /\ dirty' = FALSE /\ session' = {} /\ had' = FALSE /\ row' = 1
      /\ stale' = TRUE /\ pc' = "idle"
  BY DEF Initialize, Goto, disk
<1>3. BudgetShape' /\ budget'.homes = budget.homes
  BY <1>0, <1>1, SpendShape DEF Shape, BudgetShape
<1>4. budget.homes \in Nat /\ budget.homes <= MaxHomes
  BY <1>0, Fields, PersistenceAssumption DEF Bounds
<1>5. /\ last' \in [1 .. Axes -> Nat]
      /\ \A a \in 1 .. Axes : last'[a] + budget.homes <= MaxHomes
      /\ read /\ Whole(snapshot) => \A a \in 1 .. Axes : last'[a] = snapshot.data[a]
  BY <1>0, <1>1, ParseShape
<1>6. next' \in Nat \ {0} /\ next' + budget.homes <= MaxHomes + 1
      /\ \A a \in 1 .. Axes : last'[a] < next'
  <2> DEFINE m == MaxHomes - budget.homes
  <2>1. m \in Nat /\ \A a \in 1 .. Axes : last'[a] <= m
    BY <1>4, <1>5, PersistenceAssumption
  <2>2. CASE read
    <3>1. next' = NextAfter(last')
      BY <1>1, <2>2
    <3>2. /\ NextAfter(last') \in Nat \ {0} /\ NextAfter(last') <= m + 1
          /\ \A a \in 1 .. Axes : last'[a] < NextAfter(last')
      <4> HIDE DEF m
      <4> QED BY <1>5, <2>1, TopRecord
    <3> QED BY SMTT(60), <1>4, <3>1, <3>2, PersistenceAssumption
  <2>3. CASE ~read
    BY <1>1, <1>4, <2>3, PersistenceAssumption DEF None
  <2> QED BY <2>2, <2>3
<1>7. Shape'
  <2>1. FilesShape' /\ HistoryShape'
    BY <1>0, <1>2 DEF Shape, FilesShape, HistoryShape
  <2>2. MemoryShape'
    BY <1>2, <1>5, <1>6 DEF MemoryShape
  <2>3. ControlShape'
    <3>1. sound' \in BOOLEAN
      BY <1>1
    <3> QED BY <1>0, <1>2, <3>1 DEF Shape, ControlShape, Label
  <2> QED BY <1>3, <2>1, <2>2, <2>3 DEF Shape
<1>8. Bounds'
  BY <1>0, <1>2, <1>3, <1>4, <1>6, PersistenceAssumption DEF Bounds
<1>9. Standing'
  BY <1>2 DEF Standing
<1>10. Complete'
  BY <1>0, <1>2 DEF Complete
<1>11. Fresh'
  <2>1. sound' => sound /\ read /\ ~outdated /\ (Whole(snapshot) \/ ~snapshot.exists)
    BY <1>1
  <2>2. ASSUME sound' PROVE Within(last)'
    <3>1. CASE Whole(snapshot)
      BY <1>0, <1>2, <1>5, <2>1, <2>2, <3>1 DEF Fresh, Within
    <3>2. CASE ~snapshot.exists
      <4>1. \A i \in 1 .. Len(history.lines) : history.lines[i].seq = 0
        BY <1>0, <2>1, <2>2, <3>2 DEF Fresh
      <4>2. 1 \in 1 .. Axes /\ last'[1] \in Nat
        BY <1>5, PersistenceAssumption
      <4> QED BY <1>2, <4>1, <4>2 DEF Within
    <3> QED BY <2>1, <2>2, <3>1, <3>2
  <2>3. ASSUME sound', ~snapshot.exists
        PROVE  \A i \in 1 .. Len(history.lines) : history.lines[i].seq = 0
    BY <1>0, <2>1, <2>3 DEF Fresh
  <2>4. ASSUME sound', Whole(snapshot) PROVE Within(snapshot.data)
    BY <1>0, <2>1, <2>4 DEF Fresh
  <2> QED BY <1>2, <2>2, <2>3, <2>4 DEF Fresh, Within, Whole
<1> QED BY <1>7, <1>8, <1>9, <1>10, <1>11 DEF IInv

-----------------------------------------------------------------------------
(* The theorems.                                                           *)

LEMMA NextKeeps == IInv /\ [Next]_vars => IInv'
<1> SUFFICES ASSUME IInv, [Next]_vars PROVE IInv'
  OBVIOUS
<1>1. CASE \E a \in 1 .. Axes : QueueSuccessfulHome(a)
  BY <1>1, QueueKeeps
<1>2. CASE Flush
  BY <1>2, FlushPendingKeeps, BackupOpenKeeps, BackupCopyKeeps, SnapshotOpenKeeps,
     SnapshotWriteKeeps, RestoreOpenKeeps, RestoreCopyKeeps, HistoryOpenKeeps,
     HistoryHeaderKeeps, HistoryRowKeeps, FlushEndKeeps DEF Flush
<1>3. CASE Crash
  BY <1>3, CrashKeeps
<1>4. CASE Initialize
  BY <1>4, InitializeKeeps
<1>5. CASE UNCHANGED vars
  BY <1>5, StutterKeeps
<1> QED BY <1>1, <1>2, <1>3, <1>4, <1>5 DEF Next

(* The invariant of this module holds in every state, for every number of  *)
(* axes, HOMEs, failing calls and restarts.                                *)
THEOREM Invariance == Spec => []IInv
<1>1. IInv /\ [Next]_vars => IInv'
  BY NextKeeps
<1> QED BY Initially, <1>1, PTL DEF Spec

LEMMA FileType ==
  ASSUME NEW f \in File, Len(f.data) <= Axes,
         \A i \in 1 .. Len(f.data) : f.data[i] <= MaxHomes
  PROVE  f \in Files
<1>1. f = [exists |-> f.exists, data |-> f.data] /\ f.exists \in BOOLEAN /\ f.data \in Seq(Nat)
  BY DEF File
<1>2. Len(f.data) \in 0 .. Axes /\ f.data \in [1 .. Len(f.data) -> Nat]
  BY <1>1, LenProperties, PersistenceAssumption
<1>3. \A i \in 1 .. Len(f.data) : f.data[i] \in 0 .. MaxHomes
  BY <1>2, PersistenceAssumption
<1>4. f.data \in [1 .. Len(f.data) -> 0 .. MaxHomes]
  BY <1>2, <1>3
<1>5. f.data \in UNION {[1 .. n -> 0 .. MaxHomes] : n \in 0 .. Axes}
  BY <1>2, <1>4
<1> QED BY <1>1, <1>5 DEF Files

(* Every variable keeps its type: the sequence numbers of the records in   *)
(* memory and in the files stay below those of the run.                    *)
THEOREM TypeCorrect == Spec => []TypeOK
<1>1. IInv => TypeOK
  <2> SUFFICES ASSUME IInv PROVE TypeOK
    OBVIOUS
  <2>0. Shape /\ Bounds
    BY DEF IInv
  <2>1. budget.homes \in Nat
    BY <2>0, Fields
  <2>2. snapshot \in Files
    <3>0. \A i \in 1 .. Len(snapshot.data) :
            snapshot.data[i] \in Nat /\ snapshot.data[i] + budget.homes <= MaxHomes
      BY <2>0, Fields DEF Bounds
    <3>1. \A i \in 1 .. Len(snapshot.data) : snapshot.data[i] <= MaxHomes
      BY <2>1, <3>0, PersistenceAssumption
    <3> QED BY <2>0, <3>1, FileType DEF Shape, FilesShape
  <2>3. backup \in Files
    <3>0. \A i \in 1 .. Len(backup.data) :
            backup.data[i] \in Nat /\ backup.data[i] + budget.homes <= MaxHomes
      BY <2>0, Fields DEF Bounds
    <3>1. \A i \in 1 .. Len(backup.data) : backup.data[i] <= MaxHomes
      BY <2>1, <3>0, PersistenceAssumption
    <3> QED BY <2>0, <3>1, FileType DEF Shape, FilesShape
  <2>4. \A i \in 1 .. Len(history.lines) :
          history.lines[i].text \in Text /\ history.lines[i].seq \in 0 .. MaxHomes
    BY <2>0, Fields, PersistenceAssumption DEF Bounds
  <2>5. next \in 1 .. MaxHomes + 1 /\ row \in 1 .. MaxHomes + 1
    BY <2>0, <2>1, PersistenceAssumption DEF Bounds, Shape, MemoryShape
  <2>6. last \in [1 .. Axes -> 0 .. MaxHomes]
    <3>1. \A a \in 1 .. Axes : last[a] \in 0 .. MaxHomes
      BY <2>0, <2>5, PersistenceAssumption DEF Bounds, Shape, MemoryShape
    <3> QED BY <2>0, <3>1 DEF Shape, MemoryShape
  <2>7. pending \in Seq(1 .. MaxHomes)
    <3>1. pending \in Seq(Nat \ {0}) /\ Len(pending) \in Nat
      BY <2>0 DEF Shape, MemoryShape
    <3>2. \A i \in 1 .. Len(pending) : pending[i] \in 1 .. MaxHomes
      BY <2>0, <2>5, <3>1, PersistenceAssumption DEF Bounds
    <3>3. pending \in [1 .. Len(pending) -> 1 .. MaxHomes]
      BY <3>1, <3>2, LenProperties
    <3>4. pending \in UNION {[1 .. n -> 1 .. MaxHomes] : n \in Nat}
      BY <3>1, <3>3
    <3> QED BY <3>4, SeqDef, Zenon
  <2>8. session \subseteq 1 .. MaxHomes
    BY <2>0, <2>5, PersistenceAssumption DEF Bounds, Shape, MemoryShape
  <2>9. pc \in Label /\ dirty \in BOOLEAN /\ had \in BOOLEAN /\ stale \in BOOLEAN
        /\ sound \in BOOLEAN /\ outdated \in BOOLEAN
    BY <2>0 DEF Shape, ControlShape
  <2> QED BY <2>2, <2>3, <2>4, <2>5, <2>6, <2>7, <2>8, <2>9 DEF TypeOK, Text, Label
<1> QED BY <1>1, Invariance, PTL

(* Whatever failed on the way, a flush that ended has saved what was in    *)
(* memory.                                                                 *)
THEOREM FlushesAreOnDisk == Spec => []FlushedIsOnDisk
<1>1. IInv => FlushedIsOnDisk
  BY DEF IInv, Standing, FlushedIsOnDisk, At
<1> QED BY <1>1, Invariance, PTL

(* A HOME of this session that no longer waits is a line of the history.   *)
THEOREM HistoryStaysComplete == Spec => []HistoryIsComplete
<1>1. IInv => HistoryIsComplete
  <2> SUFFICES ASSUME IInv, pending = <<>>, NEW s \in session
               PROVE  s \in {history.lines[i].seq : i \in 1 .. Len(history.lines)}
    BY DEF HistoryIsComplete
  <2>1. InHistory(s)
    BY DEF IInv, Complete
  <2> QED BY <2>1 DEF InHistory
<1> QED BY <1>1, Invariance, PTL

(* The number of the next HOME is in no line of the history, unless a      *)
(* restart met a damaged, outdated or unreadable snapshot.                 *)
THEOREM SequenceStaysFresh == Spec => []SequenceIsFresh
<1>1. IInv => SequenceIsFresh
  <2> SUFFICES ASSUME IInv, sound, NEW i \in 1 .. Len(history.lines)
               PROVE  history.lines[i].seq < next
    BY DEF SequenceIsFresh
  <2>1. PICK a \in 1 .. Axes : history.lines[i].seq <= last[a]
    BY DEF IInv, Fresh, Within
  <2>2. last[a] \in Nat /\ last[a] < next /\ next \in Nat
    BY DEF IInv, Bounds, Shape, MemoryShape
  <2>3. history.lines[i].seq \in Nat
    BY Fields DEF IInv
  <2> QED BY <2>1, <2>2, <2>3
<1> QED BY <1>1, Invariance, PTL

-----------------------------------------------------------------------------
(* The axis command mailbox under HOME.                                    *)

(* Commands have numbers that were given out.                              *)
Numbered ==
  /\ \A i \in DOMAIN commands : commands[i].sequence < sequence
  /\ rt.at = "apply" => rt.command.sequence < sequence

(* They are queued in the order of their numbers, after the one in hand.   *)
InOrder ==
  /\ \A i, j \in DOMAIN commands :
       i < j => commands[i].sequence < commands[j].sequence
  /\ rt.at = "apply" =>
       \A i \in DOMAIN commands : rt.command.sequence < commands[i].sequence

(* A number whose command has been dealt with.                             *)
Past(s) == s < sequence /\ \A c \in Axis!OnTheWay : s < c.sequence

(* A command whose result is published, filed or about to be has been      *)
(* dealt with.                                                             *)
AnsweredIsPast ==
  /\ \A i \in DOMAIN results : Past(results[i].sequence)
  /\ \A i \in DOMAIN ledger : Past(ledger[i].sequence)
  /\ rt.at = "publish" => Past(rt.sequence)

(* The lease of the request is that of HOME, or outdated.                  *)
LeaseIsHomes ==
  /\ request.lease <= owner.generation
  /\ request.lease = owner.generation <=> owner.name = "HOME"

(* With a probe, a request that has ended without an error submits nothing *)
(* after its disarm: what is under way under its lease is the disarm or    *)
(* older, and nothing once the disarm is answered and forgotten.           *)
DisarmIsLast ==
  UsesProbe =>
    /\ request.active => request.disarm = Axis!Invalid
    /\ owner.name = "HOME" /\ ~request.active /\ ~request.error =>
         \A c \in Axis!OnTheWay :
           c.lease = request.lease => c.sequence <= request.disarm

(* The inductive invariant.                                                *)
AxisIInv ==
  /\ Axis!TypeOK
  /\ Numbered /\ InOrder /\ AnsweredIsPast /\ LeaseIsHomes /\ DisarmIsLast

-----------------------------------------------------------------------------
(* A nonempty set of the first natural numbers has a greatest one.         *)
LEMMA GreatestIsMember ==
  ASSUME NEW n \in Nat, NEW S, S \subseteq 1 .. n, S # {}
  PROVE  Axis!Max(S) \in S
<1> DEFINE T == {n - i : i \in S}
<1>1. T \subseteq Nat
  <2>1. ASSUME NEW i \in S PROVE n - i \in Nat
    <3>1. i \in 1 .. n
      OBVIOUS
    <3> QED BY <3>1
  <2> QED BY <2>1
<1>2. T # {}
  <2>1. PICK i \in S : TRUE
    OBVIOUS
  <2>2. n - i \in T
    BY <2>1
  <2> QED BY <2>2
<1>3. PICK t \in T : \A y \in T : <<y, t>> \notin OpToRel(<, Nat)
  <2>1. IsWellFoundedOn(OpToRel(<, Nat), Nat)
    BY NatLessThanWellFounded
  <2> QED
    BY <2>1, <1>1, <1>2, WFMin
<1>4. \A y \in T : ~(y < t)
  <2> HIDE DEF T
  <2> SUFFICES ASSUME NEW y \in T, y < t PROVE FALSE
    OBVIOUS
  <2>1. y \in Nat /\ t \in Nat
    BY <1>1
  <2>2. <<y, t>> \in {ss \in Nat \X Nat : ss[1] < ss[2]}
    BY <2>1
  <2> QED BY <1>3, <2>2 DEF OpToRel
<1>5. PICK x \in S : t = n - x
  BY <1>3
<1>6. \A y \in S : x >= y
  <2> SUFFICES ASSUME NEW y \in S PROVE x >= y
    OBVIOUS
  <2>1. n - y \in T
    OBVIOUS
  <2>2. ~(n - y < t)
    BY <2>1, <1>4
  <2>3. x \in 1 .. n /\ y \in 1 .. n
    OBVIOUS
  <2> QED BY <2>2, <2>3, <1>5
<1> QED
  BY <1>5, <1>6 DEF Axis!Max

(* What is under way are commands.                                         *)
LEMMA UnderWay ==
  ASSUME Axis!TypeOK, NEW c \in Axis!OnTheWay
  PROVE  c \in Axis!Command
<1>1. CASE \E i \in DOMAIN commands : c = commands[i]
  <2>1. commands \in Seq(Axis!Command)
    BY DEF Axis!TypeOK
  <2> QED BY <2>1, <1>1
<1>2. CASE rt.at = "apply" /\ c = rt.command
  <2>1. rt \in Axis!InHand
    BY DEF Axis!TypeOK
  <2> QED BY <2>1, <1>2 DEF Axis!InHand
<1> QED BY <1>1, <1>2 DEF Axis!OnTheWay

(* The invariant holds at the start.                                       *)
LEMMA AxisInit == Axis!Init => AxisIInv
<1> SUFFICES ASSUME Axis!Init PROVE AxisIInv
  OBVIOUS
<1>1. request \in Axis!Request
  BY DEF Axis!Init, Axis!Inactive, Axis!Request, Axis!Invalid, Axis!Run, Axis!HomeState
<1>2. ledger \in [0 .. ResultCapacity - 1 -> Axis!Receipt]
  BY HomeAxisAssumption DEF Axis!Init, Axis!Receipt, Axis!Outcome, Axis!Invalid
<1>3. Axis!TypeOK
  <2>1. rt \in Axis!InHand
    BY DEF Axis!Init, Axis!InHand
  <2>2. owner \in [name : {"NONE", "HOME", "SAFETY"}, generation : Nat \ {0}]
    BY DEF Axis!Init
  <2>3. commands \in Seq(Axis!Command) /\ results \in Seq(Axis!Receipt)
    BY DEF Axis!Init
  <2>4. /\ sequence \in Nat \ {0} /\ searches \in Nat /\ holds \in Nat
        /\ refused \in Nat /\ deferred \in Nat /\ sessions \in Nat
    BY DEF Axis!Init
  <2>5. axis \in {"IDLE", "VELOCITY", "MOVING", "STOPPING"} /\ scan \in {"results", "home"}
    BY DEF Axis!Init
  <2>6. emergency \in BOOLEAN
    BY DEF Axis!Init
  <2> QED BY <1>1, <1>2, <2>1, <2>2, <2>3, <2>4, <2>5, <2>6 DEF Axis!TypeOK
<1>4. Axis!OnTheWay = {}
  BY DEF Axis!Init, Axis!OnTheWay
<1>5. Numbered /\ InOrder
  BY DEF Axis!Init, Numbered, InOrder
<1>6. AnsweredIsPast
  <2>1. \A i \in DOMAIN ledger : ledger[i].sequence = 0
    BY DEF Axis!Init, Axis!Invalid
  <2> QED BY <1>4, <2>1 DEF Axis!Init, AnsweredIsPast, Past
<1>7. LeaseIsHomes
  BY DEF Axis!Init, LeaseIsHomes, Axis!Inactive, Axis!Invalid
<1>8. DisarmIsLast
  BY DEF Axis!Init, DisarmIsLast, Axis!Inactive, Axis!Invalid
<1> QED BY <1>3, <1>5, <1>6, <1>7, <1>8 DEF AxisIInv

(* What is answered or about to be is numbered.                            *)
LEMMA Receipts ==
  ASSUME Axis!TypeOK
  PROVE  /\ \A i \in DOMAIN results : results[i].sequence \in Nat
         /\ \A i \in DOMAIN ledger : ledger[i].sequence \in Nat
         /\ rt.at = "publish" => rt.sequence \in Nat
<1>1. ASSUME NEW i \in DOMAIN results PROVE results[i].sequence \in Nat
  <2>1. results \in Seq(Axis!Receipt)
    BY DEF Axis!TypeOK
  <2>2. results[i] \in Axis!Receipt
    BY <2>1
  <2> QED BY <2>2 DEF Axis!Receipt
<1>2. ASSUME NEW i \in DOMAIN ledger PROVE ledger[i].sequence \in Nat
  <2>1. ledger[i] \in Axis!Receipt
    BY DEF Axis!TypeOK
  <2> QED BY <2>1 DEF Axis!Receipt
<1>3. ASSUME rt.at = "publish" PROVE rt.sequence \in Nat
  BY <1>3 DEF Axis!TypeOK, Axis!InHand
<1> QED BY <1>1, <1>2, <1>3

-----------------------------------------------------------------------------
(* The steps that submit nothing.                                          *)

(* What is past stays past while nothing new is under way.                 *)
LEMMA PastStays ==
  ASSUME sequence' = sequence, Axis!OnTheWay' \subseteq Axis!OnTheWay
  PROVE  \A s \in Nat : Past(s) => Past(s)'
BY DEF Past

(* A step that leaves the request, the owner and what is under way alone.  *)
LEMMA RequestStays ==
  ASSUME AxisIInv, request' = request, owner' = owner,
         Axis!OnTheWay' \subseteq Axis!OnTheWay
  PROVE  LeaseIsHomes' /\ DisarmIsLast'
<1>1. LeaseIsHomes /\ DisarmIsLast
  BY DEF AxisIInv
<1>2. LeaseIsHomes'
  BY <1>1 DEF LeaseIsHomes
<1>3. DisarmIsLast'
  BY <1>1 DEF DisarmIsLast, Axis!Invalid
<1> QED BY <1>2, <1>3

(* A step that leaves the channel alone and takes no command in its hand.  *)
LEMMA ChannelStays ==
  ASSUME AxisIInv, UNCHANGED <<commands, results, ledger, sequence>>,
         rt' = rt \/ rt'.at \in {"idle", "drain"}
  PROVE  /\ Numbered' /\ InOrder' /\ AnsweredIsPast'
         /\ Axis!OnTheWay' \subseteq Axis!OnTheWay
<1>1. Numbered /\ InOrder /\ AnsweredIsPast /\ Axis!TypeOK
  BY DEF AxisIInv
<1>2. Axis!OnTheWay' \subseteq Axis!OnTheWay
  <2>1. CASE rt' = rt
    BY <2>1 DEF Axis!OnTheWay
  <2>2. CASE rt'.at \in {"idle", "drain"}
    BY <2>2 DEF Axis!OnTheWay
  <2> QED BY <2>1, <2>2
<1>3. Numbered'
  BY <1>1 DEF Numbered
<1>4. InOrder'
  BY <1>1 DEF InOrder
<1>5. \A s \in Nat : Past(s) => Past(s)'
  BY <1>2, PastStays
<1>6. AnsweredIsPast'
  <2>1. /\ \A i \in DOMAIN results : results[i].sequence \in Nat
        /\ \A i \in DOMAIN ledger : ledger[i].sequence \in Nat
    BY <1>1, Receipts
  <2>2. ASSUME rt'.at = "publish" PROVE Past(rt.sequence)'
    <3>1. rt' = rt
      BY <2>2
    <3>2. rt.sequence \in Nat
      BY <1>1, <2>2, <3>1, Receipts
    <3> QED BY <1>1, <1>5, <2>2, <3>1, <3>2 DEF AnsweredIsPast
  <2> QED BY <1>1, <1>5, <2>1, <2>2 DEF AnsweredIsPast
<1> QED BY <1>2, <1>3, <1>4, <1>6

(* Filing the results of a scan: what is filed was answered before.        *)
LEMMA FileKeeps == AxisIInv /\ Axis!ProcessAxisCommandResults => AxisIInv'
<1> SUFFICES ASSUME AxisIInv, Axis!ProcessAxisCommandResults PROVE AxisIInv'
  OBVIOUS
<1>1. Numbered /\ InOrder /\ AnsweredIsPast /\ Axis!TypeOK
  BY DEF AxisIInv
<1>2. UNCHANGED <<commands, sequence, owner, axis, rt, request, emergency,
                  searches, holds, refused, deferred, sessions>> /\ scan' = "home"
  BY DEF Axis!ProcessAxisCommandResults, Axis!counters
<1> DEFINE n == IF Len(results) < ControlLimit THEN Len(results) ELSE ControlLimit
<1>3. ledger' = Axis!File(n) /\ results' = SubSeq(results, n + 1, Len(results))
  BY DEF Axis!ProcessAxisCommandResults
<1>4. results \in Seq(Axis!Receipt) /\ Len(results) \in Nat
  BY <1>1 DEF Axis!TypeOK
<1>5. n \in Nat /\ n <= Len(results)
  BY <1>4, HomeAxisAssumption
<1> HIDE DEF n
<1>6. results' \in Seq(Axis!Receipt)
  BY <1>3, <1>4, <1>5
<1>7. \A i \in DOMAIN results' : \E j \in DOMAIN results : results'[i] = results[j]
  <2> SUFFICES ASSUME NEW i \in DOMAIN results'
               PROVE  \E j \in DOMAIN results : results'[i] = results[j]
    OBVIOUS
  <2>1. i \in 1 .. (Len(results) - n) /\ results'[i] = results[n + i]
    BY <1>3, <1>4, <1>5
  <2>2. n + i \in DOMAIN results
    BY <2>1, <1>4, <1>5
  <2> QED BY <2>1, <2>2
<1>8. ASSUME NEW slot \in DOMAIN ledger
      PROVE  \/ ledger'[slot] = ledger[slot]
             \/ \E j \in DOMAIN results : ledger'[slot] = results[j]
  <2> DEFINE here == {i \in 1 .. n : Axis!Slot(results[i].sequence) = slot}
  <2>1. ledger'[slot] = IF here = {} THEN ledger[slot] ELSE results[Axis!Max(here)]
    BY <1>3, <1>8 DEF Axis!File
  <2>2. CASE here = {}
    BY <2>1, <2>2
  <2>3. CASE here # {}
    <3>1. Axis!Max(here) \in here
      <4>1. here \subseteq 1 .. n
        OBVIOUS
      <4> HIDE DEF here
      <4> QED BY <4>1, <2>3, <1>5, GreatestIsMember
    <3>2. Axis!Max(here) \in DOMAIN results
      BY <3>1, <1>4, <1>5
    <3> QED BY <2>1, <2>3, <3>2
  <2> QED BY <2>2, <2>3
<1>9. DOMAIN ledger' = DOMAIN ledger
  BY <1>3 DEF Axis!File
<1>10. ledger' \in [0 .. ResultCapacity - 1 -> Axis!Receipt]
  <2>1. ledger \in [0 .. ResultCapacity - 1 -> Axis!Receipt]
    BY <1>1 DEF Axis!TypeOK
  <2>2. \A slot \in 0 .. ResultCapacity - 1 : ledger'[slot] \in Axis!Receipt
    BY <2>1, <1>4, <1>8
  <2>3. ledger' = [slot \in 0 .. ResultCapacity - 1 |-> ledger'[slot]]
    BY <2>1, <1>3 DEF Axis!File
  <2> QED BY <2>2, <2>3
<1>11. Axis!TypeOK'
  BY <1>1, <1>2, <1>6, <1>10 DEF Axis!TypeOK
<1>12. Axis!OnTheWay' = Axis!OnTheWay
  BY <1>2 DEF Axis!OnTheWay
<1>13. \A s \in Nat : Past(s) => Past(s)'
  BY <1>2, <1>12, PastStays
<1>14. AnsweredIsPast'
  <2>1. \A i \in DOMAIN results : results[i].sequence \in Nat /\ Past(results[i].sequence)
    BY <1>1, Receipts DEF AnsweredIsPast
  <2>2. \A i \in DOMAIN ledger : ledger[i].sequence \in Nat /\ Past(ledger[i].sequence)
    BY <1>1, Receipts DEF AnsweredIsPast
  <2>3. ASSUME NEW i \in DOMAIN results' PROVE Past(results[i].sequence)'
    BY <2>1, <1>7, <1>13
  <2>4. ASSUME NEW i \in DOMAIN ledger' PROVE Past(ledger[i].sequence)'
    BY <2>1, <2>2, <1>8, <1>9, <1>13
  <2>5. ASSUME rt'.at = "publish" PROVE Past(rt.sequence)'
    BY <2>5, <1>1, <1>2, <1>13, Receipts DEF AnsweredIsPast
  <2> QED BY <2>3, <2>4, <2>5 DEF AnsweredIsPast
<1>15. Numbered' /\ InOrder'
  BY <1>1, <1>2 DEF Numbered, InOrder
<1> QED BY <1>2, <1>11, <1>12, <1>14, <1>15, RequestStays DEF AxisIInv

(* The steps of the motion thread around a pass, and the axis at rest.     *)
LEMMA PassKeeps ==
  AxisIInv /\ (Axis!BeginPass \/ Axis!EndPass \/ Axis!ComeToRest) => AxisIInv'
<1> SUFFICES ASSUME AxisIInv, Axis!BeginPass \/ Axis!EndPass \/ Axis!ComeToRest
             PROVE  AxisIInv'
  OBVIOUS
<1>1. Axis!TypeOK
  BY DEF AxisIInv
<1>2. UNCHANGED <<commands, results, ledger, sequence, owner, scan, request, searches,
                  holds, refused, deferred, sessions>>
  BY DEF Axis!BeginPass, Axis!EndPass, Axis!ComeToRest, Axis!channelVars, Axis!counters
<1>3. rt' = rt \/ rt' \in [at : {"idle", "drain"}, taken : Nat]
  BY DEF Axis!BeginPass, Axis!EndPass, Axis!ComeToRest
<1>4. rt' = rt \/ rt'.at \in {"idle", "drain"}
  BY <1>3
<1>5. rt' \in Axis!InHand
  BY <1>1, <1>3 DEF Axis!TypeOK, Axis!InHand
<1>6. axis' \in {"IDLE", "VELOCITY", "MOVING", "STOPPING"}
  BY <1>1 DEF Axis!TypeOK, Axis!BeginPass, Axis!EndPass, Axis!ComeToRest
<1>7. emergency' \in BOOLEAN
  BY <1>1 DEF Axis!TypeOK, Axis!BeginPass, Axis!EndPass, Axis!ComeToRest
<1>8. Axis!TypeOK'
  BY <1>1, <1>2, <1>5, <1>6, <1>7 DEF Axis!TypeOK
<1> QED BY <1>2, <1>4, <1>8, ChannelStays, RequestStays DEF AxisIInv

(* Taking the first command: it is the smallest of those queued, and one   *)
(* that is rejected for its lease is past at once.                         *)
LEMMA TakeKeeps == AxisIInv /\ Axis!Take => AxisIInv'
<1> SUFFICES ASSUME AxisIInv, Axis!Take PROVE AxisIInv'
  OBVIOUS
<1>1. Axis!TypeOK /\ Numbered /\ InOrder /\ AnsweredIsPast
  BY DEF AxisIInv
<1>2. UNCHANGED <<results, ledger, sequence, owner, axis, scan, request, emergency,
                  searches, holds, refused, deferred, sessions>>
  BY DEF Axis!Take, Axis!counters
<1> DEFINE c == commands[1]
<1>3. /\ commands \in Seq(Axis!Command) /\ commands # <<>> /\ commands' = Tail(commands)
      /\ Head(commands) = c
  BY <1>1 DEF Axis!TypeOK, Axis!Take
<1>4. c \in Axis!Command /\ 1 \in DOMAIN commands
  BY <1>3
<1>5. c.sequence \in Nat
  BY <1>4 DEF Axis!Command
<1>6. /\ commands' \in Seq(Axis!Command)
      /\ \A i \in DOMAIN commands' :
           i + 1 \in DOMAIN commands /\ i + 1 > 1 /\ commands'[i] = commands[i + 1]
  BY <1>3
<1>7. rt.taken \in Nat
  BY <1>1 DEF Axis!TypeOK, Axis!InHand, Axis!Take
<1>8. \/ rt' = [at |-> "apply", taken |-> rt.taken + 1, command |-> c]
      \/ rt' = [at |-> "publish", taken |-> rt.taken + 1, sequence |-> c.sequence,
                outcome |-> "REJECTED"]
  BY <1>3 DEF Axis!Take
<1> HIDE DEF c
<1>9. rt' \in Axis!InHand
  BY <1>4, <1>5, <1>7, <1>8 DEF Axis!InHand, Axis!Outcome
<1>10. Axis!TypeOK'
  BY <1>1, <1>2, <1>6, <1>9 DEF Axis!TypeOK
<1>11. Axis!OnTheWay' \subseteq Axis!OnTheWay
  <2>1. \A i \in DOMAIN commands' : commands'[i] \in Axis!OnTheWay
    BY <1>6 DEF Axis!OnTheWay
  <2>2. rt'.at = "apply" => rt'.command \in Axis!OnTheWay
    BY <1>4, <1>8 DEF Axis!OnTheWay, c
  <2> QED BY <2>1, <2>2 DEF Axis!OnTheWay
<1>12. Numbered'
  BY <1>1, <1>2, <1>4, <1>6, <1>8 DEF Numbered, c
<1>13. \A i \in DOMAIN commands' : c.sequence < commands'[i].sequence
  BY <1>1, <1>4, <1>6 DEF InOrder, c
<1>14. InOrder'
  <2>1. ASSUME NEW i \in DOMAIN commands', NEW j \in DOMAIN commands', i < j
        PROVE  commands'[i].sequence < commands'[j].sequence
    <3>1. i + 1 < j + 1
      BY <2>1, <1>6
    <3> QED BY <3>1, <1>1, <1>6 DEF InOrder
  <2>2. rt'.at = "apply" =>
          \A i \in DOMAIN commands' : rt'.command.sequence < commands'[i].sequence
    BY <1>8, <1>13
  <2> QED BY <2>1, <2>2 DEF InOrder
<1>15. \A s \in Nat : Past(s) => Past(s)'
  BY <1>2, <1>11, PastStays
<1>16. AnsweredIsPast'
  <2>1. ASSUME rt'.at = "publish" PROVE Past(rt.sequence)'
    <3>1. rt'.sequence = c.sequence /\ rt'.at # "apply"
      BY <2>1, <1>8
    <3>2. \A d \in Axis!OnTheWay' : c.sequence < d.sequence
      BY <3>1, <1>13 DEF Axis!OnTheWay
    <3>3. c.sequence < sequence'
      BY <1>1, <1>2, <1>4 DEF Numbered, c
    <3> QED BY <3>1, <3>2, <3>3 DEF Past
  <2> QED BY <2>1, <1>1, <1>2, <1>15, Receipts DEF AnsweredIsPast
<1> QED BY <1>2, <1>10, <1>11, <1>12, <1>14, <1>16, RequestStays DEF AxisIInv

(* Applying the command in hand: it is past, as those queued are greater.  *)
LEMMA ApplyKeeps == AxisIInv /\ Axis!Apply => AxisIInv'
<1> SUFFICES ASSUME AxisIInv, Axis!Apply PROVE AxisIInv'
  OBVIOUS
<1>1. Axis!TypeOK /\ Numbered /\ InOrder /\ AnsweredIsPast
  BY DEF AxisIInv
<1>2. UNCHANGED <<commands, results, ledger, sequence, owner, scan, request, emergency,
                  searches, holds, refused, sessions>>
  BY DEF Axis!Apply, Axis!channelVars
<1>3. rt.at = "apply"
  BY DEF Axis!Apply
<1>4. rt.command \in Axis!Command /\ rt.taken \in Nat
  BY <1>1, <1>3 DEF Axis!TypeOK, Axis!InHand
<1>5. rt.command.kind \in Axis!Kind /\ rt.command.sequence \in Nat
  BY <1>4 DEF Axis!Command
<1>6. PICK outcome \in Axis!Outcomes(rt.command.kind) :
        /\ axis' = IF outcome = "APPLIED" THEN Axis!Moved(rt.command.kind) ELSE axis
        /\ rt' = [at |-> "publish", taken |-> rt.taken,
                  sequence |-> rt.command.sequence, outcome |-> outcome]
        /\ deferred' = deferred + (IF outcome = "DEFERRED" THEN 1 ELSE 0)
  BY DEF Axis!Apply
<1>7. outcome \in Axis!Outcome
  BY <1>5, <1>6 DEF Axis!Outcomes, Axis!Outcome, Axis!Kind
<1>8. rt' \in Axis!InHand
  BY <1>4, <1>5, <1>6, <1>7 DEF Axis!InHand
<1>9. axis' \in {"IDLE", "VELOCITY", "MOVING", "STOPPING"}
  <2>1. axis \in {"IDLE", "VELOCITY", "MOVING", "STOPPING"}
    BY <1>1 DEF Axis!TypeOK
  <2>2. Axis!Moved(rt.command.kind) \in {"IDLE", "VELOCITY", "MOVING", "STOPPING"}
    BY <2>1, <1>5 DEF Axis!Moved, Axis!Kind
  <2> QED BY <2>1, <2>2, <1>6
<1>10. deferred' \in Nat
  <2>1. deferred \in Nat
    BY <1>1 DEF Axis!TypeOK
  <2> QED BY <2>1, <1>6
<1>11. Axis!TypeOK'
  BY <1>1, <1>2, <1>8, <1>9, <1>10 DEF Axis!TypeOK
<1>12. rt'.at = "publish" /\ rt'.sequence = rt.command.sequence
  BY <1>6
<1>13. Axis!OnTheWay' \subseteq Axis!OnTheWay
  BY <1>2, <1>12 DEF Axis!OnTheWay
<1>14. Numbered' /\ InOrder'
  BY <1>1, <1>2, <1>12 DEF Numbered, InOrder
<1>15. \A s \in Nat : Past(s) => Past(s)'
  BY <1>2, <1>13, PastStays
<1>16. AnsweredIsPast'
  <2>1. Past(rt.sequence)'
    <3>1. \A d \in Axis!OnTheWay' : rt.command.sequence < d.sequence
      BY <1>1, <1>2, <1>3, <1>12 DEF Axis!OnTheWay, InOrder
    <3>2. rt.command.sequence < sequence'
      BY <1>1, <1>2, <1>3 DEF Numbered
    <3> QED BY <3>1, <3>2, <1>12 DEF Past
  <2> QED BY <2>1, <1>1, <1>2, <1>15, Receipts DEF AnsweredIsPast
<1> QED BY <1>2, <1>11, <1>13, <1>14, <1>16, RequestStays DEF AxisIInv

(* Publishing the result of the command in hand, or dropping it.           *)
LEMMA PublishKeeps == AxisIInv /\ Axis!Publish => AxisIInv'
<1> SUFFICES ASSUME AxisIInv, Axis!Publish PROVE AxisIInv'
  OBVIOUS
<1>1. Axis!TypeOK /\ Numbered /\ InOrder /\ AnsweredIsPast
  BY DEF AxisIInv
<1>2. UNCHANGED <<commands, ledger, sequence, owner, axis, scan, request, emergency,
                  searches, holds, refused, deferred, sessions>>
  BY DEF Axis!Publish, Axis!counters
<1>3. rt.at = "publish" /\ rt' = [at |-> "drain", taken |-> rt.taken]
  BY DEF Axis!Publish
<1>4. rt.sequence \in Nat /\ rt.taken \in Nat /\ rt.outcome \in Axis!Outcome
  BY <1>1, <1>3 DEF Axis!TypeOK, Axis!InHand
<1> DEFINE r == [sequence |-> rt.sequence, outcome |-> rt.outcome]
<1>5. r \in Axis!Receipt /\ r.sequence = rt.sequence
  BY <1>4 DEF Axis!Receipt
<1>6. results' = results \/ results' = Append(results, r)
  BY DEF Axis!Publish
<1> HIDE DEF r
<1>7. results \in Seq(Axis!Receipt)
  BY <1>1 DEF Axis!TypeOK
<1>8. /\ results' \in Seq(Axis!Receipt)
      /\ \A i \in DOMAIN results' :
           results'[i] = r \/ (i \in DOMAIN results /\ results'[i] = results[i])
  <2>1. CASE results' = results
    BY <2>1, <1>7
  <2>2. CASE results' = Append(results, r)
    <3>1. Append(results, r) \in Seq(Axis!Receipt) /\ Len(results) \in Nat
      BY <1>5, <1>7
    <3>2. \A i \in 1 .. Len(results) + 1 :
            Append(results, r)[i] = IF i <= Len(results) THEN results[i] ELSE r
      BY <1>5, <1>7, AppendProperties
    <3>3. DOMAIN Append(results, r) = 1 .. Len(results) + 1 /\ DOMAIN results = 1 .. Len(results)
      BY <1>5, <1>7
    <3>4. ASSUME NEW i \in DOMAIN results'
          PROVE  results'[i] = r \/ (i \in DOMAIN results /\ results'[i] = results[i])
      <4>1. i \in 1 .. Len(results) + 1
        BY <2>2, <3>3
      <4>2. CASE i <= Len(results)
        <5>1. i \in DOMAIN results
          BY <4>1, <4>2, <3>1, <3>3
        <5> QED BY <5>1, <4>1, <4>2, <2>2, <3>2
      <4>3. CASE ~(i <= Len(results))
        BY <4>1, <4>3, <2>2, <3>2
      <4> QED BY <4>2, <4>3
    <3> QED BY <2>2, <3>1, <3>4
  <2> QED BY <1>6, <2>1, <2>2
<1>9. rt' \in Axis!InHand
  BY <1>3, <1>4 DEF Axis!InHand
<1>10. Axis!TypeOK'
  BY <1>1, <1>2, <1>8, <1>9 DEF Axis!TypeOK
<1>11. Axis!OnTheWay' \subseteq Axis!OnTheWay /\ rt'.at = "drain"
  BY <1>2, <1>3 DEF Axis!OnTheWay
<1>12. Numbered' /\ InOrder'
  BY <1>1, <1>2, <1>11 DEF Numbered, InOrder
<1>13. \A s \in Nat : Past(s) => Past(s)'
  BY <1>2, <1>11, PastStays
<1>14. AnsweredIsPast'
  <2>1. Past(rt.sequence)
    BY <1>1, <1>3 DEF AnsweredIsPast
  <2>2. ASSUME NEW i \in DOMAIN results' PROVE Past(results[i].sequence)'
    BY <2>1, <1>1, <1>4, <1>5, <1>8, <1>13, Receipts DEF AnsweredIsPast
  <2> QED BY <2>2, <1>1, <1>2, <1>11, <1>13, Receipts DEF AnsweredIsPast
<1> QED BY <1>2, <1>10, <1>11, <1>12, <1>14, RequestStays DEF AxisIInv

-----------------------------------------------------------------------------
(* The steps that change the owner or the request without submitting.      *)

(* A step that leaves the channel and the motion thread alone keeps the    *)
(* order, and with it the rest, if the request keeps its part.             *)
LEMMA OwnershipKeeps ==
  ASSUME AxisIInv, UNCHANGED <<commands, results, ledger, sequence, rt>>,
         Axis!TypeOK', LeaseIsHomes', DisarmIsLast'
  PROVE  AxisIInv'
BY ChannelStays DEF AxisIInv

(* SAFETY takes the motion and gives it back, each under a new generation. *)
LEMMA SafetyKeeps ==
  AxisIInv /\ (Axis!TakeSafety \/ Axis!ReleaseSafety) => AxisIInv'
<1> SUFFICES ASSUME AxisIInv, Axis!TakeSafety \/ Axis!ReleaseSafety PROVE AxisIInv'
  OBVIOUS
<1>1. Axis!TypeOK /\ LeaseIsHomes /\ DisarmIsLast
  BY DEF AxisIInv
<1>2. UNCHANGED <<commands, results, ledger, sequence, axis, rt, scan, request, emergency,
                  searches, holds, refused, deferred, sessions>>
  BY DEF Axis!TakeSafety, Axis!ReleaseSafety, Axis!channelVars, Axis!counters
<1>3. \E name \in {"SAFETY", "NONE"} :
        owner' = [name |-> name, generation |-> owner.generation + 1]
  BY DEF Axis!TakeSafety, Axis!ReleaseSafety
<1>4. owner.generation \in Nat \ {0} /\ request.lease \in Nat
  BY <1>1 DEF Axis!TypeOK, Axis!Request
<1>5. owner'.generation = owner.generation + 1 /\ owner'.name \in {"SAFETY", "NONE"}
  BY <1>3
<1>6. owner' \in [name : {"NONE", "HOME", "SAFETY"}, generation : Nat \ {0}]
  BY <1>3, <1>4
<1>7. Axis!TypeOK'
  BY <1>1, <1>2, <1>6 DEF Axis!TypeOK
<1>8. LeaseIsHomes'
  BY <1>1, <1>2, <1>4, <1>5 DEF LeaseIsHomes
<1>9. DisarmIsLast'
  BY <1>1, <1>2, <1>5 DEF DisarmIsLast, Axis!Invalid
<1> QED BY <1>2, <1>7, <1>8, <1>9, OwnershipKeeps

(* HOME starts under a lease of its own.                                   *)
LEMMA StartKeeps == AxisIInv /\ Axis!Start => AxisIInv'
<1> SUFFICES ASSUME AxisIInv, Axis!Start PROVE AxisIInv'
  OBVIOUS
<1>1. Axis!TypeOK
  BY DEF AxisIInv
<1>2. UNCHANGED <<commands, results, ledger, sequence, axis, rt, scan, emergency,
                  searches, holds, refused, deferred>> /\ sessions' = sessions + 1
  BY DEF Axis!Start, Axis!channelVars
<1> DEFINE g == owner.generation + 1
<1>3. owner' = [name |-> "HOME", generation |-> g] /\ request' = Axis!Begun(g)
  BY DEF Axis!Start
<1>4. g \in Nat \ {0} /\ sessions' \in Nat
  BY <1>1, <1>2 DEF Axis!TypeOK
<1> HIDE DEF g
<1>5. owner' \in [name : {"NONE", "HOME", "SAFETY"}, generation : Nat \ {0}]
      /\ owner'.generation = g /\ owner'.name = "HOME"
  BY <1>3, <1>4
<1>6. request' = [lease |-> g, active |-> TRUE, run |-> "RUNNING",
             cancel |-> FALSE, error |-> FALSE, resume |-> FALSE,
             state |-> "SEARCH_INDEX", issued |-> FALSE, stopIssued |-> FALSE,
             homed |-> FALSE, move |-> 0, stop |-> 0, apply |-> 0, disarm |-> 0]
  BY <1>3 DEF Axis!Begun, Axis!Inactive, Axis!Invalid
<1>7. request' \in Axis!Request
  BY <1>4, <1>6 DEF Axis!Request, Axis!Run, Axis!HomeState
<1>8. Axis!TypeOK'
  BY <1>1, <1>2, <1>4, <1>5, <1>7 DEF Axis!TypeOK
<1>9. LeaseIsHomes'
  BY <1>4, <1>5, <1>6 DEF LeaseIsHomes
<1>10. DisarmIsLast'
  BY <1>6 DEF DisarmIsLast, Axis!Invalid
<1> QED BY <1>2, <1>8, <1>9, <1>10, OwnershipKeeps

(* A request that goes on with its lease, waiting for no disarm.           *)
Like(h) ==
  /\ h \in Axis!Request
  /\ h.lease = request.lease /\ h.active = request.active
  /\ h.disarm = request.disarm

(* What the operator asks of a HOME request changes neither its lease nor  *)
(* what it waits for.                                                      *)
LEMMA AskKeeps ==
  AxisIInv /\ (Axis!RequestHold \/ Axis!Resume \/ Axis!Cancel) => AxisIInv'
<1> SUFFICES ASSUME AxisIInv, Axis!RequestHold \/ Axis!Resume \/ Axis!Cancel
             PROVE  AxisIInv'
  OBVIOUS
<1>1. Axis!TypeOK /\ LeaseIsHomes /\ DisarmIsLast
  BY DEF AxisIInv
<1>2. request \in Axis!Request /\ holds \in Nat
  BY <1>1 DEF Axis!TypeOK
<1>3. /\ UNCHANGED <<commands, results, ledger, sequence, owner, axis, rt, scan, emergency,
                  searches, refused, deferred, sessions>>
      /\ request.active
  BY DEF Axis!RequestHold, Axis!Resume, Axis!Cancel, Axis!Asked, Axis!channelVars
<1>4. holds' \in Nat
  BY <1>2 DEF Axis!RequestHold, Axis!Resume, Axis!Cancel
<1>5. Like(request')
  <2>1. CASE Axis!RequestHold
    <3>1. request' = [request EXCEPT !.run = "HOLD_DECEL_STOP", !.resume = FALSE]
      BY <2>1 DEF Axis!RequestHold, Axis!Asked
    <3> QED BY <3>1, <1>2 DEF Like, Axis!Request, Axis!Run
  <2>2. CASE Axis!Resume
    <3>1. \/ request' = [request EXCEPT !.run = "RUNNING", !.resume = FALSE]
          \/ request' = [request EXCEPT !.resume = TRUE]
      BY <2>2 DEF Axis!Resume, Axis!Asked, Axis!Running
    <3> QED BY <3>1, <1>2 DEF Like, Axis!Request, Axis!Run
  <2>3. CASE Axis!Cancel
    <3>1. request' = [request EXCEPT !.cancel = TRUE]
      BY <2>3 DEF Axis!Cancel, Axis!Asked
    <3> QED BY <3>1, <1>2 DEF Like, Axis!Request
  <2> QED BY <2>1, <2>2, <2>3
<1>6. Axis!TypeOK'
  BY <1>1, <1>3, <1>4, <1>5 DEF Axis!TypeOK, Like
<1>7. LeaseIsHomes'
  BY <1>1, <1>3, <1>5 DEF LeaseIsHomes, Like
<1>8. DisarmIsLast'
  BY <1>1, <1>3, <1>5 DEF DisarmIsLast, Axis!Invalid, Like
<1> QED BY <1>3, <1>6, <1>7, <1>8, OwnershipKeeps

-----------------------------------------------------------------------------
(* HomingManager::Process.  What it comes to for the channel, the request  *)
(* and the owner.                                                          *)

(* At most one command was added, with a number that is new.               *)
Submitted ==
  /\ sequence' \in Nat \ {0} /\ refused' \in Nat
  /\ \/ commands' = commands /\ sequence' >= sequence
     \/ \E c \in Axis!Command :
          /\ c.sequence >= sequence /\ c.sequence < sequence'
          /\ commands' = Append(commands, c)

(* The request goes on.                                                    *)
Going == request.active /\ Like(request')

(* It failed, and keeps its lease for SAFETY.                              *)
Failed == request'.lease = request.lease /\ ~request'.active /\ request'.error

(* It ended, and its lease was revoked.                                    *)
Gone ==
  request'.lease = Axis!Invalid /\ ~request'.active /\ ~Axis!Current(request.lease)

(* It has ended and waits.                                                 *)
Waiting ==
  /\ ~request.active /\ Like(request') /\ request'.error = request.error
  /\ commands' = commands /\ sequence' = sequence

(* It ends and waits for its disarm.                                       *)
Disarming ==
  /\ request.active /\ ~request'.active /\ request'.lease = request.lease
  /\ request'.disarm = sequence /\ sequence' = sequence + 1

(* It ends, without a probe to disarm.                                     *)
Ended == ~UsesProbe /\ request'.lease = request.lease /\ ~request'.active

(* The lease was given back.                                               *)
Released ==
  /\ owner' = [name |-> "NONE", generation |-> owner.generation + 1]
  /\ commands' = commands /\ sequence' = sequence
  /\ UsesProbe =>
       /\ ~request.active /\ ~request.error
       /\ request.disarm = Axis!Invalid \/ Axis!Answered(request.disarm)
  /\ request'.lease = Axis!Invalid /\ ~request'.active

(* It was not taken back, and everything under it is answered.             *)
Kept ==
  /\ commands' = commands /\ sequence' = sequence
  /\ ~request.active /\ ~request.error
  /\ request.disarm = Axis!Invalid \/ Axis!Answered(request.disarm)
  /\ ~request'.active /\ request'.lease = request.lease
  /\ request'.disarm = Axis!Invalid

(* What a scan comes to.                                                   *)
Processed ==
  /\ request' \in Axis!Request /\ emergency' \in BOOLEAN /\ Submitted
  /\ \/ /\ owner' = owner
        /\ Going \/ Failed \/ Gone \/ Waiting \/ Disarming \/ Ended \/ Kept
     \/ Released

(* A submission leaves the mailbox alone or puts a command with a new      *)
(* number at its end.                                                      *)
LEMMA SubmitEffect ==
  ASSUME Axis!TypeOK, NEW s \in Nat \ {0}, s >= sequence, NEW kind \in Axis!Kind,
         NEW lease \in Nat, Axis!SubmitFrom(s, kind, lease)
  PROVE  /\ Submitted
         /\ Axis!Accepted => sequence' = s + 1
<1>1. sequence \in Nat \ {0} /\ refused \in Nat /\ commands \in Seq(Axis!Command)
  BY DEF Axis!TypeOK
<1>2. CASE sequence' = s /\ UNCHANGED <<commands, refused>>
  BY <1>1, <1>2 DEF Submitted, Axis!Accepted
<1>3. CASE Axis!Refused(s) \/ Axis!Refused(s + 1)
  BY <1>1, <1>3 DEF Axis!Refused, Submitted, Axis!Accepted
<1> DEFINE c == [sequence |-> s, kind |-> kind, lease |-> lease]
<1>4. CASE commands' = Append(commands, c) /\ sequence' = s + 1 /\ refused' = refused
  <2>1. commands' = Append(commands, c) /\ sequence' = s + 1 /\ refused' = refused
    BY <1>4
  <2>2. c \in Axis!Command /\ c.sequence = s
    BY DEF Axis!Command
  <2> HIDE DEF c
  <2>3. c.sequence >= sequence /\ c.sequence < sequence' /\ sequence' \in Nat \ {0}
    BY <2>1, <2>2, <1>1
  <2> QED BY <2>1, <2>2, <2>3, <1>1 DEF Submitted
<1> QED BY <1>2, <1>3, <1>4 DEF Axis!SubmitFrom

(* A refusal that passes.                                                  *)
LEMMA RefusedEffect ==
  ASSUME Axis!TypeOK, Axis!Refused(sequence)
  PROVE  Submitted /\ commands' = commands /\ sequence' = sequence
BY DEF Axis!TypeOK, Axis!Refused, Submitted

(* The same from the next number.                                          *)
LEMMA SubmittingEffect ==
  ASSUME Axis!TypeOK, NEW kind \in Axis!Kind, NEW lease \in Nat,
         Axis!Submitting(kind, lease)
  PROVE  /\ Submitted /\ owner' = owner /\ emergency' \in BOOLEAN
         /\ Axis!Accepted => sequence' = sequence + 1
<1>1. sequence \in Nat \ {0} /\ sequence >= sequence /\ emergency \in BOOLEAN
  BY DEF Axis!TypeOK
<1>2. Axis!SubmitFrom(sequence, kind, lease) /\ owner' = owner /\ emergency' = emergency
  BY DEF Axis!Submitting, Axis!Submit
<1> QED BY <1>1, <1>2, SubmitEffect

(* A scan that submits nothing.                                            *)
LEMMA QuietlyEffect ==
  ASSUME Axis!TypeOK, Axis!Quietly
  PROVE  /\ Submitted /\ owner' = owner /\ emergency' \in BOOLEAN
         /\ commands' = commands /\ sequence' = sequence
BY DEF Axis!TypeOK, Axis!Quietly, Submitted

(* The lease a disarm is submitted under.                                  *)
LEMMA ProbeLeaseType ==
  ASSUME Axis!TypeOK, NEW h \in Axis!Request PROVE Axis!ProbeLease(h) \in Nat
<1>1. h.lease \in Nat
  BY DEF Axis!Request
<1>2. owner.generation \in Nat
  BY DEF Axis!TypeOK
<1> QED BY <1>1, <1>2 DEF Axis!ProbeLease, Axis!Invalid

(* Polling for the result of a move or of a stop leaves lease, activity    *)
(* and disarm alone.                                                       *)
LEMMA PolledSame ==
  ASSUME NEW h \in Axis!Request
  PROVE  /\ Axis!Polled(h) \in Axis!Request
         /\ Axis!Polled(h).lease = h.lease /\ Axis!Polled(h).active = h.active
         /\ Axis!Polled(h).disarm = h.disarm
<1> DEFINE Same(k, j) ==
      k \in Axis!Request /\ k.lease = j.lease /\ k.active = j.active /\ k.disarm = j.disarm
<1>1. ASSUME NEW k \in Axis!Request
      PROVE  Same(Axis!Poll(k, "move"), k) /\ Same(Axis!Poll(k, "stop"), k)
  <2>1. \/ Axis!Poll(k, "move") = k
        \/ Axis!Poll(k, "move") = [k EXCEPT !["move"] = 0]
        \/ Axis!Poll(k, "move") = [[k EXCEPT !["move"] = 0] EXCEPT !.error = TRUE]
    BY DEF Axis!Poll, Axis!Invalid
  <2>2. \/ Axis!Poll(k, "stop") = k
        \/ Axis!Poll(k, "stop") = [k EXCEPT !["stop"] = 0]
        \/ Axis!Poll(k, "stop") = [[k EXCEPT !["stop"] = 0] EXCEPT !.error = TRUE]
    BY DEF Axis!Poll, Axis!Invalid
  <2>3. Same([k EXCEPT !["move"] = 0], k) /\ Same([k EXCEPT !["stop"] = 0], k)
    BY <1>1 DEF Axis!Request
  <2>4. \A j \in Axis!Request : Same([j EXCEPT !.error = TRUE], j)
    BY DEF Axis!Request
  <2> QED BY <1>1, <2>1, <2>2, <2>3, <2>4
<1>2. \/ Axis!Polled(h) = Axis!Poll(h, "move")
      \/ Axis!Polled(h) = Axis!Poll(Axis!Poll(h, "move"), "stop")
  BY DEF Axis!Polled
<1> QED BY <1>1, <1>2

(* The same of a request that goes on.                                     *)
LEMMA PolledLike ==
  ASSUME NEW h, Like(h) PROVE Like(Axis!Polled(h))
BY PolledSame DEF Like

(* Failing ends the request, with its lease if that was revoked.           *)
LEMMA FailEffect ==
  ASSUME Axis!TypeOK, NEW h \in Axis!Request, h.lease = request.lease,
         NEW s \in Nat \ {0}, s >= sequence, Axis!FailFrom(s, h)
  PROVE  Processed
<1> DEFINE failed == [h EXCEPT !.error = TRUE, !.active = FALSE, !.cancel = FALSE,
                          !.resume = FALSE, !.run = "IDLE",
                          !.state = "HOME_ERROR", !.homed = FALSE]
           L == IF UsesProbe THEN Axis!ProbeLease(h) ELSE Axis!Invalid
<1>1. failed \in Axis!Request /\ failed.lease = request.lease /\ ~failed.active /\ failed.error
  BY DEF Axis!Request, Axis!Run, Axis!HomeState
<1>2. /\ request' = IF Axis!Current(h.lease) THEN failed ELSE Axis!Forgotten(failed)
      /\ emergency' = TRUE /\ owner' = owner
      /\ Axis!SubmitFrom(s, "probe", L)
  BY DEF Axis!FailFrom
<1>3. L \in Nat /\ "probe" \in Axis!Kind
  BY ProbeLeaseType DEF Axis!Invalid, Axis!Kind
<1> HIDE DEF failed, L
<1>4. Submitted
  BY <1>2, <1>3, SubmitEffect
<1>5. CASE Axis!Current(h.lease)
  BY <1>1, <1>2, <1>4, <1>5 DEF Processed, Failed
<1>6. CASE ~Axis!Current(h.lease)
  <2>1. Axis!Forgotten(failed) \in Axis!Request
    BY <1>1 DEF Axis!Forgotten, Axis!Request, Axis!Invalid
  <2>2. Axis!Forgotten(failed).lease = Axis!Invalid /\ ~Axis!Forgotten(failed).active
    BY <1>1 DEF Axis!Forgotten, Axis!Request, Axis!Invalid
  <2> QED BY <1>2, <1>4, <1>6, <2>1, <2>2 DEF Processed, Gone
<1> QED BY <1>5, <1>6

(* The same with the next number.                                          *)
LEMMA FailNow ==
  ASSUME Axis!TypeOK, NEW h \in Axis!Request, h.lease = request.lease, Axis!Fail(h)
  PROVE  Processed
<1>1. sequence \in Nat \ {0} /\ sequence >= sequence
  BY DEF Axis!TypeOK
<1> QED BY <1>1, FailEffect DEF Axis!Fail

(* A request that goes on, quietly or with a submission.                   *)
LEMMA GoesOn ==
  ASSUME request.active, Like(request'), Submitted, owner' = owner, emergency' \in BOOLEAN
  PROVE  Processed
BY DEF Processed, Going, Like

(* A request is like itself.                                               *)
LEMMA LikeItself == Axis!TypeOK => Like(request)
BY DEF Axis!TypeOK, Like

(* A request that goes on may fail.                                        *)
LEMMA LikeFails ==
  ASSUME Axis!TypeOK, NEW h, Like(h), Axis!Fail(h) PROVE Processed
BY FailNow DEF Like

(* A request that has ended waits for its receipts, forgets a lease that   *)
(* was revoked, fails or gives its lease back.  With a probe it ended in   *)
(* an earlier scan.                                                        *)
LEMMA RestoreEffect ==
  ASSUME Axis!TypeOK, NEW h \in Axis!Request, ~h.active, h.lease = request.lease,
         h = request \/ ~UsesProbe, Axis!RestoreOrRelease(h)
  PROVE  Processed
<1> DEFINE p == Axis!Polled(h)
<1>1. /\ p \in Axis!Request /\ p.lease = request.lease /\ ~p.active
      /\ p.disarm = h.disarm
  BY PolledSame
<1>2. h.error \in BOOLEAN /\ p.error \in BOOLEAN
  BY <1>1 DEF Axis!Request
<1> HIDE DEF p
<1>3. ASSUME NEW k \in Axis!Request, k.lease = request.lease, ~k.active,
             k.disarm = h.disarm, k.error = h.error, request' = k, Axis!Quietly
      PROVE  Processed
  <2>1. CASE ~UsesProbe
    BY <1>3, <2>1, QuietlyEffect DEF Processed, Ended
  <2>2. CASE h = request
    <3>1. ~request.active /\ request.active \in BOOLEAN /\ k.active \in BOOLEAN
      BY <2>2 DEF Axis!Request
    <3>2. k.active = request.active
      BY <1>3, <3>1
    <3> QED BY <1>3, <2>2, <3>1, <3>2, QuietlyEffect DEF Processed, Waiting, Like
  <2> QED BY <2>1, <2>2
<1>4. ASSUME request' = h, Axis!Quietly PROVE Processed
  BY <1>3, <1>4
<1>5. CASE h.lease = Axis!Invalid
  BY <1>4, <1>5 DEF Axis!RestoreOrRelease
<1>6. CASE h.lease # Axis!Invalid /\ ~Axis!Current(h.lease)
  <2>1. request' = Axis!Forgotten(h) /\ Axis!Quietly
    BY <1>6 DEF Axis!RestoreOrRelease
  <2>2. Axis!Forgotten(h) \in Axis!Request
        /\ Axis!Forgotten(h).lease = Axis!Invalid
        /\ Axis!Forgotten(h).active = h.active
    BY DEF Axis!Forgotten, Axis!Request, Axis!Invalid
  <2> QED BY <1>6, <2>1, <2>2, QuietlyEffect DEF Processed, Gone
<1> DEFINE Held == h.lease # Axis!Invalid /\ Axis!Current(h.lease)
<1>7. CASE Held /\ h.error
  BY <1>4, <1>7 DEF Axis!RestoreOrRelease
<1>8. CASE Held /\ ~h.error /\ p.error
  BY <1>1, <1>8, FailNow DEF Axis!RestoreOrRelease, p
<1> DEFINE Sound == Held /\ ~h.error /\ ~p.error
<1>9. CASE Sound /\ Axis!Outstanding(p)
  <2>1. request' = p /\ Axis!Quietly
    BY <1>9 DEF Axis!RestoreOrRelease, p
  <2>2. p.error = h.error
    BY <1>2, <1>9
  <2> QED BY <1>1, <1>3, <2>1, <2>2
<1>10. CASE Sound /\ ~Axis!Outstanding(p) /\ p.disarm # Axis!Invalid
            /\ Axis!Result(p.disarm) # "APPLIED"
  <2>1. /\ request' = [p EXCEPT !.disarm = Axis!Invalid, !.error = TRUE]
        /\ emergency' = TRUE /\ UNCHANGED <<commands, sequence, refused, owner>>
    BY <1>10 DEF Axis!RestoreOrRelease, p
  <2>2. request' \in Axis!Request /\ request'.error /\ request'.lease = p.lease
        /\ request'.active = p.active
    BY <1>1, <2>1 DEF Axis!Request, Axis!Invalid
  <2>3. request'.lease = request.lease /\ ~request'.active
    BY <1>1, <2>2
  <2>4. Submitted
    BY <2>1 DEF Submitted, Axis!TypeOK
  <2> QED BY <2>1, <2>2, <2>3, <2>4 DEF Processed, Failed
<1>11. CASE Sound /\ ~Axis!Outstanding(p)
            /\ ~(p.disarm # Axis!Invalid /\ Axis!Result(p.disarm) # "APPLIED")
  <2> DEFINE kept == [p EXCEPT !.disarm = Axis!Invalid]
             back == [p EXCEPT !.disarm = Axis!Invalid, !.lease = Axis!Invalid]
             orphaned == [p EXCEPT !.disarm = Axis!Invalid, !.lease = Axis!Invalid,
                                   !.error = TRUE]
  <2>1. \/ request' = kept /\ Axis!Refused(sequence) /\ UNCHANGED <<owner, emergency>>
        \/ Axis!GivenBack(back) /\ UNCHANGED emergency
        \/ Axis!GivenBack(orphaned) /\ emergency' = TRUE
    BY <1>11 DEF Axis!RestoreOrRelease, p
  <2>2. h.disarm = Axis!Invalid \/ Axis!Answered(h.disarm)
    BY <1>1, <1>11 DEF Axis!Outstanding
  <2>3. emergency' \in BOOLEAN
    BY <2>1 DEF Axis!TypeOK
  <2>4. ~p.active /\ p.active \in BOOLEAN
    BY <1>1 DEF Axis!Request
  <2>5. CASE request' = kept /\ Axis!Refused(sequence) /\ UNCHANGED <<owner, emergency>>
    <3>1. request' \in Axis!Request /\ request'.lease = request.lease
          /\ ~request'.active /\ request'.disarm = Axis!Invalid
      BY <1>1, <2>4, <2>5 DEF Axis!Request, Axis!Invalid
    <3>2. Submitted /\ commands' = commands /\ sequence' = sequence
      BY <2>5, RefusedEffect
    <3>3. CASE UsesProbe
      BY <1>11, <2>2, <2>3, <2>5, <3>1, <3>2, <3>3 DEF Processed, Kept
    <3>4. CASE ~UsesProbe
      BY <2>3, <2>5, <3>1, <3>2, <3>4 DEF Processed, Ended
    <3> QED BY <3>3, <3>4
  <2>6. CASE Axis!GivenBack(back) \/ Axis!GivenBack(orphaned)
    <3>1. back \in Axis!Request /\ back.lease = Axis!Invalid /\ ~back.active
      BY <1>1, <2>4 DEF Axis!Request, Axis!Invalid
    <3>2. orphaned \in Axis!Request /\ orphaned.lease = Axis!Invalid /\ ~orphaned.active
      BY <1>1, <2>4 DEF Axis!Request, Axis!Invalid
    <3>3. /\ request' = back \/ request' = orphaned
          /\ owner' = [name |-> "NONE", generation |-> owner.generation + 1]
          /\ UNCHANGED <<commands, sequence, refused>>
      BY <2>6 DEF Axis!GivenBack
    <3>4. Submitted
      BY <3>3 DEF Submitted, Axis!TypeOK
    <3>5. request' \in Axis!Request /\ request'.lease = Axis!Invalid /\ ~request'.active
      BY <3>1, <3>2, <3>3
    <3> HIDE DEF back, orphaned
    <3> QED BY <1>11, <2>2, <2>3, <3>3, <3>4, <3>5 DEF Processed, Released
  <2> QED BY <2>1, <2>5, <2>6
<1> QED BY <1>5, <1>6, <1>7, <1>8, <1>9, <1>10, <1>11

(* The end of an active request with a probe: the disarm is queued, and    *)
(* the request waits for it unless the lease was revoked.                  *)
LEMMA DisarmProbeEffect ==
  ASSUME Axis!TypeOK, DisarmIsLast, UsesProbe, request.active, NEW h, Like(h),
         Axis!Disarm(h)
  PROVE  Processed
<1> DEFINE L == Axis!ProbeLease(h)
<1>1. h.disarm = Axis!Invalid /\ h \in Axis!Request /\ h.lease = request.lease
  BY DEF DisarmIsLast, Like
<1>2. L \in Nat /\ "probe" \in Axis!Kind
  BY <1>1, ProbeLeaseType DEF Axis!Kind
<1>3. /\ Axis!Submitting("probe", L)
      /\ request' = IF ~Axis!Accepted THEN h
                    ELSE IF ~Axis!Current(h.lease) THEN Axis!Forgotten(Axis!Retired(h))
                    ELSE Axis!Retired([h EXCEPT !.disarm = sequence])
  BY <1>1 DEF Axis!Disarm
<1> HIDE DEF L
<1>4. /\ Submitted /\ owner' = owner /\ emergency' \in BOOLEAN
      /\ Axis!Accepted => sequence' = sequence + 1
  BY <1>2, <1>3, SubmittingEffect
<1>5. CASE ~Axis!Accepted
  BY <1>3, <1>4, <1>5, GoesOn
<1>6. CASE Axis!Accepted /\ ~Axis!Current(h.lease)
  <2>1. request' = Axis!Forgotten(Axis!Retired(h))
    BY <1>3, <1>6
  <2>2. Axis!Retired(h) \in Axis!Request /\ ~Axis!Retired(h).active
    BY <1>1 DEF Axis!Retired, Axis!Request, Axis!Run, Axis!HomeState
  <2>3. request' \in Axis!Request /\ request'.lease = Axis!Invalid /\ ~request'.active
    BY <2>1, <2>2 DEF Axis!Forgotten, Axis!Request, Axis!Invalid
  <2> QED BY <1>1, <1>4, <1>6, <2>3 DEF Processed, Gone
<1>7. CASE Axis!Accepted /\ Axis!Current(h.lease)
  <2> DEFINE k == [h EXCEPT !.disarm = sequence]
  <2>1. request' = Axis!Retired(k)
    BY <1>3, <1>7
  <2>2. sequence \in Nat
    BY DEF Axis!TypeOK
  <2>3. k \in Axis!Request /\ k.lease = h.lease /\ k.disarm = sequence
    BY <1>1, <2>2 DEF Axis!Request
  <2> HIDE DEF k
  <2>4. request' \in Axis!Request /\ request'.lease = k.lease /\ request'.disarm = k.disarm
        /\ ~request'.active
    BY <2>1, <2>3 DEF Axis!Retired, Axis!Request, Axis!Run, Axis!HomeState
  <2> QED BY <1>1, <1>4, <1>7, <2>3, <2>4 DEF Processed, Disarming
<1> QED BY <1>5, <1>6, <1>7

(* Without one it ends at once.                                            *)
LEMMA DisarmEffect ==
  ASSUME Axis!TypeOK, DisarmIsLast, request.active, NEW h, Like(h),
         Axis!Disarm(h)
  PROVE  Processed
<1>1. h \in Axis!Request /\ h.lease = request.lease
  BY DEF Like
<1>2. CASE ~UsesProbe
  <2>1. Axis!RestoreOrRelease(Axis!Retired(h))
    BY <1>2 DEF Axis!Disarm
  <2>2. /\ Axis!Retired(h) \in Axis!Request /\ ~Axis!Retired(h).active
        /\ Axis!Retired(h).lease = h.lease
    BY <1>1 DEF Axis!Retired, Axis!Request, Axis!Run, Axis!HomeState
  <2> QED BY <1>1, <1>2, <2>1, <2>2, RestoreEffect
<1>3. CASE UsesProbe
  BY <1>3, DisarmProbeEffect
<1> QED BY <1>2, <1>3

(* Queueing a controlled stop.                                             *)
LEMMA QueueStopEffect ==
  ASSUME Axis!TypeOK, request.active, NEW h, Like(h), Axis!QueueControlStop(h)
  PROVE  Processed
<1>1. h.lease \in Nat /\ "stop" \in Axis!Kind /\ sequence \in Nat /\ h \in Axis!Request
  BY DEF Like, Axis!Request, Axis!Kind, Axis!TypeOK
<1>2. /\ Axis!Submitting("stop", h.lease)
      /\ request' = h \/ request' = [h EXCEPT !.stop = sequence, !.stopIssued = TRUE]
  BY DEF Axis!QueueControlStop
<1>3. Like(request')
  BY <1>1, <1>2 DEF Like, Axis!Request
<1> QED BY <1>1, <1>2, <1>3, SubmittingEffect, GoesOn

(* Cancelling: stop, wait until the axis stands, disarm.                   *)
LEMMA CancelEffect ==
  ASSUME Axis!TypeOK, DisarmIsLast, request.active, Axis!ProcessCancel
  PROVE  Processed
<1> DEFINE h == IF Axis!Current(request.lease) THEN request
                ELSE [request EXCEPT !.move = Axis!Invalid, !.stop = Axis!Invalid,
                                     !.stopIssued = FALSE]
           p == Axis!Polled(h)
           k == [p EXCEPT !.stopIssued = FALSE, !.homed = FALSE]
<1>1. Like(h)
  BY LikeItself DEF Like, Axis!Request, Axis!Invalid
<1>2. Like(p)
  BY <1>1, PolledLike
<1>3. \/ Axis!Fail(p)
      \/ Axis!QueueControlStop(p)
      \/ request' = p /\ Axis!Quietly
      \/ Axis!Disarm(k)
  BY DEF Axis!ProcessCancel
<1> HIDE DEF p, h
<1>4. Like(k)
  BY <1>2 DEF Like, Axis!Request
<1> HIDE DEF k
<1> QED BY <1>2, <1>3, <1>4, LikeFails, QueueStopEffect, QuietlyEffect, GoesOn, DisarmEffect

(* A feed hold: stop, wait until the axis stands, pause.                   *)
LEMMA HoldEffect ==
  ASSUME Axis!TypeOK, request.active, NEW p, Like(p), Axis!ProcessHold(p)
  PROVE  Processed
<1>1. Like([p EXCEPT !.state = "INDEX_DECEL_STOP", !.issued = FALSE])
  BY DEF Like, Axis!Request, Axis!HomeState
<1> DEFINE Paused(h) == [h EXCEPT !.run = "PAUSED", !.stopIssued = FALSE,
                               !.issued = @ /\ h.state # "MOVE_TO_ZERO"]
<1>2. PICK h : /\ Like(h)
               /\ \/ Axis!QueueControlStop(h)
                  \/ /\ Axis!Quietly
                     /\ request' \in {h, Axis!Running(Paused(h)), Paused(h)}
  BY <1>1 DEF Axis!ProcessHold
<1>3. Like(Paused(h))
  BY <1>2 DEF Like, Axis!Request, Axis!Run
<1> HIDE DEF Paused
<1>4. Like(Axis!Running(Paused(h)))
  BY <1>3 DEF Like, Axis!Request, Axis!Run, Axis!Running
<1> QED BY <1>2, <1>3, <1>4, QueueStopEffect, QuietlyEffect, GoesOn

(* A pause, and its end.                                                   *)
LEMMA PausedEffect ==
  ASSUME Axis!TypeOK, request.active, NEW h, Like(h), Axis!ProcessPaused(h)
  PROVE  Processed
<1>1. request' \in {h, Axis!Running(h)} /\ Axis!Quietly
  BY DEF Axis!ProcessPaused
<1>2. Like(Axis!Running(h))
  BY DEF Like, Axis!Request, Axis!Run, Axis!Running
<1> QED BY <1>1, <1>2, QuietlyEffect, GoesOn

(* Going from state to state.                                              *)
LEMMA EnteringLike ==
  ASSUME NEW h, Like(h), NEW state \in Axis!HomeState
  PROVE  Like(Axis!Entering(h, state))
BY DEF Like, Axis!Request, Axis!Entering

(* Searching the index.                                                    *)
LEMMA SearchEffect ==
  ASSUME Axis!TypeOK, request.active, NEW h, Like(h),
         Axis!IndexFound(h) \/ Axis!IndexSought(h)
  PROVE  Processed /\ searches' \in Nat
<1>1. h.lease \in Nat /\ {"stop", "velocity"} \subseteq Axis!Kind /\ searches \in Nat
  BY DEF Like, Axis!Request, Axis!Kind, Axis!TypeOK
<1>2. searches' \in Nat
  BY <1>1 DEF Axis!IndexFound, Axis!IndexSought
<1>3. CASE Axis!IndexFound(h)
  <2>1. /\ request' = Axis!Entering(h, "INDEX_DECEL_STOP")
        /\ Axis!Submitting("stop", h.lease) \/ Axis!Quietly
    BY <1>3 DEF Axis!IndexFound
  <2>2. Like(request')
    BY <2>1, EnteringLike DEF Axis!HomeState
  <2> QED BY <1>1, <1>2, <2>1, <2>2, SubmittingEffect, QuietlyEffect, GoesOn
<1>4. CASE Axis!IndexSought(h)
  <2>1. \/ Axis!Fail(h)
        \/ request' = [h EXCEPT !.issued = TRUE] /\ Axis!Submitting("velocity", h.lease)
    BY <1>4 DEF Axis!IndexSought
  <2>2. Like([h EXCEPT !.issued = TRUE])
    BY DEF Like, Axis!Request
  <2> QED BY <1>1, <1>2, <2>1, <2>2, LikeFails, SubmittingEffect, GoesOn
<1> QED BY <1>3, <1>4

(* Decelerating from the index.                                            *)
LEMMA DecelEffect ==
  ASSUME Axis!TypeOK, request.active, NEW h, Like(h), Axis!IndexDecelStop(h)
  PROVE  Processed
<1>1. h.lease \in Nat /\ "stop" \in Axis!Kind
  BY DEF Like, Axis!Request, Axis!Kind
<1>2. axis \in {"IDLE", "VELOCITY", "MOVING", "STOPPING"}
  BY DEF Axis!TypeOK
<1>3. \/ request' = h /\ (Axis!Submitting("stop", h.lease) \/ Axis!Quietly)
      \/ Axis!Fail(h)
      \/ request' = Axis!Entering(h, "APPLY_HOME") /\ Axis!Quietly
  BY <1>2 DEF Axis!IndexDecelStop
<1>4. Like(Axis!Entering(h, "APPLY_HOME"))
  BY EnteringLike DEF Axis!HomeState
<1> QED BY <1>1, <1>3, <1>4, LikeFails, SubmittingEffect, QuietlyEffect, GoesOn

(* Committing the reference.                                               *)
LEMMA ApplyHomeEffect ==
  ASSUME Axis!TypeOK, request.active, NEW h, Like(h), Axis!ApplyHome(h)
  PROVE  Processed
<1> DEFINE answered == [h EXCEPT !.apply = Axis!Invalid]
<1>1. /\ h.lease \in Nat /\ "apply home" \in Axis!Kind /\ sequence \in Nat \ {0}
      /\ h \in Axis!Request /\ ledger \in [0 .. ResultCapacity - 1 -> Axis!Receipt]
  BY DEF Like, Axis!Request, Axis!Kind, Axis!TypeOK
<1>2. Like(answered) /\ Like([h EXCEPT !.apply = sequence])
  BY <1>1 DEF Like, Axis!Request, Axis!Invalid
<1>3. CASE axis # "IDLE"
  BY <1>3, LikeFails DEF Axis!ApplyHome
<1>4. CASE axis = "IDLE" /\ h.apply = Axis!Invalid
  <2>1. \/ request' = h /\ Axis!Refused(sequence) /\ UNCHANGED <<owner, emergency>>
        \/ Axis!Submitting("apply home", h.lease) /\ request' = [h EXCEPT !.apply = sequence]
        \/ Axis!FailFrom(sequence + 1, h)
    BY <1>4 DEF Axis!ApplyHome
  <2>2. CASE request' = h /\ Axis!Refused(sequence) /\ UNCHANGED <<owner, emergency>>
    BY <2>2, RefusedEffect, GoesOn DEF Axis!TypeOK
  <2>3. CASE Axis!Submitting("apply home", h.lease)
             /\ request' = [h EXCEPT !.apply = sequence]
    BY <1>1, <1>2, <2>3, SubmittingEffect, GoesOn
  <2>4. CASE Axis!FailFrom(sequence + 1, h)
    <3>1. sequence \in Nat
      BY <1>1
    <3>2. sequence + 1 \in Nat \ {0} /\ sequence + 1 >= sequence
      BY <3>1
    <3> QED BY <1>1, <2>4, <3>2, FailEffect DEF Like
  <2> QED BY <2>1, <2>2, <2>3, <2>4
<1>5. CASE axis = "IDLE" /\ h.apply # Axis!Invalid /\ ~Axis!Answered(h.apply)
  <2>1. request' = h /\ Axis!Quietly
    BY <1>5 DEF Axis!ApplyHome
  <2> QED BY <2>1, QuietlyEffect, GoesOn
<1>6. CASE axis = "IDLE" /\ h.apply # Axis!Invalid /\ Axis!Answered(h.apply)
  <2> DEFINE outcome == Axis!Result(h.apply)
  <2>1. outcome \in Axis!Outcome
    <3>1. Axis!Slot(h.apply) \in 0 .. ResultCapacity - 1
      <4>1. h.apply \in Nat /\ ResultCapacity \in Nat \ {0}
        BY <1>1, HomeAxisAssumption DEF Axis!Request
      <4> QED BY <4>1 DEF Axis!Slot
    <3>2. ledger[Axis!Slot(h.apply)] \in Axis!Receipt
      BY <1>1, <3>1
    <3> QED BY <3>2 DEF Axis!Result, Axis!Receipt
  <2>2. \/ request' = answered /\ Axis!Quietly
        \/ Axis!Fail(answered)
        \/ request' = Axis!Entering([answered EXCEPT !.homed = TRUE], "MOVE_TO_ZERO")
             /\ Axis!Quietly
    BY <1>6, <2>1 DEF Axis!ApplyHome, Axis!Outcome
  <2> HIDE DEF answered
  <2>3. Like([answered EXCEPT !.homed = TRUE])
    BY <1>2 DEF Like, Axis!Request
  <2>4. Like(Axis!Entering([answered EXCEPT !.homed = TRUE], "MOVE_TO_ZERO"))
    BY <2>3, EnteringLike DEF Axis!HomeState
  <2> QED BY <1>2, <2>2, <2>4, LikeFails, QuietlyEffect, GoesOn
<1> QED BY <1>3, <1>4, <1>5, <1>6

(* Moving to zero.                                                         *)
LEMMA MoveEffect ==
  ASSUME Axis!TypeOK, DisarmIsLast, request.active, NEW h, Like(h),
         Axis!MoveToZero(h)
  PROVE  Processed
<1>1. h.lease \in Nat /\ "move" \in Axis!Kind /\ sequence \in Nat /\ h \in Axis!Request
  BY DEF Like, Axis!Request, Axis!Kind, Axis!TypeOK
<1>2. Like([h EXCEPT !.move = sequence, !.issued = TRUE])
  BY <1>1 DEF Like, Axis!Request
<1>3. \/ /\ Axis!Submitting("move", h.lease)
         /\ request' = h \/ request' = [h EXCEPT !.move = sequence, !.issued = TRUE]
      \/ request' = h /\ Axis!Quietly
      \/ Axis!Disarm(h)
      \/ Axis!Fail(h)
  BY DEF Axis!MoveToZero
<1> QED BY <1>1, <1>2, <1>3, SubmittingEffect, QuietlyEffect, GoesOn, DisarmEffect, LikeFails

(* Every scan comes to one of the above.                                   *)
LEMMA ProcessEffect ==
  ASSUME Axis!TypeOK, DisarmIsLast, Axis!Process
  PROVE  Processed /\ searches' \in Nat
<1> DEFINE p == Axis!Polled(request)
<1>1. Like(request) /\ Like(p) /\ searches \in Nat
  BY LikeItself, PolledLike DEF Axis!TypeOK
<1>2. \/ ~request.active /\ Axis!RestoreOrRelease(request) /\ UNCHANGED searches
      \/ request.active /\ Axis!ProcessCancel /\ UNCHANGED searches
      \/ request.active /\ Axis!Fail(request) /\ UNCHANGED searches
      \/ request.active /\ Axis!Fail(p) /\ UNCHANGED searches
      \/ request.active /\ Axis!ProcessHold(p) /\ UNCHANGED searches
      \/ request.active /\ Axis!ProcessPaused(p) /\ UNCHANGED searches
      \/ request.active /\ Axis!ProcessAxis(p)
  BY DEF Axis!Process
<1> HIDE DEF p
<1>3. CASE request.active /\ Axis!ProcessAxis(p)
  <2>1. \/ Axis!IndexFound(p) \/ Axis!IndexSought(p)
        \/ Axis!IndexDecelStop(p) /\ UNCHANGED searches
        \/ Axis!ApplyHome(p) /\ UNCHANGED searches
        \/ Axis!MoveToZero(p) /\ UNCHANGED searches
        \/ Axis!Fail(p) /\ UNCHANGED searches
    BY <1>3 DEF Axis!ProcessAxis
  <2> QED BY <1>1, <1>3, <2>1, SearchEffect, DecelEffect, ApplyHomeEffect, MoveEffect,
             LikeFails
<1>4. CASE ~request.active /\ Axis!RestoreOrRelease(request) /\ UNCHANGED searches
  BY <1>1, <1>4, RestoreEffect DEF Like
<1> QED
  BY <1>1, <1>2, <1>3, <1>4, CancelEffect, LikeFails, HoldEffect, PausedEffect

(* What the ledger answers is past.                                        *)
LEMMA AnsweredPast ==
  ASSUME Axis!TypeOK, AnsweredIsPast, NEW s \in Nat \ {0}, Axis!Answered(s)
  PROVE  \A c \in Axis!OnTheWay : s < c.sequence
<1>1. Axis!Slot(s) \in DOMAIN ledger
  <2>1. DOMAIN ledger = 0 .. ResultCapacity - 1 /\ ResultCapacity \in Nat \ {0}
    BY HomeAxisAssumption DEF Axis!TypeOK
  <2> QED BY <2>1 DEF Axis!Slot
<1>2. Past(s)
  BY <1>1 DEF Axis!Answered, AnsweredIsPast
<1> QED BY <1>2 DEF Past

(* Once the disarm of a request that has ended is answered, or there is    *)
(* none, no command is under way under its lease.                          *)
LEMMA AnsweredIsSettled ==
  ASSUME UsesProbe, Axis!TypeOK, AnsweredIsPast, DisarmIsLast, owner.name = "HOME",
         ~request.active, ~request.error,
         request.disarm = Axis!Invalid \/ Axis!Answered(request.disarm),
         NEW c \in Axis!OnTheWay
  PROVE  c.lease # request.lease
<1>1. c.sequence \in Nat \ {0} /\ request.disarm \in Nat
  BY UnderWay DEF Axis!Command, Axis!TypeOK, Axis!Request
<1>2. c.lease = request.lease => c.sequence <= request.disarm
  BY DEF DisarmIsLast
<1>3. CASE request.disarm = Axis!Invalid
  BY <1>1, <1>2, <1>3 DEF Axis!Invalid
<1>4. CASE request.disarm # Axis!Invalid
  <2>1. request.disarm < c.sequence
    BY <1>1, <1>4, AnsweredPast DEF Axis!Invalid
  <2> QED BY <1>1, <1>2, <2>1
<1> QED BY <1>3, <1>4

(* Whatever a scan comes to, it keeps the invariant.                       *)
LEMMA ProcessKeeps ==
  ASSUME AxisIInv, Axis!Process PROVE AxisIInv'
<1>1. /\ Axis!TypeOK /\ Numbered /\ InOrder /\ AnsweredIsPast
      /\ LeaseIsHomes /\ DisarmIsLast
  BY DEF AxisIInv
<1>2. Processed /\ searches' \in Nat
  BY <1>1, ProcessEffect
<1>3. UNCHANGED <<results, ledger, axis, rt, holds, deferred, sessions>> /\ scan' = "results"
  BY DEF Axis!Process
<1>4. /\ owner \in [name : {"NONE", "HOME", "SAFETY"}, generation : Nat \ {0}]
      /\ request \in Axis!Request /\ sequence \in Nat \ {0}
      /\ commands \in Seq(Axis!Command)
  BY <1>1 DEF Axis!TypeOK
<1>5. owner' \in [name : {"NONE", "HOME", "SAFETY"}, generation : Nat \ {0}]
  BY <1>2, <1>4 DEF Processed, Released
<1>6. commands' \in Seq(Axis!Command) /\ sequence' \in Nat \ {0} /\ sequence' >= sequence
  <2>1. CASE commands' = commands /\ sequence' >= sequence
    BY <1>2, <1>4, <2>1 DEF Processed, Submitted
  <2>2. CASE \E c \in Axis!Command :
               /\ c.sequence >= sequence /\ c.sequence < sequence'
               /\ commands' = Append(commands, c)
    <3>1. PICK c \in Axis!Command :
            /\ c.sequence >= sequence /\ c.sequence < sequence'
            /\ commands' = Append(commands, c)
      BY <2>2
    <3>2. c.sequence \in Nat /\ sequence' \in Nat \ {0}
      BY <1>2 DEF Axis!Command, Processed, Submitted
    <3> QED BY <1>4, <3>1, <3>2
  <2> QED BY <1>2, <2>1, <2>2 DEF Processed, Submitted
<1>7. Axis!TypeOK'
  BY <1>1, <1>2, <1>3, <1>5, <1>6 DEF Axis!TypeOK, Processed, Submitted
<1>8. \/ commands' = commands
      \/ \E c \in Axis!Command :
           /\ c.sequence >= sequence /\ c.sequence < sequence'
           /\ Len(commands') = Len(commands) + 1
           /\ \A i \in DOMAIN commands : commands'[i] = commands[i]
           /\ commands'[Len(commands) + 1] = c
  <2>1. ASSUME NEW c \in Axis!Command, commands' = Append(commands, c)
        PROVE  /\ Len(commands') = Len(commands) + 1
               /\ \A i \in DOMAIN commands : commands'[i] = commands[i]
               /\ commands'[Len(commands) + 1] = c
    <3>1. /\ \A i \in 1 .. Len(commands) :  Append(commands, c)[i] = commands[i]
          /\ Append(commands, c)[Len(commands) + 1] = c
          /\ Len(Append(commands, c)) = Len(commands) + 1
      BY <1>4, AppendProperties
    <3>2. DOMAIN commands = 1 .. Len(commands)
      BY <1>4
    <3> QED BY <2>1, <3>1, <3>2
  <2> QED BY <1>2, <2>1 DEF Processed, Submitted
<1>9. ASSUME NEW i \in DOMAIN commands'
      PROVE  \/ i \in DOMAIN commands /\ commands'[i] = commands[i]
             \/ /\ commands' # commands /\ i = Len(commands) + 1
                /\ commands'[i].sequence >= sequence /\ commands'[i].sequence < sequence'
  BY <1>4, <1>6, <1>8
<1>10. /\ \A i \in DOMAIN commands : commands[i].sequence \in Nat
       /\ \A i \in DOMAIN commands' : commands'[i].sequence \in Nat
  <2>1. \A i \in DOMAIN commands : commands[i] \in Axis!Command
    BY <1>4
  <2>2. \A i \in DOMAIN commands' : commands'[i] \in Axis!Command
    BY <1>6
  <2> QED BY <2>1, <2>2 DEF Axis!Command
<1>11. Numbered'
  <2>1. ASSUME NEW i \in DOMAIN commands' PROVE commands'[i].sequence < sequence'
    BY <1>1, <1>4, <1>6, <1>9, <1>10 DEF Numbered
  <2>2. ASSUME rt.at = "apply" PROVE rt.command.sequence < sequence'
    <3>1. rt.command.sequence \in Nat
      BY <1>1, <2>2 DEF Axis!TypeOK, Axis!InHand, Axis!Command
    <3> QED BY <1>1, <1>4, <1>6, <2>2, <3>1 DEF Numbered
  <2> QED BY <1>3, <2>1, <2>2 DEF Numbered
<1>12. InOrder'
  <2>1. ASSUME NEW i \in DOMAIN commands', NEW j \in DOMAIN commands', i < j
        PROVE  commands'[i].sequence < commands'[j].sequence
    <3>1. CASE j \in DOMAIN commands /\ commands'[j] = commands[j]
      <4>1. i \in DOMAIN commands /\ commands'[i] = commands[i]
        BY <1>4, <1>6, <1>9, <2>1, <3>1
      <4> QED BY <1>1, <2>1, <3>1, <4>1 DEF InOrder
    <3>2. CASE /\ commands' # commands /\ j = Len(commands) + 1
               /\ commands'[j].sequence >= sequence /\ commands'[j].sequence < sequence'
      <4>1. i \in DOMAIN commands /\ commands'[i] = commands[i]
        BY <1>4, <1>6, <1>9, <2>1, <3>2
      <4>2. commands[i].sequence < sequence /\ commands[i].sequence \in Nat
        BY <1>1, <1>10, <4>1 DEF Numbered
      <4>3. commands'[j].sequence \in Nat
        BY <1>10
      <4> QED BY <1>4, <3>2, <4>1, <4>2, <4>3
    <3> QED BY <1>9, <3>1, <3>2
  <2>2. ASSUME rt.at = "apply", NEW i \in DOMAIN commands'
        PROVE  rt.command.sequence < commands'[i].sequence
    <3>1. rt.command.sequence \in Nat /\ rt.command.sequence < sequence
      BY <1>1, <2>2 DEF Axis!TypeOK, Axis!InHand, Axis!Command, Numbered
    <3>2. commands'[i].sequence \in Nat
      BY <1>10
    <3> QED BY <1>1, <1>4, <1>9, <2>2, <3>1, <3>2 DEF InOrder
  <2> QED BY <1>3, <2>1, <2>2 DEF InOrder
<1>13. ASSUME NEW c \in Axis!OnTheWay'
       PROVE  \/ c \in Axis!OnTheWay
              \/ /\ commands' # commands
                 /\ c \in Axis!Command /\ c.sequence >= sequence /\ c.sequence < sequence'
  <2>1. CASE \E i \in DOMAIN commands' : c = commands'[i]
    BY <1>6, <1>9, <2>1 DEF Axis!OnTheWay
  <2>2. CASE rt'.at = "apply" /\ c = rt'.command
    BY <1>3, <2>2 DEF Axis!OnTheWay
  <2> QED BY <1>13, <2>1, <2>2 DEF Axis!OnTheWay
<1>14. ASSUME NEW s \in Nat, Past(s) PROVE Past(s)'
  <2>1. s < sequence /\ \A c \in Axis!OnTheWay : s < c.sequence
    BY <1>14 DEF Past
  <2>2. s < sequence'
    BY <2>1, <1>4, <1>6
  <2>3. ASSUME NEW c \in Axis!OnTheWay' PROVE s < c.sequence
    BY <2>1, <1>4, <1>13 DEF Axis!Command
  <2> QED BY <2>2, <2>3 DEF Past
<1>15. AnsweredIsPast'
  BY <1>1, <1>3, <1>14, Receipts DEF AnsweredIsPast
<1>16. LeaseIsHomes'
  <2>1. request.lease \in Nat /\ owner.generation \in Nat \ {0}
    BY <1>4 DEF Axis!Request
  <2>2. owner.name = "HOME" => Axis!Current(request.lease)
    BY <1>1 DEF LeaseIsHomes, Axis!Current
  <2>3. CASE owner' = owner /\ request'.lease = request.lease
    BY <1>1, <2>3 DEF LeaseIsHomes
  <2>4. CASE owner' = owner /\ Gone
    BY <2>1, <2>2, <2>4 DEF LeaseIsHomes, Gone, Axis!Invalid
  <2>5. CASE Released
    BY <2>1, <2>5 DEF LeaseIsHomes, Released, Axis!Invalid
  <2> QED BY <1>2, <2>3, <2>4, <2>5
          DEF Processed, Going, Like, Failed, Waiting, Disarming, Ended, Kept
<1>17. DisarmIsLast'
  <2>1. CASE owner' = owner /\ Going
    BY <1>1, <2>1 DEF Going, Like, DisarmIsLast
  <2>2. CASE owner' = owner /\ Failed
    BY <2>2 DEF Failed, DisarmIsLast
  <2>3. CASE owner' = owner /\ Gone
    BY <1>1, <2>3 DEF Gone, LeaseIsHomes, Axis!Current, DisarmIsLast
  <2>4. CASE owner' = owner /\ Waiting
    <3>1. Axis!OnTheWay' = Axis!OnTheWay
      BY <1>3, <2>4 DEF Waiting, Axis!OnTheWay
    <3>2. /\ ~request.active /\ request'.active = request.active
          /\ request'.error = request.error /\ request'.lease = request.lease
          /\ request'.disarm = request.disarm
      BY <2>4 DEF Waiting, Like
    <3> QED BY <1>1, <2>4, <3>1, <3>2 DEF DisarmIsLast, Axis!Invalid
  <2>5. CASE owner' = owner /\ Disarming
    <3>1. ~request'.active /\ request'.disarm = sequence /\ sequence' = sequence + 1
      BY <2>5 DEF Disarming
    <3>2. ASSUME NEW c \in Axis!OnTheWay' PROVE c.sequence <= sequence
      <4>1. c \in Axis!OnTheWay' => c \in Axis!Command
        BY <1>7, <1>13, <1>1, UnderWay
      <4>2. c.sequence \in Nat
        BY <3>2, <4>1 DEF Axis!Command
      <4>3. CASE c \in Axis!OnTheWay
        <5>1. c.sequence < sequence
          BY <1>1, <4>3 DEF Axis!OnTheWay, Numbered
        <5> QED BY <5>1, <4>2, <1>4
      <4>4. CASE c.sequence < sequence'
        BY <4>2, <4>4, <3>1, <1>4
      <4> QED BY <1>13, <3>2, <4>3, <4>4
    <3> QED BY <3>1, <3>2 DEF DisarmIsLast
  <2>6. CASE Released
    BY <2>6 DEF Released, DisarmIsLast
  <2>7. CASE Ended
    BY <2>7 DEF Ended, DisarmIsLast
  <2>8. CASE owner' = owner /\ Kept
    <3> SUFFICES ASSUME UsesProbe, owner.name = "HOME", NEW c \in Axis!OnTheWay'
                 PROVE  c.lease # request.lease
      BY <2>8 DEF Kept, DisarmIsLast
    <3>1. c \in Axis!OnTheWay
      BY <1>3, <2>8 DEF Kept, Axis!OnTheWay
    <3> QED BY <1>1, <2>8, <3>1, AnsweredIsSettled DEF Kept
  <2> QED BY <1>2, <2>1, <2>2, <2>3, <2>4, <2>5, <2>6, <2>7, <2>8 DEF Processed
<1> QED BY <1>7, <1>11, <1>12, <1>15, <1>16, <1>17 DEF AxisIInv

(* Every step keeps the invariant.                                         *)
LEMMA AxisStepKeeps == AxisIInv /\ [Axis!Next]_Axis!vars => AxisIInv'
<1> SUFFICES ASSUME AxisIInv, [Axis!Next]_Axis!vars PROVE AxisIInv'
  OBVIOUS
<1>1. CASE UNCHANGED Axis!vars
  <2>1. UNCHANGED <<commands, results, ledger, sequence, owner, axis, rt, scan, request,
                    emergency, searches, holds, refused, deferred, sessions>>
    BY <1>1 DEF Axis!vars, Axis!channelVars, Axis!counters
  <2>2. Axis!TypeOK'
    BY <2>1 DEF AxisIInv, Axis!TypeOK
  <2>3. Axis!OnTheWay' = Axis!OnTheWay
    BY <2>1 DEF Axis!OnTheWay
  <2> QED BY <2>1, <2>2, <2>3, RequestStays, OwnershipKeeps
<1>2. CASE Axis!ProcessAxisCommandResults
  BY <1>2, FileKeeps
<1>3. CASE Axis!Process
  BY <1>3, ProcessKeeps
<1>4. CASE Axis!BeginPass \/ Axis!EndPass \/ Axis!ComeToRest
  BY <1>4, PassKeeps
<1>5. CASE Axis!Take
  BY <1>5, TakeKeeps
<1>6. CASE Axis!Apply
  BY <1>6, ApplyKeeps
<1>7. CASE Axis!Publish
  BY <1>7, PublishKeeps
<1>8. CASE Axis!Start
  BY <1>8, StartKeeps
<1>9. CASE Axis!RequestHold \/ Axis!Resume \/ Axis!Cancel
  BY <1>9, AskKeeps
<1>10. CASE Axis!TakeSafety \/ Axis!ReleaseSafety
  BY <1>10, SafetyKeeps
<1> QED BY <1>1, <1>2, <1>3, <1>4, <1>5, <1>6, <1>7, <1>8, <1>9, <1>10
        DEF Axis!Next, Axis!Control, Axis!Runtime

(* It holds of every state that is reached.                                *)
THEOREM AxisInvariant == Axis!Spec => []AxisIInv
<1> QED BY AxisInit, AxisStepKeeps, PTL DEF Axis!Spec

(* The rings, the ledger, the command in the motion thread's hand and the  *)
(* HOME request keep their types.                                          *)
THEOREM AxisTypesHold == Axis!Spec => []Axis!TypeOK
<1>1. AxisIInv => Axis!TypeOK
  BY DEF AxisIInv
<1> QED BY <1>1, AxisInvariant, PTL

(* TryGetAxisCommandResult: once a result can be read, no command with its *)
(* number or a smaller one is queued or about to be applied.               *)
AnsweredIsApplied ==
  \A s \in Nat \ {0} :
    Axis!Answered(s) => \A c \in Axis!OnTheWay : s < c.sequence

(* It holds for every capacity of the rings and of the ledger.             *)
THEOREM AnswersAreFinal == Axis!Spec => []AnsweredIsApplied
<1>1. AxisIInv => AnsweredIsApplied
  <2> SUFFICES ASSUME AxisIInv, NEW s \in Nat \ {0}, Axis!Answered(s)
               PROVE  \A c \in Axis!OnTheWay : s < c.sequence
    BY DEF AnsweredIsApplied
  <2> QED BY AnsweredPast DEF AxisIInv
<1> QED BY <1>1, AxisInvariant, PTL

(* The disarm is the last command under the lease, and its result is read. *)
LEMMA OnlySettledIsReturned ==
  ASSUME UsesProbe, AxisIInv, [Axis!Next]_Axis!vars,
         owner.name = "HOME", owner'.name = "NONE", NEW c \in Axis!OnTheWay
  PROVE  c.lease # owner.generation
<1>1. /\ Axis!TypeOK /\ AnsweredIsPast /\ LeaseIsHomes /\ DisarmIsLast
  BY DEF AxisIInv
<1>2. Axis!Process
  <2>1. owner' # owner
    OBVIOUS
  <2>2. ~(Axis!ProcessAxisCommandResults \/ Axis!BeginPass \/ Axis!EndPass
          \/ Axis!ComeToRest \/ Axis!Take \/ Axis!Apply \/ Axis!Publish)
    BY <2>1 DEF Axis!ProcessAxisCommandResults, Axis!BeginPass, Axis!EndPass,
       Axis!ComeToRest, Axis!Take, Axis!Apply, Axis!Publish
  <2>3. ~(Axis!RequestHold \/ Axis!Resume \/ Axis!Cancel \/ UNCHANGED Axis!vars)
    BY <2>1 DEF Axis!RequestHold, Axis!Resume, Axis!Cancel, Axis!Asked, Axis!vars
  <2>4. ~(Axis!TakeSafety \/ Axis!ReleaseSafety \/ Axis!Start)
    BY DEF Axis!TakeSafety, Axis!ReleaseSafety, Axis!Start
  <2> QED BY <2>2, <2>3, <2>4 DEF Axis!Next, Axis!Control, Axis!Runtime
<1>3. Released
  BY <1>1, <1>2, ProcessEffect DEF Processed
<1>4. request.lease = owner.generation
  BY <1>1 DEF LeaseIsHomes
<1> QED BY <1>1, <1>3, <1>4, AnsweredIsSettled DEF Released

(* With a probe, HOME gives its lease back only when no command under it   *)
(* is queued or about to be applied ("a zero queue depth is not            *)
(* sufficient", RestoreOrReleaseHomeMotionOwner).                          *)
THEOREM ReturnsAreSettled ==
  ASSUME UsesProbe PROVE Axis!Spec => ReturnedLeaseIsSettled
<1>1. AxisIInv /\ [Axis!Next]_Axis!vars =>
        [owner.name = "HOME" /\ owner'.name = "NONE"
           => \A c \in Axis!OnTheWay : c.lease # owner.generation]_Axis!vars
  BY OnlySettledIsReturned
<1> QED BY <1>1, AxisInvariant, PTL
        DEF Axis!Spec, ReturnedLeaseIsSettled, Axis!ReturnedLeaseIsSettled

-----------------------------------------------------------------------------
(* What holds of each of the two holds of both, one of which moves.        *)
THEOREM HomesKeepTheirSpecs == HomeSpec => Spec /\ Axis!Spec
<1>1. HomeInit => Init /\ Axis!Init
  BY DEF HomeInit
<1>2. [PersistenceMoves \/ AxisMoves]_<<moving, vars, axisVariables>> =>
        [Next]_vars /\ [Axis!Next]_Axis!vars
  BY DEF PersistenceMoves, AxisMoves, axisVariables, Axis!vars, Axis!channelVars,
     Axis!counters
<1> QED BY <1>1, <1>2, PTL DEF HomeSpec, Spec, Axis!Spec
=============================================================================
