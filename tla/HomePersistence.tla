--------------------------- MODULE HomePersistence ---------------------------
(***************************************************************************)
(* HomePersistenceManager: the last successful HOME of each axis in a      *)
(* snapshot file, and every one of them as a row of a history file.        *)
(*                                                                         *)
(* HomingManager queues in memory; the 1000 ms task of the same thread     *)
(* flushes.  So the only actors are that thread, a file interface that may *)
(* fail at every call, and the end of the Core at any moment.  A record is *)
(* its sequence number, 0 if the axis has none; a file is cut between two  *)
(* records.  What was written before the Core ends is on the disk.         *)
(***************************************************************************)
EXTENDS Integers, Sequences, FiniteSets, FiniteSetsExt

CONSTANTS
  Axes,         (* HOME_AXIS_COUNT                                         *)
  MaxHomes,     (* successful HOMEs in a run                               *)
  MaxFailures,  (* calls of the file interface that fail in a run          *)
  MaxCrashes    (* ends of the Core in a run                               *)

ASSUME PersistenceAssumption ==
  /\ Axes \in Nat \ {0}
  /\ MaxHomes \in Nat /\ MaxFailures \in Nat /\ MaxCrashes \in Nat

VARIABLES
  snapshot,  (* HomeSnapshot.txt                                           *)
  backup,    (* HomeSnapshot.bak.txt                                       *)
  history,   (* HomeHistory.csv                                            *)
  last,      (* m_lastSnapshots                                            *)
  pending,   (* m_pendingHistory                                           *)
  dirty,     (* m_snapshotDirty                                            *)
  next,      (* m_nextSequenceNumber                                       *)
  pc,        (* where the thread is                                        *)
  had,       (* hadPreviousSnapshot                                        *)
  row,       (* the pending record to be appended                          *)
  budget,    (* HOMEs, failures and crashes left                           *)
  session,   (* history: the sequence numbers queued since the start       *)
  sound,     (* history: no restart met a snapshot that was cut, out of    *)
             (* date or unreadable                                         *)
  stale,     (* history: the backup is not a copy, made in this flush, of  *)
             (* a snapshot that was up to date                             *)
  outdated   (* history: the snapshot was put back from such a backup      *)

disk == <<snapshot, backup, history>>
memory == <<last, pending, dirty, next>>
flush == <<had, row, stale>>
ghosts == <<session, sound>>
vars == <<disk, memory, pc, flush, budget, ghosts, outdated>>

NoFile == [exists |-> FALSE, data |-> <<>>]
Empty == [exists |-> TRUE, data |-> <<>>]
None == [a \in 1 .. Axes |-> 0]
Whole(f) == f.exists /\ Len(f.data) = Axes

(* LoadSnapshotFile: the axes that are missing have no record.             *)
Parse(f) == [a \in 1 .. Axes |-> IF a <= Len(f.data) THEN f.data[a] ELSE 0]

NextAfter(records) == Max({records[a] : a \in 1 .. Axes}) + 1

Init ==
  /\ snapshot = NoFile /\ backup = NoFile /\ history = [exists |-> FALSE, lines |-> <<>>]
  /\ last = None /\ pending = <<>> /\ dirty = FALSE /\ next = 1
  /\ pc = "idle" /\ had = FALSE /\ row = 1 /\ stale = TRUE
  /\ budget = [homes |-> MaxHomes, failures |-> MaxFailures, crashes |-> MaxCrashes]
  /\ session = {} /\ sound = TRUE /\ outdated = FALSE

At(label) == pc = label
Goto(label) == pc' = label
Spend(what) == budget[what] > 0 /\ budget' = [budget EXCEPT ![what] = @ - 1]
Fail == Spend("failures")

QueueSuccessfulHome(a) ==
  /\ At("idle") /\ Spend("homes")
  /\ last' = [last EXCEPT ![a] = next]
  /\ pending' = Append(pending, next)
  /\ dirty' = TRUE /\ next' = next + 1
  /\ session' = session \cup {next}
  /\ UNCHANGED <<disk, pc, flush, sound, outdated>>

-----------------------------------------------------------------------------
(* FlushPending.                                                           *)

FlushPending ==
  /\ At("idle") /\ (dirty \/ pending # <<>>)
  /\ had' = snapshot.exists /\ row' = 1 /\ stale' = TRUE
  /\ Goto(IF ~dirty THEN "history" ELSE IF snapshot.exists THEN "backup" ELSE "open")
  /\ UNCHANGED <<disk, memory, budget, ghosts, outdated>>

(* A copy truncates its target, then appends; a failure leaves what is     *)
(* there.  A backup that cannot be made is only reported.                  *)
More(from, to) == [to EXCEPT !.data = Append(@, from.data[Len(@) + 1])]

BackupOpen ==
  /\ At("backup")
  /\ \/ backup' = Empty /\ Goto("backup copy") /\ UNCHANGED budget
     \/ Fail /\ Goto("open") /\ UNCHANGED backup
  /\ UNCHANGED <<snapshot, history, memory, flush, ghosts, outdated>>

BackupCopy ==
  /\ At("backup copy")
  /\ \/ /\ Len(backup.data) < Len(snapshot.data)
        /\ backup' = More(snapshot, backup)
        /\ UNCHANGED <<pc, budget, stale>>
     \/ /\ Len(backup.data) = Len(snapshot.data)
        /\ stale' = outdated
        /\ Goto("open") /\ UNCHANGED <<backup, budget>>
     \/ Fail /\ Goto("open") /\ UNCHANGED <<backup, stale>>
  /\ UNCHANGED <<snapshot, history, memory, had, row, ghosts, outdated>>

(* Mutant: a snapshot that cannot be opened is only reported. *)
SnapshotOpenReported ==
  /\ At("open")
  /\ \/ /\ snapshot' = Empty /\ outdated' = FALSE
        /\ Goto("write") /\ UNCHANGED budget
     \/ Fail /\ Goto("history") /\ UNCHANGED <<snapshot, outdated>>
  /\ UNCHANGED <<backup, history, memory, flush, ghosts>>

SnapshotOpen ==
  /\ At("open")
  /\ \/ /\ snapshot' = Empty /\ outdated' = FALSE
        /\ Goto("write") /\ UNCHANGED budget
     \/ Fail /\ Goto("idle") /\ UNCHANGED <<snapshot, outdated>>
  /\ UNCHANGED <<backup, history, memory, flush, ghosts>>

(* Mutant: a write that failed ends the snapshot like one that succeeded. *)
SnapshotWriteIgnored ==
  /\ At("write")
  /\ \/ /\ Len(snapshot.data) < Axes
        /\ snapshot' = More([data |-> last], snapshot)
        /\ UNCHANGED <<pc, budget>>
     \/ /\ Len(snapshot.data) = Axes
        /\ Goto(IF pending = <<>> THEN "rows" ELSE "history") /\ UNCHANGED <<snapshot, budget>>
     \/ /\ Fail
        /\ Goto("history")
        /\ UNCHANGED snapshot
  /\ UNCHANGED <<backup, history, memory, flush, ghosts, outdated>>

SnapshotWrite ==
  /\ At("write")
  /\ \/ /\ Len(snapshot.data) < Axes
        /\ snapshot' = More([data |-> last], snapshot)
        /\ UNCHANGED <<pc, budget>>
     \/ /\ Len(snapshot.data) = Axes
        /\ Goto(IF pending = <<>> THEN "rows" ELSE "history") /\ UNCHANGED <<snapshot, budget>>
     \/ /\ Fail
        /\ Goto(IF had /\ backup.exists THEN "restore" ELSE "idle")
        /\ UNCHANGED snapshot
  /\ UNCHANGED <<backup, history, memory, flush, ghosts, outdated>>

RestoreOpen ==
  /\ At("restore")
  /\ \/ /\ snapshot' = Empty /\ outdated' = stale
        /\ Goto("restore copy") /\ UNCHANGED budget
     \/ Fail /\ Goto("idle") /\ UNCHANGED <<snapshot, outdated>>
  /\ UNCHANGED <<backup, history, memory, flush, ghosts>>

RestoreCopy ==
  /\ At("restore copy")
  /\ \/ /\ Len(snapshot.data) < Len(backup.data)
        /\ snapshot' = More(backup, snapshot)
        /\ UNCHANGED <<pc, budget>>
     \/ /\ Len(snapshot.data) = Len(backup.data)
        /\ Goto("idle") /\ UNCHANGED <<snapshot, budget>>
     \/ Fail /\ Goto("idle") /\ UNCHANGED snapshot
  /\ UNCHANGED <<backup, history, memory, flush, ghosts, outdated>>

(* The history is opened at its end, and begun with a header if there was  *)
(* none.  A write that fails may leave a fragment, to which the next one   *)
(* is joined in the same line.                                             *)
Open(lines) == lines # <<>> /\ lines[Len(lines)].text = "fragment"

Write(lines, text, seq) ==
  IF Open(lines)
  THEN [lines EXCEPT ![Len(lines)] =
         [text |-> IF text = "fragment" THEN text ELSE "joined", seq |-> seq]]
  ELSE Append(lines, [text |-> text, seq |-> seq])

HistoryOpen ==
  /\ At("history")
  /\ \/ /\ history' = [history EXCEPT !.exists = TRUE]
        /\ Goto(IF history.exists THEN "rows" ELSE "header") /\ UNCHANGED budget
     \/ /\ Fail /\ Goto("idle")
        /\ history' \in {history, [history EXCEPT !.exists = TRUE]}
  /\ UNCHANGED <<snapshot, backup, memory, flush, ghosts, outdated>>

WriteFails ==
  /\ Fail /\ Goto("idle")
  /\ \/ UNCHANGED history
     \/ history' = [history EXCEPT !.lines = Write(@, "fragment", 0)]

HistoryHeader ==
  /\ At("header")
  /\ \/ /\ history' = [history EXCEPT !.lines = Write(@, "header", 0)]
        /\ Goto("rows") /\ UNCHANGED budget
     \/ WriteFails
  /\ UNCHANGED <<snapshot, backup, memory, flush, ghosts, outdated>>

(* Mutant: a row that cannot be written is skipped. *)
HistoryRowSkipped ==
  /\ At("rows") /\ row <= Len(pending)
  /\ \/ /\ history' = [history EXCEPT !.lines = Write(@, "row", pending[row])]
        /\ UNCHANGED budget
     \/ Fail /\ UNCHANGED history
  /\ row' = row + 1
  /\ UNCHANGED <<pc, snapshot, backup, memory, had, stale, ghosts, outdated>>

HistoryRow ==
  /\ At("rows") /\ row <= Len(pending)
  /\ \/ /\ history' = [history EXCEPT !.lines = Write(@, "row", pending[row])]
        /\ row' = row + 1 /\ UNCHANGED <<pc, budget>>
     \/ WriteFails /\ UNCHANGED row
  /\ UNCHANGED <<snapshot, backup, memory, had, stale, ghosts, outdated>>

FlushEnd ==
  /\ At("rows") /\ row > Len(pending)
  /\ dirty' = FALSE /\ pending' = <<>>
  /\ Goto("idle")
  /\ UNCHANGED <<disk, last, next, flush, budget, ghosts, outdated>>

Flush ==
  \/ FlushPending \/ BackupOpen \/ BackupCopy \/ SnapshotOpen \/ SnapshotWrite
  \/ RestoreOpen \/ RestoreCopy \/ HistoryOpen \/ HistoryHeader \/ HistoryRow \/ FlushEnd

-----------------------------------------------------------------------------
(* The Core ends, by a fault or after its last flush, and starts again.    *)
(* Initialize reads the snapshot file, never the backup.                   *)
Crash ==
  /\ ~At("down") /\ Spend("crashes")
  /\ Goto("down")
  /\ UNCHANGED <<disk, memory, flush, ghosts, outdated>>

Initialize ==
  /\ At("down")
  /\ \E read \in BOOLEAN :
       /\ IF read THEN UNCHANGED budget ELSE Fail
       /\ last' = IF read THEN Parse(snapshot) ELSE None
       /\ next' = IF read THEN NextAfter(Parse(snapshot)) ELSE 1
       /\ sound' = (sound /\ read /\ (Whole(snapshot) \/ ~snapshot.exists) /\ ~outdated)
  /\ pending' = <<>> /\ dirty' = FALSE /\ session' = {}
  /\ had' = FALSE /\ row' = 1 /\ stale' = TRUE
  /\ Goto("idle")
  /\ UNCHANGED <<disk, outdated>>

Next ==
  \/ \E a \in 1 .. Axes : QueueSuccessfulHome(a)
  \/ Flush \/ Crash \/ Initialize

Spec == Init /\ [][Next]_vars

-----------------------------------------------------------------------------
Files == [exists : BOOLEAN, data : UNION {[1 .. n -> 0 .. MaxHomes] : n \in 0 .. Axes}]

TypeOK ==
  /\ snapshot \in Files /\ backup \in Files
  /\ \A i \in 1 .. Len(history.lines) :
       history.lines[i].text \in {"header", "row", "fragment", "joined"}
       /\ history.lines[i].seq \in 0 .. MaxHomes
  /\ last \in [1 .. Axes -> 0 .. MaxHomes] /\ pending \in Seq(1 .. MaxHomes)
  /\ dirty \in BOOLEAN /\ next \in 1 .. MaxHomes + 1
  /\ pc \in {"idle", "backup", "backup copy", "open", "write", "restore", "restore copy",
             "history", "header", "rows", "down"}
  /\ had \in BOOLEAN /\ row \in 1 .. MaxHomes + 1 /\ stale \in BOOLEAN
  /\ session \subseteq 1 .. MaxHomes /\ sound \in BOOLEAN /\ outdated \in BOOLEAN

(* A flush that was not refused, or retried until it was not, has saved    *)
(* what is in memory, whatever failed on the way.                          *)
FlushedIsOnDisk ==
  At("idle") /\ ~dirty /\ session # {} => Whole(snapshot) /\ snapshot.data = last

(* No successful HOME is missing in the history once nothing is pending.   *)
HistoryIsComplete ==
  At("idle") /\ pending = <<>> =>
    session \subseteq {history.lines[i].seq : i \in 1 .. Len(history.lines)}

(* The number of a new HOME is in no line of the history: the snapshot,    *)
(* from which the numbers go on, is written first.  That fails only after  *)
(* a restart that met a damaged, outdated or unreadable snapshot.          *)
SequenceIsFresh ==
  sound /\ ~At("down") => \A i \in 1 .. Len(history.lines) : history.lines[i].seq < next

(* "Snapshot: temp + replace": when the Core ends during a flush, the file *)
(* that was there has become the new one or is still the old one.          *)
SnapshotIsOldOrNew == At("down") /\ had => Whole(snapshot)
=============================================================================
