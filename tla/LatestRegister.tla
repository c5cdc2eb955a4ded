---------------------------- MODULE LatestRegister ----------------------------
(***************************************************************************)
(* What EDM53::Channel promises: a register that holds the latest          *)
(* publication of one writer.  A read gives, in one instant, the whole     *)
(* value of the publication that is the latest in that instant; or it says *)
(* that it could not tell, and gives nothing.                              *)
(***************************************************************************)
EXTENDS Naturals

CONSTANTS
  Reader,  (* the threads that read                                        *)
  Word,    (* the words of a value                                         *)
  Last     (* the last publication; the next one closes the register       *)

VARIABLES
  latest,  (* 0: nothing published, Last + 1: closed                       *)
  answer   (* the answer of each reader's last read                        *)

vars == <<latest, answer>>

Nothing == [w \in Word |-> 0]
Ready(p) == [status |-> "Ready", stamp |-> p, value |-> [w \in Word |-> p]]
Status(s) == [status |-> s, stamp |-> 0, value |-> Nothing]

Init == latest = 0 /\ answer = [r \in Reader |-> Status("Empty")]

Publish == latest < Last /\ latest' = latest + 1 /\ UNCHANGED answer

Close == latest = Last /\ latest' = Last + 1 /\ UNCHANGED answer

Now == IF latest = 0 THEN Status("Empty")
       ELSE IF latest > Last THEN Status("Closed") ELSE Ready(latest)

Read(r) ==
  /\ \E a \in {Now, Status("Busy")} : answer' = [answer EXCEPT ![r] = a]
  /\ UNCHANGED latest

Next == Publish \/ Close \/ \E r \in Reader : Read(r)

Spec == Init /\ [][Next]_vars
=============================================================================
