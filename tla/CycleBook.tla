----------------------------- MODULE CycleBook ------------------------------
(***************************************************************************)
(* What the upload of files promises, without transactions and locks: the  *)
(* file of a department changes at once, and a cycle is complete as soon   *)
(* as it has a file of every department.  Complete and expired cycles are  *)
(* closed.                                                                 *)
(***************************************************************************)
EXTENDS Integers

CONSTANTS Date, Dept, File

VARIABLES
  status,   \* of each cycle
  slot      \* the file of each department of each cycle: none or one

vars == <<status, slot>>

Status == {"absent", "collecting", "completed", "expired"}

TypeOK ==
  /\ status \in [Date -> Status]
  /\ slot \in [Date -> [Dept -> SUBSET File]]

Init ==
  /\ status = [d \in Date |-> "absent"]
  /\ slot = [d \in Date |-> [p \in Dept |-> {}]]

\* A file is added, replaced, withdrawn or restored.
Change(d, p, S) ==
  /\ status[d] \in {"absent", "collecting"}
  /\ \A f, g \in S : f = g
  /\ slot' = [slot EXCEPT ![d] = [slot[d] EXCEPT ![p] = S]]
  /\ status' = [status EXCEPT ![d] =
       IF S # {} /\ \A q \in Dept \ {p} : slot[d][q] # {} THEN "completed" ELSE "collecting"]

Expire(d) ==
  /\ status[d] = "collecting"
  /\ \E p \in Dept : slot[d][p] = {}
  /\ status' = [status EXCEPT ![d] = "expired"]
  /\ UNCHANGED slot

Next ==
  \E d \in Date : \/ Expire(d)
                  \/ \E p \in Dept : \E S \in SUBSET File : Change(d, p, S)

Spec == Init /\ [][Next]_vars
=============================================================================
