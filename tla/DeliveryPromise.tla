-------------------------- MODULE DeliveryPromise --------------------------
(***************************************************************************)
(* What the delivery of a report promises to a chat, without claims,       *)
(* retries or clocks: the parts of a parcel (the summary messages, then    *)
(* the document) arrive in order, possibly more than once, and a parcel    *)
(* that is called delivered has arrived as a whole.                        *)
(***************************************************************************)
EXTENDS Integers

CONSTANTS
  Parcel,    \* deliveries
  LastPart   \* the number of the document, the last part of each parcel

VARIABLES
  outcome,   \* "none", "open", "delivered" or "abandoned"
  seen       \* the parts of each parcel the chat has received at least once

vars == <<outcome, seen>>

Outcome == {"none", "open", "delivered", "abandoned"}

TypeOK ==
  /\ outcome \in [Parcel -> Outcome]
  /\ seen \in [Parcel -> SUBSET (1..LastPart)]

Init ==
  /\ outcome = [d \in Parcel |-> "none"]
  /\ seen = [d \in Parcel |-> {}]

Move(S, from, to) ==
  /\ \A d \in S : outcome[d] = from
  /\ outcome' = [d \in Parcel |-> IF d \in S THEN to ELSE outcome[d]]
  /\ UNCHANGED seen

\* Parcels are created, and given up, one by one or several in a transaction.
Open(S) == Move(S, "none", "open")
Abandon(S) == Move(S, "open", "abandoned")

\* A part reaches the chat once every part before it has.
Arrive(d, p) ==
  /\ outcome[d] # "none"
  /\ 1..(p - 1) \subseteq seen[d]
  /\ seen' = [seen EXCEPT ![d] = @ \cup {p}]
  /\ UNCHANGED outcome

Settle(d) ==
  /\ seen[d] = 1..LastPart
  /\ Move({d}, "open", "delivered")

Next ==
  \/ \E S \in SUBSET Parcel : Open(S) \/ Abandon(S)
  \/ \E d \in Parcel : Settle(d)
  \/ \E d \in Parcel, p \in 1..LastPart : Arrive(d, p)

Spec == Init /\ [][Next]_vars
=============================================================================
