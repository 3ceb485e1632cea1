------------------------------- MODULE Outbox -------------------------------
(***************************************************************************)
(* What the station promises of its records for the Cloud (staff edits,    *)
(* customers, invoices, closures, cash sessions), whatever the network and *)
(* the restarts do: nothing reaches the Cloud that the station has not     *)
(* accepted, and nothing is marked as synchronised that the Cloud has not  *)
(* received.  Records may arrive in any order and more than once.          *)
(***************************************************************************)
EXTENDS Naturals

CONSTANT Records

VARIABLES
  accepted,   \* records the station has taken charge of
  received,   \* records the Cloud has applied at least once
  confirmed   \* records the station marks as synchronised

outboxVars == <<accepted, received, confirmed>>

Init ==
  /\ accepted = {}
  /\ received = {}
  /\ confirmed = {}

Accept(e) ==
  /\ e \in Records \ accepted
  /\ accepted' = accepted \cup {e}
  /\ UNCHANGED <<received, confirmed>>

Receive(e) ==
  /\ e \in accepted
  /\ received' = received \cup {e}
  /\ UNCHANGED <<accepted, confirmed>>

Confirm(e) ==
  /\ e \in received
  /\ confirmed' = confirmed \cup {e}
  /\ UNCHANGED <<accepted, received>>

Next == \E e \in Records : Accept(e) \/ Receive(e) \/ Confirm(e)

Spec == Init /\ [][Next]_outboxVars
=============================================================================
