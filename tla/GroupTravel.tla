----------------------------- MODULE GroupTravel ----------------------------
(***************************************************************************)
(* What a Barrier promises: threads travel across it in groups of exactly  *)
(* Limit.  A thread either waits for its group to fill up or belongs to a  *)
(* full group and may leave; the last one to arrive does not stop at all.  *)
(***************************************************************************)
EXTENDS Naturals, FiniteSets

CONSTANTS Threads, Limit

VARIABLES gathering,  \* the threads of the group that is not full yet
          released    \* the threads of full groups that have not left yet

vars == <<gathering, released>>

Init == gathering = {} /\ released = {}

Arrive(t) ==
  /\ t \notin gathering \cup released
  /\ Cardinality(gathering) + 1 < Limit
  /\ gathering' = gathering \cup {t}
  /\ UNCHANGED released

Complete(t) ==
  /\ t \notin gathering \cup released
  /\ Cardinality(gathering) + 1 = Limit
  /\ gathering' = {}
  /\ released' = released \cup gathering

Leave(t) ==
  /\ t \in released
  /\ released' = released \ {t}
  /\ UNCHANGED gathering

Next == \E t \in Threads : Arrive(t) \/ Complete(t) \/ Leave(t)

Spec == Init /\ [][Next]_vars

=============================================================================
