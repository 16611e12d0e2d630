------------------------------- MODULE Barrier ------------------------------
(***************************************************************************)
(* core.sync.barrier.Barrier.  wait() runs inside synchronized(m_lock) and *)
(* gives the lock up only in m_cond.wait().  A thread that was let through *)
(* may run on and call wait() again before the others of its group have    *)
(* even been woken, which is why the code numbers the groups; the number   *)
(* is a uint and wraps.                                                    *)
(***************************************************************************)
EXTENDS Naturals, FiniteSets

CONSTANTS Threads,     \* the threads that call wait()
          m_limit,     \* the size of a group
          GroupNumbers \* how many group numbers there are: 2^32 for a uint

ASSUME ThreadsFinite == IsFiniteSet(Threads)
ASSUME LimitPositive == m_limit \in Nat \ {0}
ASSUME NumbersWrap == GroupNumbers \in Nat /\ GroupNumbers >= 2

VARIABLES pc,       \* "outside", or in m_cond.wait(): "asleep" or "awake"
          group,    \* the local variable of each call
          m_group,
          m_count

vars == <<pc, group, m_group, m_count>>

Inside == {t \in Threads : pc[t] # "outside"}

\* The threads whose call waits for the current group, and those whose group
\* is complete.
Gathering == {t \in Inside : group[t] = m_group}
Released  == {t \in Inside : group[t] # m_group}

Init == /\ pc = [t \in Threads |-> "outside"]
        /\ group = [t \in Threads |-> 0]
        /\ m_group = 0
        /\ m_count = m_limit

-----------------------------------------------------------------------------
\* m_group + 1, as a uint.
NextGroup == IF m_group = GroupNumbers - 1 THEN 0 ELSE m_group + 1

\* wait() of a thread that does not complete the group.
Arrive(t) ==
  /\ pc[t] = "outside"
  /\ m_count - 1 # 0
  /\ m_count' = m_count - 1
  /\ group' = [group EXCEPT ![t] = m_group]
  /\ pc' = [pc EXCEPT ![t] = "asleep"]
  /\ UNCHANGED m_group

\* Wrong: the thread that completes a group counts itself for the next one.
CountsItself(t) ==
  /\ pc[t] = "outside"
  /\ m_count - 1 = 0
  /\ m_group' = NextGroup
  /\ m_count' = m_limit - 1
  /\ pc' = [u \in Threads |-> IF pc[u] = "asleep" THEN "awake" ELSE pc[u]]
  /\ UNCHANGED group

\* wait() of a thread that completes the group: it wakes the others and
\* returns without having waited.
Complete(t) ==
  /\ pc[t] = "outside"
  /\ m_count - 1 = 0
  /\ m_group' = NextGroup
  /\ m_count' = m_limit
  /\ pc' = [u \in Threads |-> IF pc[u] = "asleep" THEN "awake" ELSE pc[u]]
  /\ UNCHANGED group

\* Wrong: m_cond.wait() is not in a loop; the loop tests m_count instead.
LeavesOnAnyWakeup(t) ==
  /\ pc[t] = "awake"
  /\ pc' = [pc EXCEPT ![t] = "outside"]
  /\ UNCHANGED <<group, m_group, m_count>>

LeavesIfNoneGathers(t) ==
  /\ pc[t] = "awake"
  /\ m_count = m_limit
  /\ pc' = [pc EXCEPT ![t] = "outside"]
  /\ UNCHANGED <<group, m_group, m_count>>

\* m_cond.wait() is over: the loop ends ...
Leave(t) ==
  /\ pc[t] = "awake"
  /\ group[t] # m_group
  /\ pc' = [pc EXCEPT ![t] = "outside"]
  /\ UNCHANGED <<group, m_group, m_count>>

\* ... or goes round.
WaitAgain(t) ==
  /\ pc[t] = "awake"
  /\ group[t] = m_group
  /\ pc' = [pc EXCEPT ![t] = "asleep"]
  /\ UNCHANGED <<group, m_group, m_count>>

SpuriousWakeup(t) ==
  /\ pc[t] = "asleep"
  /\ pc' = [pc EXCEPT ![t] = "awake"]
  /\ UNCHANGED <<group, m_group, m_count>>

(***************************************************************************)
(* The one thing assumed of the scheduler: a thread that was let through   *)
(* gets m_lock back before as many further groups have passed as there are *)
(* group numbers (2^32).  With no more threads than m_limit this needs no  *)
(* assumption, because the next group cannot fill without that thread.     *)
(***************************************************************************)
NotLapped == \A u \in Released : group[u] # NextGroup

Next == \E t \in Threads : \/ Arrive(t)
                           \/ Complete(t) /\ NotLapped
                           \/ Leave(t) \/ WaitAgain(t) \/ SpuriousWakeup(t)

Spec == Init /\ [][Next]_vars

\* A woken thread gets m_lock some day; nobody has to call wait().
FairSpec == Spec /\ \A t \in Threads : WF_vars(Leave(t) \/ WaitAgain(t))

-----------------------------------------------------------------------------
(* Properties                                                              *)

TypeOK ==
  /\ pc \in [Threads -> {"outside", "asleep", "awake"}]
  /\ group \in [Threads -> 0 .. GroupNumbers - 1]
  /\ m_group \in 0 .. GroupNumbers - 1
  /\ m_count \in 1 .. m_limit

\* m_count is what the current group lacks, although threads of earlier
\* groups are still inside wait() while the next group gathers.
CountsTheGroup == m_limit - m_count = Cardinality(Gathering)

\* No thread whose group is complete is left sleeping.
ReleasedAwake == \A t \in Released : pc[t] = "awake"

\* Threads cross in groups of m_limit: the barrier implements GroupTravel.
Travel == INSTANCE GroupTravel WITH
            Limit <- m_limit, gathering <- Gathering, released <- Released
ImplementsTravel == Travel!Spec

\* A thread whose group is complete gets out, even if later groups form and
\* complete before it runs again.
ReleasedLeaves ==
  \A t \in Threads : (t \in Released) ~> (t \notin Released)

\* With exactly m_limit threads no scheduling assumption is needed: when one
\* of them can complete a group nobody is lapped, however few group numbers
\* there are.
NeverLapped ==
  Cardinality(Threads) = m_limit /\ m_count = 1 /\ Inside # Threads => NotLapped

=============================================================================
