----------------------------- MODULE SyncProofs ------------------------------
(***************************************************************************)
(* The barrier and the condition variable of Windows.  For any finite set  *)
(* of threads, any limit and any number of group numbers from two up: the  *)
(* count of the barrier is right, nobody is left asleep, and threads cross *)
(* in full groups only.  For any finite set of callers: the gate, the      *)
(* permits and the counters of the condition match.                        *)
(***************************************************************************)
EXTENDS Barrier, WinCondition, FiniteSetTheorems, TLAPS

(***************************************************************************)
(* The barrier                                                             *)
(***************************************************************************)

IInv == TypeOK /\ CountsTheGroup /\ ReleasedAwake

LEMMA Finite ==
  /\ IsFiniteSet(Gathering)
  /\ Cardinality(Gathering) \in Nat
<1>1. IsFiniteSet(Gathering)
  BY ThreadsFinite, FS_Subset DEF Gathering, Inside
<1> QED BY <1>1, FS_CardinalityType

LEMMA InitInv == Init => IInv
<1> SUFFICES ASSUME Init PROVE IInv
  OBVIOUS
<1>1. Inside = {}
  BY DEF Init, Inside
<1>2. Gathering = {} /\ Released = {}
  BY <1>1 DEF Gathering, Released
<1>3. TypeOK
  BY LimitPositive, NumbersWrap DEF Init, TypeOK
<1>4. CountsTheGroup
  BY <1>2, FS_EmptySet, LimitPositive DEF Init, CountsTheGroup
<1>5. ReleasedAwake
  BY <1>2 DEF ReleasedAwake
<1> QED BY <1>3, <1>4, <1>5 DEF IInv

-----------------------------------------------------------------------------
(* What each action does to the two sets of threads                        *)

LEMMA ArriveSets ==
  ASSUME IInv, NEW t \in Threads, Arrive(t)
  PROVE  /\ t \notin Gathering \cup Released
         /\ Gathering' = Gathering \cup {t}
         /\ Released' = Released
<1> USE DEF IInv, TypeOK, Arrive
<1>1. Inside' = Inside \cup {t} /\ t \notin Inside
  BY DEF Inside
<1> QED BY <1>1 DEF Gathering, Released, Inside

LEMMA NextGroupDiffers ==
  ASSUME IInv
  PROVE  NextGroup \in 0 .. GroupNumbers - 1 /\ NextGroup # m_group
BY NumbersWrap DEF IInv, TypeOK, NextGroup

LEMMA CompleteSets ==
  ASSUME IInv, NEW t \in Threads, Complete(t), NotLapped
  PROVE  /\ t \notin Gathering \cup Released
         /\ Gathering' = {}
         /\ Released' = Released \cup Gathering
<1>1. Inside' = Inside /\ t \notin Inside
  BY DEF Complete, Inside, IInv, TypeOK
<1>2. m_group' = NextGroup /\ group' = group
  BY DEF Complete
<1>3. \A u \in Inside : group[u] # NextGroup
  BY NextGroupDiffers DEF NotLapped, Released
<1> QED BY <1>1, <1>2, <1>3 DEF Gathering, Released

LEMMA LeaveSets ==
  ASSUME IInv, NEW t \in Threads, Leave(t)
  PROVE  /\ t \in Released
         /\ Gathering' = Gathering
         /\ Released' = Released \ {t}
BY DEF IInv, TypeOK, Leave, Gathering, Released, Inside

LEMMA WakeSets ==
  ASSUME IInv, NEW t \in Threads, WaitAgain(t) \/ SpuriousWakeup(t)
  PROVE  Gathering' = Gathering /\ Released' = Released
BY DEF IInv, TypeOK, WaitAgain, SpuriousWakeup, Gathering, Released, Inside

-----------------------------------------------------------------------------
LEMMA InvStep ==
  ASSUME IInv, [Next]_vars
  PROVE  IInv'
<1>1. CASE UNCHANGED vars
  BY <1>1 DEF vars, IInv, TypeOK, CountsTheGroup, ReleasedAwake,
              Gathering, Released, Inside
<1>2. ASSUME NEW t \in Threads, Arrive(t)
      PROVE  IInv'
  <2>1. Gathering' = Gathering \cup {t} /\ Released' = Released /\ t \notin Gathering
    BY <1>2, ArriveSets
  <2>2. TypeOK'
    BY <1>2, LimitPositive DEF IInv, TypeOK, Arrive
  <2>3. CountsTheGroup'
    <3>1. Cardinality(Gathering \cup {t}) = Cardinality(Gathering) + 1
      BY <2>1, Finite, FS_AddElement
    <3> QED BY <1>2, <2>1, <3>1, Finite, LimitPositive
            DEF IInv, TypeOK, CountsTheGroup, Arrive
  <2>4. ReleasedAwake'
    BY <1>2, <2>1, ArriveSets DEF IInv, TypeOK, ReleasedAwake, Arrive, Released, Inside
  <2> QED BY <2>2, <2>3, <2>4 DEF IInv
<1>3. ASSUME NEW t \in Threads, Complete(t), NotLapped
      PROVE  IInv'
  <2>1. Gathering' = {} /\ Released' = Released \cup Gathering
    BY <1>3, CompleteSets
  <2>2. TypeOK'
    BY <1>3, NextGroupDiffers, LimitPositive DEF IInv, TypeOK, Complete
  <2>3. CountsTheGroup'
    BY <1>3, <2>1, FS_EmptySet, LimitPositive DEF CountsTheGroup, Complete
  <2>4. ReleasedAwake'
    BY <1>3, <2>1 DEF IInv, TypeOK, ReleasedAwake, Complete, Gathering, Released, Inside
  <2> QED BY <2>2, <2>3, <2>4 DEF IInv
<1>4. ASSUME NEW t \in Threads, Leave(t)
      PROVE  IInv'
  <2>1. Gathering' = Gathering /\ Released' = Released \ {t}
    BY <1>4, LeaveSets
  <2>2. TypeOK' /\ m_count' = m_count
    BY <1>4 DEF IInv, TypeOK, Leave
  <2>3. CountsTheGroup' /\ ReleasedAwake'
    BY <1>4, <2>1, <2>2 DEF IInv, TypeOK, CountsTheGroup, ReleasedAwake, Leave, Released, Inside
  <2> QED BY <2>2, <2>3 DEF IInv
<1>5. ASSUME NEW t \in Threads, WaitAgain(t) \/ SpuriousWakeup(t)
      PROVE  IInv'
  <2>1. Gathering' = Gathering /\ Released' = Released
    BY <1>5, WakeSets
  <2>2. TypeOK' /\ m_count' = m_count
    BY <1>5 DEF IInv, TypeOK, WaitAgain, SpuriousWakeup
  <2>3. CountsTheGroup'
    BY <2>1, <2>2 DEF IInv, CountsTheGroup
  <2>4. ReleasedAwake'
    BY <1>5, <2>1 DEF IInv, TypeOK, ReleasedAwake, WaitAgain, SpuriousWakeup, Released, Inside
  <2> QED BY <2>2, <2>3, <2>4 DEF IInv
<1> QED BY <1>1, <1>2, <1>3, <1>4, <1>5 DEF Next

LEMMA InvHolds == Spec => []IInv
BY InitInv, InvStep, PTL DEF Spec

\* The number of places left in the current group is always right, while
\* threads of earlier groups are still on their way out.
THEOREM CountCorrect == Spec => []CountsTheGroup
<1>1. IInv => CountsTheGroup
  BY DEF IInv
<1> QED BY <1>1, InvHolds, PTL

\* Completing a group wakes every thread of it, and none goes back to sleep.
THEOREM NobodyLeftAsleep == Spec => []ReleasedAwake
<1>1. IInv => ReleasedAwake
  BY DEF IInv
<1> QED BY <1>1, InvHolds, PTL

-----------------------------------------------------------------------------
\* GroupTravel counts as this module does.
LEMMA SameCardinality == \A S : Travel!Cardinality(S) = Cardinality(S)
BY DEF Travel!Cardinality, Cardinality, Travel!IsFiniteSet, IsFiniteSet

LEMMA StepRefines ==
  ASSUME IInv, [Next]_vars
  PROVE  [Travel!Next]_(Travel!vars)
<1>1. CASE UNCHANGED vars
  BY <1>1 DEF vars, Travel!vars, Gathering, Released, Inside
<1>2. ASSUME NEW t \in Threads, Arrive(t)
      PROVE  Travel!Arrive(t)
  <2>1. Cardinality(Gathering) + 1 < m_limit
    <3>1. m_count \in 1 .. m_limit /\ m_count - 1 # 0
      BY <1>2 DEF IInv, TypeOK, Arrive
    <3>2. m_limit - m_count = Cardinality(Gathering)
      BY DEF IInv, CountsTheGroup
    <3> QED BY <3>1, <3>2, LimitPositive
  <2> QED BY <1>2, <2>1, ArriveSets, SameCardinality DEF Travel!Arrive
<1>3. ASSUME NEW t \in Threads, Complete(t), NotLapped
      PROVE  Travel!Complete(t)
  <2>1. Cardinality(Gathering) + 1 = m_limit
    <3>1. m_count \in 1 .. m_limit /\ m_count - 1 = 0
      BY <1>3 DEF IInv, TypeOK, Complete
    <3>2. m_limit - m_count = Cardinality(Gathering)
      BY DEF IInv, CountsTheGroup
    <3> QED BY <3>1, <3>2, LimitPositive
  <2> QED BY <1>3, <2>1, CompleteSets, SameCardinality DEF Travel!Complete
<1>4. ASSUME NEW t \in Threads, Leave(t)
      PROVE  Travel!Leave(t)
  BY <1>4, LeaveSets DEF Travel!Leave
<1>5. ASSUME NEW t \in Threads, WaitAgain(t) \/ SpuriousWakeup(t)
      PROVE  UNCHANGED Travel!vars
  BY <1>5, WakeSets DEF Travel!vars
<1> QED BY <1>1, <1>2, <1>3, <1>4, <1>5 DEF Next, Travel!Next

\* Threads cross the barrier in groups of exactly m_limit.
THEOREM BarrierImplementsTravel == Spec => ImplementsTravel
<1>1. Init => Travel!Init
  BY DEF Init, Travel!Init, Gathering, Released, Inside
<1>2. IInv /\ [Next]_vars => [Travel!Next]_(Travel!vars)
  BY StepRefines
<1> QED BY <1>1, <1>2, InvHolds, PTL DEF Spec, ImplementsTravel, Travel!Spec

\* As many threads as a group has places cannot be lapped, so for them the
\* barrier needs nothing of the scheduler.
THEOREM FullGroupNeverLapped == Spec => []NeverLapped
<1>1. IInv => NeverLapped
  <2> SUFFICES ASSUME IInv, Cardinality(Threads) = m_limit, m_count = 1,
                      Inside # Threads
               PROVE  NotLapped
    BY DEF NeverLapped
  <2>1. PICK t \in Threads : t \notin Inside
    BY DEF Inside
  <2>2. /\ IsFiniteSet(Threads \ {t})
        /\ Cardinality(Threads \ {t}) = m_limit - 1
    BY ThreadsFinite, FS_RemoveElement
  <2>3. Cardinality(Gathering) = m_limit - 1
    BY Finite, LimitPositive DEF IInv, CountsTheGroup
  <2>4. Gathering \in SUBSET (Threads \ {t})
    BY <2>1 DEF Gathering, Inside
  <2>5. Gathering = Threads \ {t}
    BY <2>2, <2>3, <2>4, FS_Subset
  <2>6. Released = {}
    BY <2>1, <2>5 DEF Gathering, Released, Inside
  <2> QED BY <2>6 DEF NotLapped
<1> QED BY <1>1, InvHolds, PTL

(***************************************************************************)
(* The condition variable of Windows                                       *)
(***************************************************************************)

\* The uses in which no timeout can race a notification for another thread.
NoTimeoutRace == use.timed = {} \/ \A s, t \in use.waiters : s = t

Holding == {"purge", "notify", "notifyAll"}
Waiting == {"blocked", "queue", "unblock"}
AtGate == {"blocked", "drain"}

Waiters == At(Waiting)
Signallers == At({"signal", "pass"})
Woken == {t \in At({"unblock"}) : t \notin timedOut}

GateTypes ==
  /\ use \in Uses
  /\ m_assocMutex \in Callers \cup {None} /\ m_unblockLock \in Callers \cup {None}
  /\ m_blockLock \in {0, 1}
  /\ m_blockQueue \in Nat /\ m_numWaitersGone \in Nat
  /\ m_numWaitersBlocked \in Nat /\ m_numWaitersToUnblock \in Nat
  /\ stage \in [Callers -> {"out", "gate", "blocked", "queue", "unblock", "purge",
                            "drain", "pass", "relock", "notify", "notifyAll", "signal"}]
  /\ timedOut \subseteq timed /\ timed \subseteq use.timed
  /\ surplus \in [Callers -> Nat]

\* Who blocks inside m_unblockLock holds it, and what it has read there stays true.
LockHeld ==
  /\ \A t \in Callers : m_unblockLock = t <=> stage[t] \in Holding
  /\ m_unblockLock # None => m_numWaitersToUnblock = 0
  /\ \A t \in Callers : stage[t] \in {"notify", "notifyAll"}
                          => m_numWaitersBlocked > m_numWaitersGone

\* The gate has one owner: the thread that passes it, those who are to be
\* unblocked together, or the last of these while it drains m_blockQueue.
GateKept ==
  /\ m_blockLock = 1 => m_numWaitersToUnblock = 0
  /\ m_blockLock = 0 => \/ m_numWaitersToUnblock > 0
                        \/ \E t \in Callers : stage[t] \in AtGate
  /\ \A t \in Callers : stage[t] \in AtGate => m_blockLock = 0 /\ m_numWaitersToUnblock = 0
  /\ \A t, u \in Callers : stage[t] \in AtGate /\ stage[u] \in AtGate => t = u

\* One permit is in flight while anybody is to be unblocked; then those that
\* the last one is to drain; then none.
SignalsKept ==
  /\ m_numWaitersToUnblock > 0 => Signals = 1 /\ m_numWaitersGone = 0
  /\ \A t \in Callers : stage[t] = "drain" => Signals = surplus[t]
  /\ m_numWaitersToUnblock = 0 /\ (\A t \in Callers : stage[t] # "drain") => Signals = 0

\* Only waiters wait, only those time out that may, and without timeouts
\* nobody is gone.
WaitersOnly ==
  /\ \A t \in Callers : stage[t] \in {"out", "notify", "notifyAll", "signal"}
                        \/ t \in use.waiters
  /\ \A t \in timedOut : stage[t] \in {"unblock", "purge", "drain", "pass", "relock"}
  /\ use.timed = {} => m_numWaitersGone = 0 /\ \A t \in Callers : surplus[t] = 0

Covered ==
  m_numWaitersBlocked + m_numWaitersToUnblock = m_numWaitersGone + Cardinality(Waiters)

WinInv == /\ NoTimeoutRace
          /\ GateTypes /\ LockHeld /\ GateKept /\ SignalsKept /\ WaitersOnly /\ Covered

SetsOfCallers ==
  /\ \A S \in SUBSET Callers : IsFiniteSet(S) /\ Cardinality(S) \in Nat
  /\ Waiters \subseteq Callers /\ Signallers \subseteq Callers /\ Woken \subseteq Callers
  /\ Cardinality(Waiters) \in Nat /\ Cardinality(Signallers) \in Nat /\ Cardinality(Woken) \in Nat
  /\ Signals = m_blockQueue + Cardinality(Signallers) + Cardinality(Woken)

LEMMA CallerFacts == SetsOfCallers
<1>1. \A S \in SUBSET Callers : IsFiniteSet(S) /\ Cardinality(S) \in Nat
  BY CallersFinite, FS_Subset, FS_CardinalityType
<1>2. Waiters \subseteq Callers /\ Signallers \subseteq Callers /\ Woken \subseteq Callers
  BY DEF Waiters, Signallers, Woken, At
<1>3. Signals = m_blockQueue + Cardinality(Signallers) + Cardinality(Woken)
  BY DEF Signals, Signallers, Woken
<1> QED BY <1>1, <1>2, <1>3 DEF SetsOfCallers

LEMMA CallerFactsAfter == SetsOfCallers'
BY CallerFacts, PTL

\* How a set's size changes when one element may come or go.
LEMMA OneChanges ==
  ASSUME NEW X \in SUBSET Callers, NEW Y \in SUBSET Callers, NEW t \in Callers,
         X \ {t} = Y \ {t}
  PROVE  Cardinality(Y) + (IF t \in X THEN 1 ELSE 0) = Cardinality(X) + (IF t \in Y THEN 1 ELSE 0)
<1> DEFINE Z == X \ {t}
<1>1. IsFiniteSet(X) /\ IsFiniteSet(Y) /\ IsFiniteSet(Z) /\ Cardinality(Z) \in Nat
      /\ Cardinality(X) \in Nat /\ Cardinality(Y) \in Nat
  BY CallerFacts DEF SetsOfCallers
<1>2. ASSUME NEW W \in SUBSET Callers, W \ {t} = Z
      PROVE  Cardinality(W) = Cardinality(Z) + (IF t \in W THEN 1 ELSE 0)
  <2>1. CASE t \in W
    <3>1. W = Z \cup {t} /\ t \notin Z
      BY <1>2, <2>1
    <3>2. Cardinality(Z \cup {t}) = Cardinality(Z) + 1
      BY <1>1, <3>1, FS_AddElement
    <3> QED BY <2>1, <3>1, <3>2
  <2>2. CASE t \notin W
    <3>1. W = Z
      BY <1>2, <2>2
    <3> QED BY <1>1, <2>2, <3>1
  <2> QED BY <2>1, <2>2
<1>3. Cardinality(X) = Cardinality(Z) + (IF t \in X THEN 1 ELSE 0)
  BY <1>2
<1>4. Cardinality(Y) = Cardinality(Z) + (IF t \in Y THEN 1 ELSE 0)
  BY <1>2
<1> HIDE DEF Z
<1> QED BY <1>1, <1>3, <1>4

\* The counts when t goes from one place to another.
Counted(t, old, new) ==
  /\ Cardinality(Waiters') + (IF old \in Waiting THEN 1 ELSE 0)
       = Cardinality(Waiters) + (IF new \in Waiting THEN 1 ELSE 0)
  /\ Cardinality(Signallers') + (IF old \in {"signal", "pass"} THEN 1 ELSE 0)
       = Cardinality(Signallers) + (IF new \in {"signal", "pass"} THEN 1 ELSE 0)
  /\ Cardinality(Woken') + (IF old = "unblock" /\ t \notin timedOut THEN 1 ELSE 0)
       = Cardinality(Woken) + (IF new = "unblock" /\ t \notin timedOut' THEN 1 ELSE 0)
  /\ Cardinality(Waiters) \in Nat /\ Cardinality(Signallers) \in Nat /\ Cardinality(Woken) \in Nat
  /\ Cardinality(Waiters') \in Nat /\ Cardinality(Signallers') \in Nat /\ Cardinality(Woken') \in Nat
  /\ Signals = m_blockQueue + Cardinality(Signallers) + Cardinality(Woken)
  /\ Signals' = m_blockQueue' + Cardinality(Signallers') + Cardinality(Woken')

LEMMA Counts ==
  ASSUME GateTypes, NEW t \in Callers, NEW place, stage' = [stage EXCEPT ![t] = place],
         timedOut' \ {t} = timedOut \ {t}
  PROVE  Counted(t, stage[t], place)
<1>0. stage'[t] = place /\ \A u \in Callers \ {t} : stage'[u] = stage[u]
  BY DEF GateTypes
<1>1. \A u \in Callers \ {t} : u \in timedOut' <=> u \in timedOut
  OBVIOUS
<1>2. /\ Waiters' \in SUBSET Callers /\ Signallers' \in SUBSET Callers /\ Woken' \in SUBSET Callers
      /\ Waiters \in SUBSET Callers /\ Signallers \in SUBSET Callers /\ Woken \in SUBSET Callers
  BY CallerFacts, CallerFactsAfter DEF SetsOfCallers
<1>3. /\ Waiters \ {t} = Waiters' \ {t} /\ (t \in Waiters <=> stage[t] \in Waiting)
      /\ (t \in Waiters' <=> place \in Waiting)
  BY <1>0 DEF Waiters, At
<1>4. /\ Signallers \ {t} = Signallers' \ {t}
      /\ (t \in Signallers <=> stage[t] \in {"signal", "pass"})
      /\ (t \in Signallers' <=> place \in {"signal", "pass"})
  BY <1>0 DEF Signallers, At
<1>5. /\ Woken \ {t} = Woken' \ {t} /\ (t \in Woken <=> stage[t] = "unblock" /\ t \notin timedOut)
      /\ (t \in Woken' <=> place = "unblock" /\ t \notin timedOut')
  BY <1>0, <1>1 DEF Woken, At
<1> DEFINE W == Waiters'
           S == Signallers'
           K == Woken'
<1> HIDE DEF W, S, K
<1>6. Cardinality(W) + (IF t \in Waiters THEN 1 ELSE 0)
        = Cardinality(Waiters) + (IF t \in W THEN 1 ELSE 0)
  BY <1>2, <1>3, OneChanges DEF W
<1>7. Cardinality(S) + (IF t \in Signallers THEN 1 ELSE 0)
        = Cardinality(Signallers) + (IF t \in S THEN 1 ELSE 0)
  BY <1>2, <1>4, OneChanges DEF S
<1>8. Cardinality(K) + (IF t \in Woken THEN 1 ELSE 0)
        = Cardinality(Woken) + (IF t \in K THEN 1 ELSE 0)
  BY <1>2, <1>5, OneChanges DEF K
<1>9. /\ Cardinality(Waiters') \in Nat /\ Cardinality(Signallers') \in Nat
      /\ Cardinality(Woken') \in Nat
      /\ Signals' = m_blockQueue' + Cardinality(Signallers') + Cardinality(Woken')
  BY CallerFactsAfter DEF SetsOfCallers
<1>10. /\ Cardinality(W) + (IF stage[t] \in Waiting THEN 1 ELSE 0)
            = Cardinality(Waiters) + (IF place \in Waiting THEN 1 ELSE 0)
       /\ Cardinality(S) + (IF stage[t] \in {"signal", "pass"} THEN 1 ELSE 0)
            = Cardinality(Signallers) + (IF place \in {"signal", "pass"} THEN 1 ELSE 0)
       /\ Cardinality(K) + (IF stage[t] = "unblock" /\ t \notin timedOut THEN 1 ELSE 0)
            = Cardinality(Woken) + (IF place = "unblock" /\ t \notin timedOut' THEN 1 ELSE 0)
  <2>1. t \in W <=> place \in Waiting
    BY <1>3 DEF W
  <2>2. t \in S <=> place \in {"signal", "pass"}
    BY <1>4 DEF S
  <2>3. t \in K <=> place = "unblock" /\ t \notin timedOut'
    BY <1>5 DEF K
  <2> QED BY <1>3, <1>4, <1>5, <1>6, <1>7, <1>8, <2>1, <2>2, <2>3
<1> QED BY <1>9, <1>10, CallerFacts DEF W, S, K, SetsOfCallers, Counted

\* With a single waiter that may time out, a notification is for it alone.
LEMMA SingleWaiter ==
  ASSUME WinInv, use.timed # {}, m_numWaitersToUnblock > 0
  PROVE  m_numWaitersToUnblock = 1 /\ m_numWaitersBlocked = 0
<1>1. \A s, t \in use.waiters : s = t
  BY DEF WinInv, NoTimeoutRace
<1>2. \A t \in Waiters : t \in Callers /\ t \in use.waiters
  BY DEF WinInv, WaitersOnly, Waiters, Waiting, At
<1>3. Cardinality(Waiters) <= 1
  <2>1. CASE Waiters = {}
    BY <2>1, FS_EmptySet
  <2>2. CASE Waiters # {}
    <3>1. PICK t \in Waiters : Waiters = {t}
      BY <1>1, <1>2, <2>2
    <3>2. Cardinality({t}) = 1
      BY FS_Singleton
    <3> QED BY <3>1, <3>2
  <2> QED BY <2>1, <2>2
<1>4. /\ Cardinality(Waiters) \in Nat /\ m_numWaitersGone = 0
      /\ m_numWaitersBlocked \in Nat /\ m_numWaitersToUnblock \in Nat
      /\ m_numWaitersBlocked + m_numWaitersToUnblock = m_numWaitersGone + Cardinality(Waiters)
  BY CallerFacts DEF SetsOfCallers, WinInv, SignalsKept, GateTypes, Covered
<1> QED BY <1>3, <1>4

LEMMA BlockStep ==
  ASSUME WinInv, NEW t \in Callers, Block(t)
  PROVE  WinInv'
<1>0. GateTypes /\ LockHeld /\ GateKept /\ SignalsKept /\ WaitersOnly /\ Covered /\ NoTimeoutRace
  BY DEF WinInv
<1>1. /\ stage[t] = "gate" /\ stage' = [stage EXCEPT ![t] = "blocked"]
      /\ m_blockLock = 1 /\ m_blockLock' = 0
      /\ m_numWaitersBlocked' = m_numWaitersBlocked + 1
      /\ UNCHANGED <<m_assocMutex, m_blockQueue, m_unblockLock, m_numWaitersGone,
                     m_numWaitersToUnblock>>
      /\ UNCHANGED <<use, timed, timedOut, surplus>>
  BY DEF Block, Goto, TakeGate, FreeGate, counts, locks, locals
<1>2. /\ stage'[t] = "blocked" /\ \A u \in Callers \ {t} : stage'[u] = stage[u]
      /\ Counted(t, "gate", "blocked")
  BY <1>0, <1>1, Counts DEF GateTypes
<1>3. /\ Signals' = Signals /\ Signals \in Nat
      /\ Cardinality(Waiters') = Cardinality(Waiters) + 1 /\ Cardinality(Waiters) \in Nat
  BY <1>0, <1>1, <1>2 DEF GateTypes, WaitersOnly, Counted, Waiting
<1>4. stage'[t] = "blocked" /\ \A u \in Callers \ {t} : stage'[u] = stage[u]
  BY <1>2
<1>5. GateTypes'
  BY <1>0, <1>1 DEF GateTypes
<1>6. LockHeld'
  BY <1>0, <1>1, <1>4, NoneIsNoThread DEF GateTypes, LockHeld, Holding
<1>7. GateKept'
  BY <1>0, <1>1, <1>4 DEF GateTypes, GateKept, AtGate
<1>8. SignalsKept'
  BY <1>0, <1>1, <1>3, <1>4 DEF GateTypes, GateKept, SignalsKept, AtGate
<1>9. WaitersOnly'
  BY <1>0, <1>1, <1>4 DEF GateTypes, WaitersOnly
<1>10. Covered' /\ NoTimeoutRace'
  BY <1>0, <1>1, <1>3 DEF GateTypes, Covered, NoTimeoutRace
<1> QED BY <1>5, <1>6, <1>7, <1>8, <1>9, <1>10 DEF WinInv

LEMMA SleepStep ==
  ASSUME WinInv, NEW t \in Callers, Sleep(t)
  PROVE  WinInv'
<1>0. GateTypes /\ LockHeld /\ GateKept /\ SignalsKept /\ WaitersOnly /\ Covered /\ NoTimeoutRace
  BY DEF WinInv
<1>1. /\ stage[t] = "blocked" /\ stage' = [stage EXCEPT ![t] = "queue"]
      /\ m_blockLock' = 1 /\ m_assocMutex' = None
      /\ UNCHANGED <<m_blockQueue, m_unblockLock, m_numWaitersGone, m_numWaitersBlocked,
                     m_numWaitersToUnblock>>
      /\ UNCHANGED <<use, timed, timedOut, surplus>>
  BY DEF Sleep, Goto, TakeGate, FreeGate, counts, locks, locals
<1>2. /\ stage'[t] = "queue" /\ \A u \in Callers \ {t} : stage'[u] = stage[u]
      /\ Counted(t, "blocked", "queue")
  BY <1>0, <1>1, Counts DEF GateTypes
<1>3. /\ Signals' = Signals /\ Signals \in Nat
      /\ Cardinality(Waiters') = Cardinality(Waiters) /\ Cardinality(Waiters) \in Nat
  BY <1>0, <1>1, <1>2 DEF GateTypes, WaitersOnly, Counted, Waiting
<1>4. stage'[t] = "queue" /\ \A u \in Callers \ {t} : stage'[u] = stage[u]
  BY <1>2
<1>5. GateTypes'
  BY <1>0, <1>1 DEF GateTypes
<1>6. LockHeld'
  BY <1>0, <1>1, <1>4, NoneIsNoThread DEF GateTypes, LockHeld, Holding
<1>7. GateKept'
  BY <1>0, <1>1, <1>4 DEF GateTypes, GateKept, AtGate
<1>8. SignalsKept'
  BY <1>0, <1>1, <1>3, <1>4 DEF GateTypes, GateKept, SignalsKept, AtGate
<1>9. WaitersOnly'
  BY <1>0, <1>1, <1>4 DEF GateTypes, WaitersOnly
<1>10. Covered' /\ NoTimeoutRace'
  BY <1>0, <1>1, <1>3 DEF GateTypes, Covered, NoTimeoutRace
<1> QED BY <1>5, <1>6, <1>7, <1>8, <1>9, <1>10 DEF WinInv

LEMMA WakeStep ==
  ASSUME WinInv, NEW t \in Callers, Wake(t)
  PROVE  WinInv'
<1>0. GateTypes /\ LockHeld /\ GateKept /\ SignalsKept /\ WaitersOnly /\ Covered /\ NoTimeoutRace
  BY DEF WinInv
<1>1. /\ stage[t] = "queue" /\ stage' = [stage EXCEPT ![t] = "unblock"]
      /\ m_blockQueue > 0 /\ m_blockQueue' = m_blockQueue - 1
      /\ UNCHANGED <<m_assocMutex, m_blockLock, m_unblockLock, m_numWaitersGone,
                     m_numWaitersBlocked, m_numWaitersToUnblock>>
      /\ UNCHANGED <<use, timed, timedOut, surplus>>
  BY DEF Wake, Goto, TakeGate, FreeGate, counts, locks, locals
<1>2. /\ stage'[t] = "unblock" /\ \A u \in Callers \ {t} : stage'[u] = stage[u]
      /\ Counted(t, "queue", "unblock")
  BY <1>0, <1>1, Counts DEF GateTypes
<1>3. /\ Signals' = Signals /\ Signals \in Nat
      /\ Cardinality(Waiters') = Cardinality(Waiters) /\ Cardinality(Waiters) \in Nat
  BY <1>0, <1>1, <1>2 DEF GateTypes, WaitersOnly, Counted, Waiting
<1>4. stage'[t] = "unblock" /\ \A u \in Callers \ {t} : stage'[u] = stage[u]
  BY <1>2
<1>5. GateTypes'
  BY <1>0, <1>1 DEF GateTypes
<1>6. LockHeld'
  BY <1>0, <1>1, <1>4, NoneIsNoThread DEF GateTypes, LockHeld, Holding
<1>7. GateKept'
  BY <1>0, <1>1, <1>4 DEF GateTypes, GateKept, AtGate
<1>8. SignalsKept'
  BY <1>0, <1>1, <1>3, <1>4 DEF GateTypes, GateKept, SignalsKept, AtGate
<1>9. WaitersOnly'
  BY <1>0, <1>1, <1>4 DEF GateTypes, WaitersOnly
<1>10. Covered' /\ NoTimeoutRace'
  BY <1>0, <1>1, <1>3 DEF GateTypes, Covered, NoTimeoutRace
<1> QED BY <1>5, <1>6, <1>7, <1>8, <1>9, <1>10 DEF WinInv

LEMMA TimeOutStep ==
  ASSUME WinInv, NEW t \in Callers, TimeOut(t)
  PROVE  WinInv'
<1>0. GateTypes /\ LockHeld /\ GateKept /\ SignalsKept /\ WaitersOnly /\ Covered /\ NoTimeoutRace
  BY DEF WinInv
<1>1. /\ stage[t] = "queue" /\ stage' = [stage EXCEPT ![t] = "unblock"]
      /\ t \in timed /\ timedOut' = timedOut \cup {t}
      /\ UNCHANGED <<m_assocMutex, m_blockLock, m_blockQueue, m_unblockLock, m_numWaitersGone,
                     m_numWaitersBlocked, m_numWaitersToUnblock>>
      /\ UNCHANGED <<use, timed, surplus>>
  BY DEF TimeOut, Goto, TakeGate, FreeGate, counts, locks, locals
<1>2. /\ stage'[t] = "unblock" /\ \A u \in Callers \ {t} : stage'[u] = stage[u]
      /\ Counted(t, "queue", "unblock")
  BY <1>0, <1>1, Counts DEF GateTypes
<1>3. /\ Signals' = Signals /\ Signals \in Nat
      /\ Cardinality(Waiters') = Cardinality(Waiters) /\ Cardinality(Waiters) \in Nat
  BY <1>0, <1>1, <1>2 DEF GateTypes, WaitersOnly, Counted, Waiting
<1>4. stage'[t] = "unblock" /\ \A u \in Callers \ {t} : stage'[u] = stage[u]
  BY <1>2
<1>5. GateTypes'
  BY <1>0, <1>1 DEF GateTypes
<1>6. LockHeld'
  BY <1>0, <1>1, <1>4, NoneIsNoThread DEF GateTypes, LockHeld, Holding
<1>7. GateKept'
  BY <1>0, <1>1, <1>4 DEF GateTypes, GateKept, AtGate
<1>8. SignalsKept'
  BY <1>0, <1>1, <1>3, <1>4 DEF GateTypes, GateKept, SignalsKept, AtGate
<1>9. WaitersOnly'
  BY <1>0, <1>1, <1>4 DEF GateTypes, WaitersOnly
<1>10. Covered' /\ NoTimeoutRace'
  BY <1>0, <1>1, <1>3 DEF GateTypes, Covered, NoTimeoutRace
<1> QED BY <1>5, <1>6, <1>7, <1>8, <1>9, <1>10 DEF WinInv

LEMMA OpenGateStep ==
  ASSUME WinInv, NEW t \in Callers, OpenGate(t)
  PROVE  WinInv'
<1>0. GateTypes /\ LockHeld /\ GateKept /\ SignalsKept /\ WaitersOnly /\ Covered /\ NoTimeoutRace
  BY DEF WinInv
<1>1. /\ stage[t] = "drain" /\ stage' = [stage EXCEPT ![t] = "relock"]
      /\ surplus[t] = 0 /\ m_blockLock' = 1
      /\ UNCHANGED <<m_assocMutex, m_blockQueue, m_unblockLock, m_numWaitersGone,
                     m_numWaitersBlocked, m_numWaitersToUnblock>>
      /\ UNCHANGED <<use, timed, timedOut, surplus>>
  BY DEF OpenGate, Goto, TakeGate, FreeGate, counts, locks, locals
<1>2. /\ stage'[t] = "relock" /\ \A u \in Callers \ {t} : stage'[u] = stage[u]
      /\ Counted(t, "drain", "relock")
  BY <1>0, <1>1, Counts DEF GateTypes
<1>3. /\ Signals' = Signals /\ Signals \in Nat
      /\ Cardinality(Waiters') = Cardinality(Waiters) /\ Cardinality(Waiters) \in Nat
  BY <1>0, <1>1, <1>2 DEF GateTypes, WaitersOnly, Counted, Waiting
<1>4. stage'[t] = "relock" /\ \A u \in Callers \ {t} : stage'[u] = stage[u]
  BY <1>2
<1>5. GateTypes'
  BY <1>0, <1>1 DEF GateTypes
<1>6. LockHeld'
  BY <1>0, <1>1, <1>4, NoneIsNoThread DEF GateTypes, LockHeld, Holding
<1>7. GateKept'
  BY <1>0, <1>1, <1>4 DEF GateTypes, GateKept, AtGate
<1>8. SignalsKept'
  BY <1>0, <1>1, <1>3, <1>4 DEF GateTypes, GateKept, SignalsKept, AtGate
<1>9. WaitersOnly'
  BY <1>0, <1>1, <1>4 DEF GateTypes, WaitersOnly
<1>10. Covered' /\ NoTimeoutRace'
  BY <1>0, <1>1, <1>3 DEF GateTypes, Covered, NoTimeoutRace
<1> QED BY <1>5, <1>6, <1>7, <1>8, <1>9, <1>10 DEF WinInv

LEMMA PassOnStep ==
  ASSUME WinInv, NEW t \in Callers, PassOn(t)
  PROVE  WinInv'
<1>0. GateTypes /\ LockHeld /\ GateKept /\ SignalsKept /\ WaitersOnly /\ Covered /\ NoTimeoutRace
  BY DEF WinInv
<1>1. /\ stage[t] = "pass" /\ stage' = [stage EXCEPT ![t] = "relock"]
      /\ m_blockQueue' = m_blockQueue + 1
      /\ UNCHANGED <<m_assocMutex, m_blockLock, m_unblockLock, m_numWaitersGone,
                     m_numWaitersBlocked, m_numWaitersToUnblock>>
      /\ UNCHANGED <<use, timed, timedOut, surplus>>
  BY DEF PassOn, Goto, TakeGate, FreeGate, counts, locks, locals
<1>2. /\ stage'[t] = "relock" /\ \A u \in Callers \ {t} : stage'[u] = stage[u]
      /\ Counted(t, "pass", "relock")
  BY <1>0, <1>1, Counts DEF GateTypes
<1>3. /\ Signals' = Signals /\ Signals \in Nat
      /\ Cardinality(Waiters') = Cardinality(Waiters) /\ Cardinality(Waiters) \in Nat
  BY <1>0, <1>1, <1>2 DEF GateTypes, WaitersOnly, Counted, Waiting
<1>4. stage'[t] = "relock" /\ \A u \in Callers \ {t} : stage'[u] = stage[u]
  BY <1>2
<1>5. GateTypes'
  BY <1>0, <1>1 DEF GateTypes
<1>6. LockHeld'
  BY <1>0, <1>1, <1>4, NoneIsNoThread DEF GateTypes, LockHeld, Holding
<1>7. GateKept'
  BY <1>0, <1>1, <1>4 DEF GateTypes, GateKept, AtGate
<1>8. SignalsKept'
  BY <1>0, <1>1, <1>3, <1>4 DEF GateTypes, GateKept, SignalsKept, AtGate
<1>9. WaitersOnly'
  BY <1>0, <1>1, <1>4 DEF GateTypes, WaitersOnly
<1>10. Covered' /\ NoTimeoutRace'
  BY <1>0, <1>1, <1>3 DEF GateTypes, Covered, NoTimeoutRace
<1> QED BY <1>5, <1>6, <1>7, <1>8, <1>9, <1>10 DEF WinInv

LEMMA SignalStep ==
  ASSUME WinInv, NEW t \in Callers, Signal(t)
  PROVE  WinInv'
<1>0. GateTypes /\ LockHeld /\ GateKept /\ SignalsKept /\ WaitersOnly /\ Covered /\ NoTimeoutRace
  BY DEF WinInv
<1>1. /\ stage[t] = "signal" /\ stage' = [stage EXCEPT ![t] = "out"]
      /\ m_blockQueue' = m_blockQueue + 1
      /\ UNCHANGED <<m_assocMutex, m_blockLock, m_unblockLock, m_numWaitersGone,
                     m_numWaitersBlocked, m_numWaitersToUnblock>>
      /\ UNCHANGED <<use, timed, timedOut, surplus>>
  BY DEF Signal, Goto, TakeGate, FreeGate, counts, locks, locals
<1>2. /\ stage'[t] = "out" /\ \A u \in Callers \ {t} : stage'[u] = stage[u]
      /\ Counted(t, "signal", "out")
  BY <1>0, <1>1, Counts DEF GateTypes
<1>3. /\ Signals' = Signals /\ Signals \in Nat
      /\ Cardinality(Waiters') = Cardinality(Waiters) /\ Cardinality(Waiters) \in Nat
  BY <1>0, <1>1, <1>2 DEF GateTypes, WaitersOnly, Counted, Waiting
<1>4. stage'[t] = "out" /\ \A u \in Callers \ {t} : stage'[u] = stage[u]
  BY <1>2
<1>5. GateTypes'
  BY <1>0, <1>1 DEF GateTypes
<1>6. LockHeld'
  BY <1>0, <1>1, <1>4, NoneIsNoThread DEF GateTypes, LockHeld, Holding
<1>7. GateKept'
  BY <1>0, <1>1, <1>4 DEF GateTypes, GateKept, AtGate
<1>8. SignalsKept'
  BY <1>0, <1>1, <1>3, <1>4 DEF GateTypes, GateKept, SignalsKept, AtGate
<1>9. WaitersOnly'
  BY <1>0, <1>1, <1>4 DEF GateTypes, WaitersOnly
<1>10. Covered' /\ NoTimeoutRace'
  BY <1>0, <1>1, <1>3 DEF GateTypes, Covered, NoTimeoutRace
<1> QED BY <1>5, <1>6, <1>7, <1>8, <1>9, <1>10 DEF WinInv

LEMMA RelockStep ==
  ASSUME WinInv, NEW t \in Callers, Relock(t)
  PROVE  WinInv'
<1>0. GateTypes /\ LockHeld /\ GateKept /\ SignalsKept /\ WaitersOnly /\ Covered /\ NoTimeoutRace
  BY DEF WinInv
<1>1. /\ stage[t] = "relock" /\ stage' = [stage EXCEPT ![t] = "out"]
      /\ m_assocMutex' = t /\ timed' = timed \ {t} /\ timedOut' = timedOut \ {t}
      /\ UNCHANGED <<m_blockLock, m_blockQueue, m_unblockLock, m_numWaitersGone,
                     m_numWaitersBlocked, m_numWaitersToUnblock>>
      /\ UNCHANGED <<use, surplus>>
  BY DEF Relock, Goto, TakeGate, FreeGate, counts, locks, locals
<1>2. /\ stage'[t] = "out" /\ \A u \in Callers \ {t} : stage'[u] = stage[u]
      /\ Counted(t, "relock", "out")
  BY <1>0, <1>1, Counts DEF GateTypes
<1>3. /\ Signals' = Signals /\ Signals \in Nat
      /\ Cardinality(Waiters') = Cardinality(Waiters) /\ Cardinality(Waiters) \in Nat
  BY <1>0, <1>1, <1>2 DEF GateTypes, WaitersOnly, Counted, Waiting
<1>4. stage'[t] = "out" /\ \A u \in Callers \ {t} : stage'[u] = stage[u]
  BY <1>2
<1>5. GateTypes'
  BY <1>0, <1>1 DEF GateTypes
<1>6. LockHeld'
  BY <1>0, <1>1, <1>4, NoneIsNoThread DEF GateTypes, LockHeld, Holding
<1>7. GateKept'
  BY <1>0, <1>1, <1>4 DEF GateTypes, GateKept, AtGate
<1>8. SignalsKept'
  BY <1>0, <1>1, <1>3, <1>4 DEF GateTypes, GateKept, SignalsKept, AtGate
<1>9. WaitersOnly'
  BY <1>0, <1>1, <1>4 DEF GateTypes, WaitersOnly
<1>10. Covered' /\ NoTimeoutRace'
  BY <1>0, <1>1, <1>3 DEF GateTypes, Covered, NoTimeoutRace
<1> QED BY <1>5, <1>6, <1>7, <1>8, <1>9, <1>10 DEF WinInv

LEMMA WaitStep ==
  ASSUME WinInv, NEW t \in Callers, Wait(t)
  PROVE  WinInv'
<1>0. GateTypes /\ LockHeld /\ GateKept /\ SignalsKept /\ WaitersOnly /\ Covered /\ NoTimeoutRace
  BY DEF WinInv
<1>1. /\ stage[t] = "out" /\ stage' = [stage EXCEPT ![t] = "gate"]
      /\ t \in use.waiters /\ timed \subseteq timed' /\ timed' \subseteq timed \cup use.timed
      /\ UNCHANGED <<m_assocMutex, m_blockLock, m_blockQueue, m_unblockLock,
                     m_numWaitersGone, m_numWaitersBlocked, m_numWaitersToUnblock>>
      /\ UNCHANGED <<use, timedOut, surplus>>
  BY DEF Wait, Goto, TakeGate, FreeGate, counts, locks, locals
<1>2. /\ stage'[t] = "gate" /\ \A u \in Callers \ {t} : stage'[u] = stage[u]
      /\ Counted(t, "out", "gate")
  BY <1>0, <1>1, Counts DEF GateTypes
<1>3. /\ Signals' = Signals /\ Signals \in Nat
      /\ Cardinality(Waiters') = Cardinality(Waiters) /\ Cardinality(Waiters) \in Nat
  BY <1>0, <1>1, <1>2 DEF GateTypes, WaitersOnly, Counted, Waiting
<1>4. stage'[t] = "gate" /\ \A u \in Callers \ {t} : stage'[u] = stage[u]
  BY <1>2
<1>5. GateTypes'
  BY <1>0, <1>1 DEF GateTypes
<1>6. LockHeld'
  BY <1>0, <1>1, <1>4, NoneIsNoThread DEF GateTypes, LockHeld, Holding
<1>7. GateKept'
  BY <1>0, <1>1, <1>4 DEF GateTypes, GateKept, AtGate
<1>8. SignalsKept'
  BY <1>0, <1>1, <1>3, <1>4 DEF GateTypes, GateKept, SignalsKept, AtGate
<1>9. WaitersOnly'
  BY <1>0, <1>1, <1>4 DEF GateTypes, WaitersOnly
<1>10. Covered' /\ NoTimeoutRace'
  BY <1>0, <1>1, <1>3 DEF GateTypes, Covered, NoTimeoutRace
<1> QED BY <1>5, <1>6, <1>7, <1>8, <1>9, <1>10 DEF WinInv

LEMMA PurgeStep ==
  ASSUME WinInv, NEW t \in Callers, Purge(t)
  PROVE  WinInv'
<1>0. GateTypes /\ LockHeld /\ GateKept /\ SignalsKept /\ WaitersOnly /\ Covered /\ NoTimeoutRace
  BY DEF WinInv
<1>1. /\ stage[t] = "purge" /\ stage' = [stage EXCEPT ![t] = "relock"]
      /\ m_blockLock = 1 /\ m_numWaitersBlocked' = m_numWaitersBlocked - m_numWaitersGone
      /\ m_numWaitersGone' = 0 /\ m_unblockLock' = None
      /\ UNCHANGED <<m_assocMutex, m_blockLock, m_blockQueue, m_numWaitersToUnblock>>
      /\ UNCHANGED <<use, timed, timedOut, surplus>>
  BY DEF Purge, Goto, TakeGate, FreeGate, counts, locks, locals
<1>2. /\ stage'[t] = "relock" /\ \A u \in Callers \ {t} : stage'[u] = stage[u]
      /\ Counted(t, "purge", "relock")
  BY <1>0, <1>1, Counts DEF GateTypes
<1>3. /\ Signals' = Signals /\ Signals \in Nat
      /\ Cardinality(Waiters') = Cardinality(Waiters) /\ Cardinality(Waiters) \in Nat
  BY <1>0, <1>1, <1>2 DEF GateTypes, WaitersOnly, Counted, Waiting
<1>4. stage'[t] = "relock" /\ \A u \in Callers \ {t} : stage'[u] = stage[u]
  BY <1>2
<1>5. m_numWaitersToUnblock = 0 /\ m_numWaitersBlocked >= m_numWaitersGone
  <2>1. m_unblockLock = t /\ m_numWaitersToUnblock = 0
    BY <1>0, <1>1, NoneIsNoThread DEF LockHeld, Holding
  <2>2. Cardinality(Waiters) \in Nat
    BY CallerFacts DEF SetsOfCallers
  <2> QED BY <1>0, <2>1, <2>2 DEF Covered, GateTypes
<1>6. GateTypes'
  BY <1>0, <1>1, <1>5 DEF GateTypes
<1>7. LockHeld'
  BY <1>0, <1>1, <1>4, <1>5, NoneIsNoThread DEF GateTypes, LockHeld, Holding
<1>8. GateKept'
  BY <1>0, <1>1, <1>4, <1>5 DEF GateTypes, GateKept, AtGate
<1>9. SignalsKept'
  BY <1>0, <1>1, <1>3, <1>4, <1>5 DEF GateTypes, GateKept, SignalsKept, AtGate
<1>10. WaitersOnly'
  BY <1>0, <1>1, <1>4, <1>5 DEF GateTypes, WaitersOnly
<1>11. Covered' /\ NoTimeoutRace'
  BY <1>0, <1>1, <1>3, <1>5 DEF GateTypes, Covered, NoTimeoutRace
<1> QED BY <1>6, <1>7, <1>8, <1>9, <1>10, <1>11 DEF WinInv

LEMMA UnblockFacts ==
  ASSUME WinInv, NEW t \in Callers, Unblock(t)
  PROVE  /\ stage[t] = "unblock" /\ m_unblockLock = None
         /\ m_numWaitersToUnblock > 0 /\ m_numWaitersGone = 0
         /\ t \in timedOut => m_numWaitersToUnblock = 1 /\ m_numWaitersBlocked = 0
         /\ BlockedAfter(t) = m_numWaitersBlocked /\ ~GivesUp(t)
         /\ GoneAfter(t) = (IF t \in timedOut THEN 1 ELSE 0)
         /\ m_numWaitersBlocked' = m_numWaitersBlocked
         /\ m_numWaitersToUnblock' = m_numWaitersToUnblock - 1
         /\ UNCHANGED <<m_assocMutex, m_blockQueue, m_unblockLock, use, timed, timedOut>>
<1>1. m_numWaitersToUnblock > 0
  BY DEF Unblock, UnblockMore, UnblockLastAndOpen, UnblockLast, WinInv, GateTypes
<1>2. m_numWaitersGone = 0
  BY <1>1 DEF WinInv, SignalsKept
<1>3. t \in timedOut => use.timed # {}
  BY DEF WinInv, GateTypes
<1>4. t \in timedOut => m_numWaitersToUnblock = 1 /\ m_numWaitersBlocked = 0
  BY <1>1, <1>3, SingleWaiter
<1> QED BY <1>1, <1>2, <1>4 DEF Unblock, BlockedAfter, GivesUp, GoneAfter

LEMMA UnblockMoreStep ==
  ASSUME WinInv, NEW t \in Callers, Unblock(t), UnblockMore(t)
  PROVE  WinInv'
<1>0. GateTypes /\ LockHeld /\ GateKept /\ SignalsKept /\ WaitersOnly /\ Covered /\ NoTimeoutRace
  BY DEF WinInv
<1>1. /\ stage[t] = "unblock" /\ stage' = [stage EXCEPT ![t] = "pass"]
      /\ m_unblockLock = None /\ m_numWaitersToUnblock > 1 /\ t \notin timedOut
      /\ m_numWaitersToUnblock' = m_numWaitersToUnblock - 1 /\ m_numWaitersGone = 0
      /\ m_numWaitersGone' = 0 /\ m_numWaitersBlocked' = m_numWaitersBlocked
      /\ UNCHANGED <<m_assocMutex, m_blockLock, m_blockQueue, m_unblockLock>>
      /\ UNCHANGED <<use, timed, timedOut, surplus>>
  <2>1. m_numWaitersToUnblock > 1 /\ m_numWaitersToUnblock # 1
    BY <1>0 DEF UnblockMore, GateTypes
  <2>2. t \notin timedOut
    BY <2>1, UnblockFacts
  <2> QED BY <2>1, <2>2, UnblockFacts DEF UnblockMore, Goto
<1>2. /\ stage'[t] = "pass" /\ \A u \in Callers \ {t} : stage'[u] = stage[u]
      /\ Counted(t, "unblock", "pass")
  BY <1>0, <1>1, Counts DEF GateTypes
<1>3. /\ Signals' = Signals /\ Signals \in Nat
      /\ Cardinality(Waiters') = Cardinality(Waiters) - 1 /\ Cardinality(Waiters) \in Nat
  BY <1>0, <1>1, <1>2 DEF GateTypes, WaitersOnly, Counted, Waiting
<1>4. stage'[t] = "pass" /\ \A u \in Callers \ {t} : stage'[u] = stage[u]
  BY <1>2
<1>5. GateTypes'
  BY <1>0, <1>1 DEF GateTypes
<1>6. LockHeld'
  BY <1>0, <1>1, <1>4, NoneIsNoThread DEF GateTypes, LockHeld, Holding
<1>7. GateKept'
  BY <1>0, <1>1, <1>4 DEF GateTypes, GateKept, AtGate
<1>8. SignalsKept'
  BY <1>0, <1>1, <1>3, <1>4 DEF GateTypes, GateKept, SignalsKept, AtGate
<1>9. WaitersOnly'
  BY <1>0, <1>1, <1>4 DEF GateTypes, WaitersOnly
<1>10. Covered' /\ NoTimeoutRace'
  BY <1>0, <1>1, <1>3 DEF GateTypes, Covered, NoTimeoutRace
<1> QED BY <1>5, <1>6, <1>7, <1>8, <1>9, <1>10 DEF WinInv

LEMMA UnblockLastAndOpenStep ==
  ASSUME WinInv, NEW t \in Callers, Unblock(t), UnblockLastAndOpen(t)
  PROVE  WinInv'
<1>0. GateTypes /\ LockHeld /\ GateKept /\ SignalsKept /\ WaitersOnly /\ Covered /\ NoTimeoutRace
  BY DEF WinInv
<1>1. /\ stage[t] = "unblock" /\ stage' = [stage EXCEPT ![t] = "relock"]
      /\ m_unblockLock = None /\ m_numWaitersToUnblock = 1 /\ t \notin timedOut
      /\ m_numWaitersToUnblock' = 0 /\ m_numWaitersGone = 0 /\ m_blockLock' = 1
      /\ m_numWaitersGone' = 0 /\ m_numWaitersBlocked' = m_numWaitersBlocked
      /\ UNCHANGED <<m_assocMutex, m_blockQueue, m_unblockLock>>
      /\ UNCHANGED <<use, timed, timedOut, surplus>>
  BY UnblockFacts DEF UnblockLastAndOpen, Goto, FreeGate
<1>2. /\ stage'[t] = "relock" /\ \A u \in Callers \ {t} : stage'[u] = stage[u]
      /\ Counted(t, "unblock", "relock")
  BY <1>0, <1>1, Counts DEF GateTypes
<1>3. /\ Signals' = Signals - 1 /\ Signals \in Nat
      /\ Cardinality(Waiters') = Cardinality(Waiters) - 1 /\ Cardinality(Waiters) \in Nat
  BY <1>0, <1>1, <1>2 DEF GateTypes, WaitersOnly, Counted, Waiting
<1>4. stage'[t] = "relock" /\ \A u \in Callers \ {t} : stage'[u] = stage[u]
  BY <1>2
<1>5. GateTypes'
  BY <1>0, <1>1 DEF GateTypes
<1>6. LockHeld'
  BY <1>0, <1>1, <1>4, NoneIsNoThread DEF GateTypes, LockHeld, Holding
<1>7. GateKept'
  BY <1>0, <1>1, <1>4 DEF GateTypes, GateKept, AtGate
<1>8. SignalsKept'
  BY <1>0, <1>1, <1>3, <1>4 DEF GateTypes, GateKept, SignalsKept, AtGate
<1>9. WaitersOnly'
  BY <1>0, <1>1, <1>4 DEF GateTypes, WaitersOnly
<1>10. Covered' /\ NoTimeoutRace'
  BY <1>0, <1>1, <1>3 DEF GateTypes, Covered, NoTimeoutRace
<1> QED BY <1>5, <1>6, <1>7, <1>8, <1>9, <1>10 DEF WinInv

LEMMA UnblockLastStep ==
  ASSUME WinInv, NEW t \in Callers, Unblock(t), UnblockLast(t), t \notin timedOut
  PROVE  WinInv'
<1>0. GateTypes /\ LockHeld /\ GateKept /\ SignalsKept /\ WaitersOnly /\ Covered /\ NoTimeoutRace
  BY DEF WinInv
<1>1. /\ stage[t] = "unblock" /\ stage' = [stage EXCEPT ![t] = "drain"]
      /\ m_unblockLock = None /\ m_numWaitersToUnblock = 1 /\ t \notin timedOut
      /\ m_numWaitersToUnblock' = 0 /\ m_numWaitersGone = 0 /\ m_numWaitersGone' = 0
      /\ m_numWaitersBlocked = 0 /\ m_numWaitersBlocked' = 0
      /\ surplus' = [surplus EXCEPT ![t] = 0]
      /\ UNCHANGED <<m_assocMutex, m_blockLock, m_blockQueue, m_unblockLock>>
      /\ UNCHANGED <<use, timed, timedOut>>
  BY UnblockFacts DEF UnblockLast, Goto
<1>2. /\ stage'[t] = "drain" /\ \A u \in Callers \ {t} : stage'[u] = stage[u]
      /\ Counted(t, "unblock", "drain")
  BY <1>0, <1>1, Counts DEF GateTypes
<1>3. /\ Signals' = Signals - 1 /\ Signals \in Nat
      /\ Cardinality(Waiters') = Cardinality(Waiters) - 1 /\ Cardinality(Waiters) \in Nat
  BY <1>0, <1>1, <1>2 DEF GateTypes, WaitersOnly, Counted, Waiting
<1>4. stage'[t] = "drain" /\ \A u \in Callers \ {t} : stage'[u] = stage[u]
  BY <1>2
<1>5. GateTypes'
  BY <1>0, <1>1 DEF GateTypes
<1>6. LockHeld'
  BY <1>0, <1>1, <1>4, NoneIsNoThread DEF GateTypes, LockHeld, Holding
<1>7. GateKept'
  BY <1>0, <1>1, <1>4 DEF GateTypes, GateKept, AtGate
<1>8. SignalsKept'
  BY <1>0, <1>1, <1>3, <1>4 DEF GateTypes, GateKept, SignalsKept, AtGate
<1>9. WaitersOnly'
  BY <1>0, <1>1, <1>4 DEF GateTypes, WaitersOnly
<1>10. Covered' /\ NoTimeoutRace'
  BY <1>0, <1>1, <1>3 DEF GateTypes, Covered, NoTimeoutRace
<1> QED BY <1>5, <1>6, <1>7, <1>8, <1>9, <1>10 DEF WinInv

LEMMA UnblockTimedOutStep ==
  ASSUME WinInv, NEW t \in Callers, Unblock(t), UnblockLast(t), t \in timedOut
  PROVE  WinInv'
<1>0. GateTypes /\ LockHeld /\ GateKept /\ SignalsKept /\ WaitersOnly /\ Covered /\ NoTimeoutRace
  BY DEF WinInv
<1>1. /\ stage[t] = "unblock" /\ stage' = [stage EXCEPT ![t] = "drain"]
      /\ m_unblockLock = None /\ m_numWaitersToUnblock = 1 /\ t \in timedOut
      /\ m_numWaitersToUnblock' = 0 /\ m_numWaitersGone = 0 /\ m_numWaitersGone' = 0
      /\ m_numWaitersBlocked = 0 /\ m_numWaitersBlocked' = 0
      /\ surplus' = [surplus EXCEPT ![t] = 1]
      /\ UNCHANGED <<m_assocMutex, m_blockLock, m_blockQueue, m_unblockLock>>
      /\ UNCHANGED <<use, timed, timedOut>>
  BY UnblockFacts DEF UnblockLast, Goto
<1>2. /\ stage'[t] = "drain" /\ \A u \in Callers \ {t} : stage'[u] = stage[u]
      /\ Counted(t, "unblock", "drain")
  BY <1>0, <1>1, Counts DEF GateTypes
<1>3. /\ Signals' = Signals /\ Signals \in Nat
      /\ Cardinality(Waiters') = Cardinality(Waiters) - 1 /\ Cardinality(Waiters) \in Nat
  BY <1>0, <1>1, <1>2 DEF GateTypes, WaitersOnly, Counted, Waiting
<1>4. stage'[t] = "drain" /\ \A u \in Callers \ {t} : stage'[u] = stage[u]
  BY <1>2
<1>5. GateTypes'
  BY <1>0, <1>1 DEF GateTypes
<1>6. LockHeld'
  BY <1>0, <1>1, <1>4, NoneIsNoThread DEF GateTypes, LockHeld, Holding
<1>7. GateKept'
  BY <1>0, <1>1, <1>4 DEF GateTypes, GateKept, AtGate
<1>8. SignalsKept'
  BY <1>0, <1>1, <1>3, <1>4 DEF GateTypes, GateKept, SignalsKept, AtGate
<1>9. WaitersOnly'
  BY <1>0, <1>1, <1>4 DEF GateTypes, WaitersOnly
<1>10. Covered' /\ NoTimeoutRace'
  BY <1>0, <1>1, <1>3 DEF GateTypes, Covered, NoTimeoutRace
<1> QED BY <1>5, <1>6, <1>7, <1>8, <1>9, <1>10 DEF WinInv

LEMMA UnblockStep ==
  ASSUME WinInv, NEW t \in Callers, Unblock(t)
  PROVE  WinInv'
<1>1. UnblockMore(t) \/ UnblockLastAndOpen(t) \/ UnblockLast(t)
  BY DEF Unblock
<1> QED BY <1>1, UnblockMoreStep, UnblockLastAndOpenStep, UnblockLastStep, UnblockTimedOutStep

LEMMA GoAwayStep ==
  ASSUME WinInv, NEW t \in Callers, Go(t), m_numWaitersGone + 1 # GoneLimit
  PROVE  WinInv'
<1>0. GateTypes /\ LockHeld /\ GateKept /\ SignalsKept /\ WaitersOnly /\ Covered /\ NoTimeoutRace
  BY DEF WinInv
<1>1. /\ stage[t] = "unblock" /\ stage' = [stage EXCEPT ![t] = "relock"]
      /\ m_unblockLock = None /\ m_numWaitersToUnblock = 0 /\ m_unblockLock' = None
      /\ m_numWaitersGone' = m_numWaitersGone + 1
      /\ UNCHANGED <<m_assocMutex, m_blockLock, m_blockQueue, m_numWaitersBlocked,
                     m_numWaitersToUnblock>>
      /\ UNCHANGED <<use, timed, timedOut, surplus>>
  BY DEF Go, Goto, locals
<1>2. t \in timedOut
  <2>1. ASSUME t \notin timedOut PROVE FALSE
    <3>1. t \in Woken
      BY <1>1, <2>1 DEF Woken, At
    <3>2. Cardinality(Woken) # 0
      BY <3>1, CallerFacts, FS_EmptySet DEF SetsOfCallers
    <3>3. Signals > 0
      BY <3>2, <1>0, CallerFacts DEF SetsOfCallers, GateTypes
    <3>4. PICK u \in Callers : stage[u] = "drain" /\ Signals = surplus[u]
      BY <3>3, <1>0, <1>1 DEF SignalsKept
    <3>5. surplus[u] # 0 /\ u # t
      BY <3>3, <3>4, <1>1
    <3>6. use.timed # {}
      BY <3>5, <1>0 DEF WaitersOnly
    <3>7. t \in use.waiters /\ u \in use.waiters
      BY <3>4, <1>0, <1>1 DEF WaitersOnly
    <3> QED BY <3>5, <3>6, <3>7, <1>0 DEF NoTimeoutRace
  <2> QED BY <2>1
<1>3. /\ stage'[t] = "relock" /\ \A u \in Callers \ {t} : stage'[u] = stage[u]
      /\ Counted(t, "unblock", "relock")
  BY <1>0, <1>1, Counts DEF GateTypes
<1>4. /\ Signals' = Signals /\ Signals \in Nat
      /\ Cardinality(Waiters') = Cardinality(Waiters) - 1 /\ Cardinality(Waiters) \in Nat
  BY <1>0, <1>1, <1>3, <1>2 DEF GateTypes, Counted, Waiting
<1>5. stage'[t] = "relock" /\ \A u \in Callers \ {t} : stage'[u] = stage[u]
  BY <1>3
<1>6. GateTypes'
  BY <1>0, <1>1, <1>2 DEF GateTypes
<1>7. LockHeld'
  BY <1>0, <1>1, <1>5, <1>2, NoneIsNoThread DEF GateTypes, LockHeld, Holding
<1>8. GateKept'
  BY <1>0, <1>1, <1>5, <1>2 DEF GateTypes, GateKept, AtGate
<1>9. SignalsKept'
  BY <1>0, <1>1, <1>4, <1>5, <1>2 DEF GateTypes, GateKept, SignalsKept, AtGate
<1>10. WaitersOnly'
  BY <1>0, <1>1, <1>5, <1>2 DEF GateTypes, WaitersOnly
<1>11. Covered' /\ NoTimeoutRace'
  BY <1>0, <1>1, <1>4, <1>2 DEF GateTypes, Covered, NoTimeoutRace
<1> QED BY <1>6, <1>7, <1>8, <1>9, <1>10, <1>11 DEF WinInv

LEMMA GoPurgeStep ==
  ASSUME WinInv, NEW t \in Callers, Go(t), m_numWaitersGone + 1 = GoneLimit
  PROVE  WinInv'
<1>0. GateTypes /\ LockHeld /\ GateKept /\ SignalsKept /\ WaitersOnly /\ Covered /\ NoTimeoutRace
  BY DEF WinInv
<1>1. /\ stage[t] = "unblock" /\ stage' = [stage EXCEPT ![t] = "purge"]
      /\ m_unblockLock = None /\ m_numWaitersToUnblock = 0 /\ m_unblockLock' = t
      /\ m_numWaitersGone' = m_numWaitersGone + 1
      /\ UNCHANGED <<m_assocMutex, m_blockLock, m_blockQueue, m_numWaitersBlocked,
                     m_numWaitersToUnblock>>
      /\ UNCHANGED <<use, timed, timedOut, surplus>>
  BY DEF Go, Goto, locals
<1>2. t \in timedOut
  <2>1. ASSUME t \notin timedOut PROVE FALSE
    <3>1. t \in Woken
      BY <1>1, <2>1 DEF Woken, At
    <3>2. Cardinality(Woken) # 0
      BY <3>1, CallerFacts, FS_EmptySet DEF SetsOfCallers
    <3>3. Signals > 0
      BY <3>2, <1>0, CallerFacts DEF SetsOfCallers, GateTypes
    <3>4. PICK u \in Callers : stage[u] = "drain" /\ Signals = surplus[u]
      BY <3>3, <1>0, <1>1 DEF SignalsKept
    <3>5. surplus[u] # 0 /\ u # t
      BY <3>3, <3>4, <1>1
    <3>6. use.timed # {}
      BY <3>5, <1>0 DEF WaitersOnly
    <3>7. t \in use.waiters /\ u \in use.waiters
      BY <3>4, <1>0, <1>1 DEF WaitersOnly
    <3> QED BY <3>5, <3>6, <3>7, <1>0 DEF NoTimeoutRace
  <2> QED BY <2>1
<1>3. /\ stage'[t] = "purge" /\ \A u \in Callers \ {t} : stage'[u] = stage[u]
      /\ Counted(t, "unblock", "purge")
  BY <1>0, <1>1, Counts DEF GateTypes
<1>4. /\ Signals' = Signals /\ Signals \in Nat
      /\ Cardinality(Waiters') = Cardinality(Waiters) - 1 /\ Cardinality(Waiters) \in Nat
  BY <1>0, <1>1, <1>3, <1>2 DEF GateTypes, Counted, Waiting
<1>5. stage'[t] = "purge" /\ \A u \in Callers \ {t} : stage'[u] = stage[u]
  BY <1>3
<1>6. GateTypes'
  BY <1>0, <1>1, <1>2 DEF GateTypes
<1>7. LockHeld'
  BY <1>0, <1>1, <1>5, <1>2, NoneIsNoThread DEF GateTypes, LockHeld, Holding
<1>8. GateKept'
  BY <1>0, <1>1, <1>5, <1>2 DEF GateTypes, GateKept, AtGate
<1>9. SignalsKept'
  BY <1>0, <1>1, <1>4, <1>5, <1>2 DEF GateTypes, GateKept, SignalsKept, AtGate
<1>10. WaitersOnly'
  BY <1>0, <1>1, <1>5, <1>2 DEF GateTypes, WaitersOnly
<1>11. Covered' /\ NoTimeoutRace'
  BY <1>0, <1>1, <1>4, <1>2 DEF GateTypes, Covered, NoTimeoutRace
<1> QED BY <1>6, <1>7, <1>8, <1>9, <1>10, <1>11 DEF WinInv

LEMMA CloseGateOneStep ==
  ASSUME WinInv, NEW t \in Callers, CloseGate(t), stage[t] = "notify"
  PROVE  WinInv'
<1>0. GateTypes /\ LockHeld /\ GateKept /\ SignalsKept /\ WaitersOnly /\ Covered /\ NoTimeoutRace
  BY DEF WinInv
<1>1. /\ stage[t] = "notify" /\ stage' = [stage EXCEPT ![t] = "signal"]
      /\ m_blockLock = 1 /\ m_blockLock' = 0 /\ m_unblockLock' = None
      /\ m_numWaitersToUnblock' = 1
      /\ m_numWaitersBlocked' = m_numWaitersBlocked - m_numWaitersGone - 1
      /\ m_numWaitersGone' = 0
      /\ UNCHANGED <<m_assocMutex, m_blockQueue>>
      /\ UNCHANGED <<use, timed, timedOut, surplus>>
  BY DEF CloseGate, Goto, TakeGate, locals
<1>2. /\ stage'[t] = "signal" /\ \A u \in Callers \ {t} : stage'[u] = stage[u]
      /\ Counted(t, "notify", "signal")
  BY <1>0, <1>1, Counts DEF GateTypes
<1>3. /\ Signals' = Signals + 1 /\ Signals \in Nat
      /\ Cardinality(Waiters') = Cardinality(Waiters) /\ Cardinality(Waiters) \in Nat
  BY <1>0, <1>1, <1>2 DEF GateTypes, WaitersOnly, Counted, Waiting
<1>4. stage'[t] = "signal" /\ \A u \in Callers \ {t} : stage'[u] = stage[u]
  BY <1>2
<1>5. m_numWaitersBlocked > m_numWaitersGone /\ m_unblockLock = t /\ m_numWaitersToUnblock = 0
  BY <1>0, <1>1, NoneIsNoThread DEF LockHeld, Holding
<1>6. GateTypes'
  BY <1>0, <1>1, <1>5 DEF GateTypes
<1>7. LockHeld'
  BY <1>0, <1>1, <1>4, <1>5, NoneIsNoThread DEF GateTypes, LockHeld, Holding
<1>8. GateKept'
  BY <1>0, <1>1, <1>4, <1>5 DEF GateTypes, GateKept, AtGate
<1>9. SignalsKept'
  BY <1>0, <1>1, <1>3, <1>4, <1>5 DEF GateTypes, GateKept, SignalsKept, AtGate
<1>10. WaitersOnly'
  BY <1>0, <1>1, <1>4, <1>5 DEF GateTypes, WaitersOnly
<1>11. Covered' /\ NoTimeoutRace'
  BY <1>0, <1>1, <1>3, <1>5 DEF GateTypes, Covered, NoTimeoutRace
<1> QED BY <1>6, <1>7, <1>8, <1>9, <1>10, <1>11 DEF WinInv

LEMMA CloseGateAllStep ==
  ASSUME WinInv, NEW t \in Callers, CloseGate(t), stage[t] = "notifyAll"
  PROVE  WinInv'
<1>0. GateTypes /\ LockHeld /\ GateKept /\ SignalsKept /\ WaitersOnly /\ Covered /\ NoTimeoutRace
  BY DEF WinInv
<1>1. /\ stage[t] = "notifyAll" /\ stage' = [stage EXCEPT ![t] = "signal"]
      /\ m_blockLock = 1 /\ m_blockLock' = 0 /\ m_unblockLock' = None
      /\ m_numWaitersToUnblock' = m_numWaitersBlocked - m_numWaitersGone
      /\ m_numWaitersBlocked' = m_numWaitersBlocked - m_numWaitersGone
                                - (m_numWaitersBlocked - m_numWaitersGone)
      /\ m_numWaitersGone' = 0
      /\ UNCHANGED <<m_assocMutex, m_blockQueue>>
      /\ UNCHANGED <<use, timed, timedOut, surplus>>
  BY DEF CloseGate, Goto, TakeGate, locals
<1>2. /\ stage'[t] = "signal" /\ \A u \in Callers \ {t} : stage'[u] = stage[u]
      /\ Counted(t, "notifyAll", "signal")
  BY <1>0, <1>1, Counts DEF GateTypes
<1>3. /\ Signals' = Signals + 1 /\ Signals \in Nat
      /\ Cardinality(Waiters') = Cardinality(Waiters) /\ Cardinality(Waiters) \in Nat
  BY <1>0, <1>1, <1>2 DEF GateTypes, WaitersOnly, Counted, Waiting
<1>4. stage'[t] = "signal" /\ \A u \in Callers \ {t} : stage'[u] = stage[u]
  BY <1>2
<1>5. m_numWaitersBlocked > m_numWaitersGone /\ m_unblockLock = t /\ m_numWaitersToUnblock = 0
  BY <1>0, <1>1, NoneIsNoThread DEF LockHeld, Holding
<1>6. GateTypes'
  BY <1>0, <1>1, <1>5 DEF GateTypes
<1>7. LockHeld'
  BY <1>0, <1>1, <1>4, <1>5, NoneIsNoThread DEF GateTypes, LockHeld, Holding
<1>8. GateKept'
  BY <1>0, <1>1, <1>4, <1>5 DEF GateTypes, GateKept, AtGate
<1>9. SignalsKept'
  BY <1>0, <1>1, <1>3, <1>4, <1>5 DEF GateTypes, GateKept, SignalsKept, AtGate
<1>10. WaitersOnly'
  BY <1>0, <1>1, <1>4, <1>5 DEF GateTypes, WaitersOnly
<1>11. Covered' /\ NoTimeoutRace'
  BY <1>0, <1>1, <1>3, <1>5 DEF GateTypes, Covered, NoTimeoutRace
<1> QED BY <1>6, <1>7, <1>8, <1>9, <1>10, <1>11 DEF WinInv

-----------------------------------------------------------------------------
LEMMA SameStages ==
  ASSUME UNCHANGED <<stage, timedOut>>
  PROVE  Waiters' = Waiters /\ Signallers' = Signallers /\ Woken' = Woken
BY DEF Waiters, Signallers, Woken, At

LEMMA DrainStep ==
  ASSUME WinInv, NEW t \in Callers, Drain(t)
  PROVE  WinInv'
<1>0. GateTypes /\ LockHeld /\ GateKept /\ SignalsKept /\ WaitersOnly /\ Covered /\ NoTimeoutRace
  BY DEF WinInv
<1>1. /\ stage[t] = "drain" /\ surplus[t] > 0 /\ m_blockQueue > 0
      /\ surplus' = [surplus EXCEPT ![t] = @ - 1] /\ m_blockQueue' = m_blockQueue - 1
      /\ UNCHANGED <<m_assocMutex, m_blockLock, m_unblockLock, m_numWaitersGone,
                     m_numWaitersBlocked, m_numWaitersToUnblock>>
      /\ UNCHANGED <<stage, use, timed, timedOut>>
  BY DEF Drain, counts
<1>2. Signals' = Signals - 1 /\ Signals \in Nat /\ Cardinality(Waiters') = Cardinality(Waiters)
  BY <1>0, <1>1, SameStages, CallerFacts, CallerFactsAfter DEF SetsOfCallers, GateTypes
<1>3. GateTypes'
  BY <1>0, <1>1 DEF GateTypes
<1>4. LockHeld' /\ GateKept'
  BY <1>0, <1>1 DEF LockHeld, GateKept
<1>5. SignalsKept'
  BY <1>0, <1>1, <1>2 DEF GateTypes, SignalsKept, GateKept, AtGate
<1>6. WaitersOnly' /\ Covered' /\ NoTimeoutRace'
  BY <1>0, <1>1, <1>2 DEF GateTypes, WaitersOnly, Covered, NoTimeoutRace
<1> QED BY <1>3, <1>4, <1>5, <1>6 DEF WinInv

LEMMA NotifyMoreStep ==
  ASSUME WinInv, NEW t \in Callers, NEW all \in BOOLEAN, NotifyMore(t, all)
  PROVE  WinInv'
<1> DEFINE n == IF all THEN m_numWaitersBlocked ELSE 1
<1>0. GateTypes /\ LockHeld /\ GateKept /\ SignalsKept /\ WaitersOnly /\ Covered /\ NoTimeoutRace
  BY DEF WinInv
<1>1. /\ m_unblockLock = None /\ m_numWaitersToUnblock # 0 /\ m_numWaitersBlocked # 0
      /\ m_numWaitersToUnblock' = m_numWaitersToUnblock + n
      /\ m_numWaitersBlocked' = m_numWaitersBlocked - n
      /\ UNCHANGED <<m_assocMutex, m_blockLock, m_blockQueue, m_unblockLock>>
      /\ UNCHANGED <<m_numWaitersGone, stage, use, timed, timedOut, surplus>>
  BY DEF NotifyMore, locks, locals
<1>2. n \in Nat /\ n >= 1 /\ n <= m_numWaitersBlocked
  BY <1>0, <1>1 DEF GateTypes
<1> HIDE DEF n
<1>3. Signals' = Signals /\ Cardinality(Waiters') = Cardinality(Waiters)
      /\ Cardinality(Waiters) \in Nat
  BY <1>0, <1>1, SameStages, CallerFacts, CallerFactsAfter DEF SetsOfCallers, GateTypes
<1>4. GateTypes'
  BY <1>0, <1>1, <1>2 DEF GateTypes
<1>5. LockHeld' /\ GateKept'
  BY <1>0, <1>1, <1>2, NoneIsNoThread DEF GateTypes, LockHeld, GateKept, Holding
<1>6. SignalsKept'
  BY <1>0, <1>1, <1>2, <1>3 DEF GateTypes, SignalsKept, GateKept, AtGate
<1>7. WaitersOnly' /\ Covered' /\ NoTimeoutRace'
  BY <1>0, <1>1, <1>2, <1>3 DEF GateTypes, WaitersOnly, Covered, NoTimeoutRace
<1> QED BY <1>4, <1>5, <1>6, <1>7 DEF WinInv

LEMMA NotifyFirstOneStep ==
  ASSUME WinInv, NEW t \in Callers, NotifyFirst(t, FALSE)
  PROVE  WinInv'
<1>0. GateTypes /\ LockHeld /\ GateKept /\ SignalsKept /\ WaitersOnly /\ Covered /\ NoTimeoutRace
  BY DEF WinInv
<1>1. /\ stage[t] = "out" /\ stage' = [stage EXCEPT ![t] = "notify"]
      /\ m_unblockLock = None /\ m_unblockLock' = t
      /\ m_numWaitersToUnblock = 0 /\ m_numWaitersBlocked > m_numWaitersGone
      /\ UNCHANGED <<m_assocMutex, m_blockLock, m_blockQueue, m_numWaitersGone,
                     m_numWaitersBlocked, m_numWaitersToUnblock>>
      /\ UNCHANGED <<use, timed, timedOut, surplus>>
  BY DEF NotifyFirst, Goto, counts, locals
<1>2. /\ stage'[t] = "notify" /\ \A u \in Callers \ {t} : stage'[u] = stage[u]
      /\ Counted(t, "out", "notify")
  BY <1>0, <1>1, Counts DEF GateTypes
<1>3. /\ Signals' = Signals /\ Signals \in Nat
      /\ Cardinality(Waiters') = Cardinality(Waiters) /\ Cardinality(Waiters) \in Nat
  BY <1>0, <1>1, <1>2 DEF GateTypes, WaitersOnly, Counted, Waiting
<1>4. stage'[t] = "notify" /\ \A u \in Callers \ {t} : stage'[u] = stage[u]
  BY <1>2
<1>5. GateTypes'
  BY <1>0, <1>1 DEF GateTypes
<1>6. LockHeld'
  BY <1>0, <1>1, <1>4, NoneIsNoThread DEF GateTypes, LockHeld, Holding
<1>7. GateKept'
  BY <1>0, <1>1, <1>4 DEF GateTypes, GateKept, AtGate
<1>8. SignalsKept'
  BY <1>0, <1>1, <1>3, <1>4 DEF GateTypes, GateKept, SignalsKept, AtGate
<1>9. WaitersOnly'
  BY <1>0, <1>1, <1>4 DEF GateTypes, WaitersOnly
<1>10. Covered' /\ NoTimeoutRace'
  BY <1>0, <1>1, <1>3 DEF GateTypes, Covered, NoTimeoutRace
<1> QED BY <1>5, <1>6, <1>7, <1>8, <1>9, <1>10 DEF WinInv

LEMMA NotifyFirstAllStep ==
  ASSUME WinInv, NEW t \in Callers, NotifyFirst(t, TRUE)
  PROVE  WinInv'
<1>0. GateTypes /\ LockHeld /\ GateKept /\ SignalsKept /\ WaitersOnly /\ Covered /\ NoTimeoutRace
  BY DEF WinInv
<1>1. /\ stage[t] = "out" /\ stage' = [stage EXCEPT ![t] = "notifyAll"]
      /\ m_unblockLock = None /\ m_unblockLock' = t
      /\ m_numWaitersToUnblock = 0 /\ m_numWaitersBlocked > m_numWaitersGone
      /\ UNCHANGED <<m_assocMutex, m_blockLock, m_blockQueue, m_numWaitersGone,
                     m_numWaitersBlocked, m_numWaitersToUnblock>>
      /\ UNCHANGED <<use, timed, timedOut, surplus>>
  BY DEF NotifyFirst, Goto, counts, locals
<1>2. /\ stage'[t] = "notifyAll" /\ \A u \in Callers \ {t} : stage'[u] = stage[u]
      /\ Counted(t, "out", "notifyAll")
  BY <1>0, <1>1, Counts DEF GateTypes
<1>3. /\ Signals' = Signals /\ Signals \in Nat
      /\ Cardinality(Waiters') = Cardinality(Waiters) /\ Cardinality(Waiters) \in Nat
  BY <1>0, <1>1, <1>2 DEF GateTypes, WaitersOnly, Counted, Waiting
<1>4. stage'[t] = "notifyAll" /\ \A u \in Callers \ {t} : stage'[u] = stage[u]
  BY <1>2
<1>5. GateTypes'
  BY <1>0, <1>1 DEF GateTypes
<1>6. LockHeld'
  BY <1>0, <1>1, <1>4, NoneIsNoThread DEF GateTypes, LockHeld, Holding
<1>7. GateKept'
  BY <1>0, <1>1, <1>4 DEF GateTypes, GateKept, AtGate
<1>8. SignalsKept'
  BY <1>0, <1>1, <1>3, <1>4 DEF GateTypes, GateKept, SignalsKept, AtGate
<1>9. WaitersOnly'
  BY <1>0, <1>1, <1>4 DEF GateTypes, WaitersOnly
<1>10. Covered' /\ NoTimeoutRace'
  BY <1>0, <1>1, <1>3 DEF GateTypes, Covered, NoTimeoutRace
<1> QED BY <1>5, <1>6, <1>7, <1>8, <1>9, <1>10 DEF WinInv

\* Only the mutex changes, or nothing.
LEMMA MutexStep ==
  ASSUME WinInv, m_assocMutex' \in Callers \cup {None},
         UNCHANGED <<m_blockLock, m_blockQueue, m_unblockLock, counts, stage, locals>>
  PROVE  WinInv'
<1>0. GateTypes /\ LockHeld /\ GateKept /\ SignalsKept /\ WaitersOnly /\ Covered /\ NoTimeoutRace
  BY DEF WinInv
<1>1. /\ UNCHANGED <<m_blockLock, m_blockQueue, m_unblockLock, m_numWaitersGone,
                     m_numWaitersBlocked, m_numWaitersToUnblock>>
      /\ UNCHANGED <<stage, use, timed, timedOut, surplus>>
  BY DEF counts, locals
<1>2. Signals' = Signals /\ Cardinality(Waiters') = Cardinality(Waiters)
  BY <1>0, <1>1, SameStages, CallerFacts, CallerFactsAfter DEF SetsOfCallers
<1>3. GateTypes' /\ LockHeld' /\ GateKept'
  BY <1>0, <1>1 DEF GateTypes, LockHeld, GateKept
<1>4. SignalsKept' /\ WaitersOnly'
  BY <1>0, <1>1, <1>2 DEF SignalsKept, WaitersOnly
<1>5. Covered' /\ NoTimeoutRace'
  BY <1>0, <1>1, <1>2 DEF Covered, NoTimeoutRace
<1> QED BY <1>3, <1>4, <1>5 DEF WinInv

LEMMA WinStep ==
  ASSUME WinInv, [WinNext]_winVars
  PROVE  WinInv'
<1>1. ASSUME NEW t \in Callers, Lock(t) \/ Unlock(t) PROVE WinInv'
  BY <1>1, MutexStep DEF Lock, Unlock
<1>2. ASSUME NEW t \in Callers, Step(t) PROVE WinInv'
  <2>1. ASSUME Go(t) PROVE WinInv'
    BY <2>1, GoAwayStep, GoPurgeStep
  <2>2. ASSUME CloseGate(t) PROVE WinInv'
    BY <2>2, CloseGateOneStep, CloseGateAllStep DEF CloseGate
  <2> QED BY <1>2, <2>1, <2>2, BlockStep, SleepStep, WakeStep, TimeOutStep, UnblockStep, PurgeStep,
          DrainStep, OpenGateStep, PassOnStep, RelockStep, SignalStep DEF Step
<1>3. ASSUME NEW t \in Callers, Notify(t) PROVE WinInv'
  <2>1. PICK all \in BOOLEAN : NotifyMore(t, all) \/ NotifyFirst(t, all)
    BY <1>3 DEF Notify
  <2>2. CASE NotifyFirst(t, all)
    BY <2>1, <2>2, NotifyFirstOneStep, NotifyFirstAllStep
  <2> QED BY <2>1, <2>2, NotifyMoreStep
<1>4. CASE UNCHANGED winVars
  <2>1. /\ UNCHANGED <<m_blockLock, m_blockQueue, m_unblockLock, counts, stage, locals>>
        /\ m_assocMutex' = m_assocMutex
    BY <1>4 DEF winVars, locks
  <2> QED BY <2>1, MutexStep DEF WinInv, GateTypes
<1> QED BY <1>1, <1>2, <1>3, <1>4, WaitStep DEF WinNext

LEMMA WinBegins ==
  ASSUME WinInit, NoTimeoutRace
  PROVE  WinInv
<1>1. Waiters = {} /\ Signallers = {} /\ Woken = {}
  BY DEF WinInit, Waiters, Waiting, Signallers, Woken, At
<1>2. Cardinality(Waiters) = 0 /\ Signals = 0
  BY <1>1, CallerFacts, FS_EmptySet DEF WinInit, SetsOfCallers
<1>3. GateTypes
  BY DEF WinInit, GateTypes
<1>4. LockHeld /\ GateKept
  BY NoneIsNoThread DEF WinInit, LockHeld, GateKept, Holding, AtGate
<1>5. SignalsKept /\ WaitersOnly /\ Covered
  BY <1>2 DEF WinInit, SignalsKept, WaitersOnly, Covered
<1> QED BY <1>3, <1>4, <1>5 DEF WinInv

LEMMA WinHolds == WinSpec => [](NoTimeoutRace => WinInv)
<1>1. WinInit => (NoTimeoutRace => WinInv)
  BY WinBegins
<1>2. (NoTimeoutRace => WinInv) /\ [WinNext]_winVars => (NoTimeoutRace => WinInv)'
  <2> SUFFICES ASSUME NoTimeoutRace => WinInv, [WinNext]_winVars, NoTimeoutRace'
               PROVE  WinInv'
    OBVIOUS
  <2>1. use' = use
    BY DEF WinNext, Lock, Unlock, Wait, Step, Block, Sleep, Wake, TimeOut, Unblock, Go, Purge,
           Drain, OpenGate, PassOn, Relock, CloseGate, Signal, Notify, NotifyMore, NotifyFirst,
           locals, winVars
  <2>2. NoTimeoutRace
    BY <2>1 DEF NoTimeoutRace
  <2> QED BY <2>2, WinStep
<1> QED BY <1>1, <1>2, PTL DEF WinSpec

\* However often the condition is used, the counters account for every waiter,
\* one permit at most is in flight, the gate is closed while threads are being
\* let out and has somebody to open it, so nobody steals a notification; unless
\* a timeout can race a notification for another thread: then the gate may stay
\* closed (condition.d:464).
THEOREM GateRight == WinSpec => [](NoTimeoutRace => GateInv)
<1>1. WinInv => GateInv
  <2> SUFFICES ASSUME WinInv PROVE GateInv
    OBVIOUS
  <2>1. WinTypeOK
    BY DEF WinInv, GateTypes, WinTypeOK
  <2>2. Signals > 0 => m_numWaitersToUnblock > 0 \/ \E t \in Callers : stage[t] = "drain"
    BY DEF WinInv, SignalsKept, GateTypes
  <2>3. NoStealing
    BY <2>2 DEF WinInv, GateKept, GateTypes, AtGate, NoStealing
  <2>4. GateHasOpener
    BY DEF WinInv, GateKept, AtGate, GateHasOpener, At
  <2>5. CountersCover
    BY DEF WinInv, Covered, CountersCover, Waiters, Waiting
  <2>6. SignalsMatch
    <3>1. use.timed = {} => \A t \in Callers : surplus[t] = 0
      BY DEF WinInv, WaitersOnly
    <3>2. m_numWaitersToUnblock \in Nat
      BY DEF WinInv, GateTypes
    <3> QED BY <3>1, <3>2 DEF WinInv, SignalsKept, SignalsMatch
  <2> QED BY <2>1, <2>3, <2>4, <2>5, <2>6 DEF GateInv
<1> QED BY <1>1, WinHolds, PTL

=============================================================================
