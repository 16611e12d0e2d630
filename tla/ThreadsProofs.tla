--------------------------- MODULE ThreadsProofs ----------------------------
(***************************************************************************)
(* Two parts that threads meet in.  ReadWriteMutex, for any finite set of  *)
(* threads, both policies and any use of deadlines: the counters count,    *)
(* writers exclude everybody else, and the mutex implements the abstract   *)
(* lock.  Every action moves one thread from one place to another and      *)
(* wakes others at most; Moves says exactly that, and everything else is   *)
(* derived from it.  And the links between threads, for any threads, any   *)
(* names and any order of their steps: an end is known to everybody whom   *)
(* it concerns, nobody is told twice or too soon, and no name leads to a   *)
(* thread that is gone.                                                    *)
(***************************************************************************)
EXTENDS RWMutex, Links, FiniteSetTheorems, SequenceTheorems, TLAPS

-----------------------------------------------------------------------------
(* RWMutex                                                                 *)

Kinds == {{"reading"}, {"writing"},
          {"readerAsleep", "readerAwake"}, {"writerAsleep", "writerAwake"}}

\* The inductive invariant.  NoStrandedWaiter is not part of it: with
\* deadlines on write locks it does not hold.
PCOK == m_policy \in Policies /\ pc \in [Threads -> Places] /\ timed \subseteq At(Waiting)
IInv == PCOK /\ CountersMatch /\ MutualExclusion

Woken(u) ==
  \/ pc'[u] = pc[u]
  \/ pc[u] = "readerAsleep" /\ pc'[u] = "readerAwake"
  \/ pc[u] = "writerAsleep" /\ pc'[u] = "writerAwake"

\* Thread t goes from one place to another, and the rest sleep or wake.
Moves(t, from, to) ==
  /\ pc[t] = from
  /\ pc' \in [Threads -> Places]
  /\ pc'[t] = to
  /\ \A u \in Threads \ {t} : Woken(u)

-----------------------------------------------------------------------------
(* The ways the actions assign pc are moves                                *)

LEMMA MoveMoves ==
  ASSUME pc \in [Threads -> Places], NEW t \in Threads,
         NEW to \in Places, Move(t, to)
  PROVE  Moves(t, pc[t], to)
BY DEF Move, Moves, Woken

LEMMA NotifyMoves ==
  ASSUME pc \in [Threads -> Places], NEW t \in Threads,
         pc[t] \in {"reading", "writing"}, NotifyWriter(t)
  PROVE  Moves(t, pc[t], "idle")
<1>1. CASE At({"writerAsleep"}) = {}
  BY <1>1 DEF NotifyWriter, MoveAndNotify, Move, Moves, Woken, Places
<1>2. CASE At({"writerAsleep"}) # {}
  <2>1. PICK w \in At({"writerAsleep"}) :
              pc' = [pc EXCEPT ![t] = "idle", ![w] = "writerAwake"]
    BY <1>2 DEF NotifyWriter, MoveAndNotify
  <2>2. w \in Threads /\ pc[w] = "writerAsleep" /\ w # t
    BY DEF At
  <2> QED BY <2>1, <2>2 DEF Moves, Woken, Places
<1> QED BY <1>1, <1>2

LEMMA NotifyAllMoves ==
  ASSUME pc \in [Threads -> Places], NEW t \in Threads, NotifyReaders(t)
  PROVE  Moves(t, pc[t], "idle")
BY DEF NotifyReaders, MoveAndNotifyAll, Moves, Woken, Places

-----------------------------------------------------------------------------
(* What a move does to the sets of threads and to their sizes              *)

LEMMA MovesSets ==
  ASSUME pc \in [Threads -> Places], NEW t \in Threads,
         NEW from, NEW to, Moves(t, from, to), NEW K \in Kinds
  PROVE  At(K)' = IF to \in K THEN At(K) \cup {t} ELSE At(K) \ {t}
<1>1. K = {"reading"} \/ K = {"writing"} \/ K = {"readerAsleep", "readerAwake"}
        \/ K = {"writerAsleep", "writerAwake"}
  BY DEF Kinds
<1>2. \A u \in Threads \ {t} : pc'[u] \in K <=> pc[u] \in K
  BY <1>1 DEF Moves, Woken
<1>3. pc'[t] \in K <=> to \in K
  BY DEF Moves
<1> QED BY <1>2, <1>3 DEF At

LEMMA AtFinite == ASSUME NEW P PROVE IsFiniteSet(At(P))
BY ThreadsFinite, FS_Subset DEF At

LEMMA MovesCount ==
  ASSUME pc \in [Threads -> Places], NEW t \in Threads,
         NEW from, NEW to, Moves(t, from, to), NEW K \in Kinds
  PROVE  /\ Cardinality(At(K)) \in Nat
         /\ to \in K /\ from \in K => Cardinality(At(K)') = Cardinality(At(K))
         /\ to \in K /\ from \notin K => Cardinality(At(K)') = Cardinality(At(K)) + 1
         /\ to \notin K /\ from \in K => Cardinality(At(K)') = Cardinality(At(K)) - 1
         /\ to \notin K /\ from \notin K => Cardinality(At(K)') = Cardinality(At(K))
<1>1. IsFiniteSet(At(K))
  BY AtFinite
<1>2. Cardinality(At(K)) \in Nat
  BY <1>1, FS_CardinalityType
<1>3. t \in At(K) <=> from \in K
  BY DEF At, Moves
<1>4. At(K)' = IF to \in K THEN At(K) \cup {t} ELSE At(K) \ {t}
  BY MovesSets
<1>5. Cardinality(At(K) \cup {t}) = IF t \in At(K) THEN Cardinality(At(K))
                                    ELSE Cardinality(At(K)) + 1
  BY <1>1, FS_AddElement
<1>6. Cardinality(At(K) \ {t}) = IF t \in At(K) THEN Cardinality(At(K)) - 1
                                 ELSE Cardinality(At(K))
  BY <1>1, FS_RemoveElement
<1> QED BY <1>2, <1>3, <1>4, <1>5, <1>6

\* Nobody is counted exactly when nobody is there.
LEMMA NobodyThere ==
  ASSUME NEW P
  PROVE  /\ Cardinality(At(P)) \in Nat
         /\ ~(Cardinality(At(P)) > 0) <=> At(P) = {}
<1>1. IsFiniteSet(At(P))
  BY AtFinite
<1>2. Cardinality(At(P)) \in Nat
  BY <1>1, FS_CardinalityType
<1>3. Cardinality(At(P)) = 0 <=> At(P) = {}
  BY <1>1, FS_EmptySet
<1> QED BY <1>2, <1>3

-----------------------------------------------------------------------------
(* Each action as a move: from where and to where                          *)

LEMMA ActionMoves ==
  ASSUME IInv, NEW t \in Threads
  PROVE  /\ ReaderEnter(t) => Moves(t, "idle", "reading")
         /\ ReaderQueue(t) => Moves(t, "idle", "readerAsleep")
         /\ ReaderAcquire(t) => Moves(t, "readerAwake", "reading")
         /\ ReaderWaitAgain(t) => Moves(t, "readerAwake", "readerAsleep")
         /\ ReaderTimeout(t) => Moves(t, "readerAwake", "idle")
         /\ ReaderUnlock(t) => Moves(t, "reading", "idle")
         /\ WriterEnter(t) => Moves(t, "idle", "writing")
         /\ WriterQueue(t) => Moves(t, "idle", "writerAsleep")
         /\ WriterAcquire(t) => Moves(t, "writerAwake", "writing")
         /\ WriterWaitAgain(t) => Moves(t, "writerAwake", "writerAsleep")
         /\ WriterTimeout(t) => Moves(t, "writerAwake", "idle")
         /\ WriterUnlock(t) => Moves(t, "writing", "idle")
         /\ Wakes(t) => \/ Moves(t, "readerAsleep", "readerAwake")
                        \/ Moves(t, "writerAsleep", "writerAwake")
<1> USE DEF IInv, PCOK
<1>1. \A p \in Places : Move(t, p) => Moves(t, pc[t], p)
  BY MoveMoves
<1>2. ReaderUnlock(t) => Moves(t, "reading", "idle")
  <2>1. ReaderUnlock(t) => NotifyWriter(t) \/ Move(t, "idle")
    BY DEF ReaderUnlock, NotifyWriter
  <2>2. ReaderUnlock(t) => pc[t] = "reading"
    BY DEF ReaderUnlock
  <2> QED BY <1>1, <2>1, <2>2, NotifyMoves DEF Places
<1>3. WriterUnlock(t) => Moves(t, "writing", "idle")
  <2>1. WriterUnlock(t) => NotifyWriter(t) \/ NotifyReaders(t) \/ Move(t, "idle")
    BY DEF WriterUnlock, WakeByPolicy
  <2>2. WriterUnlock(t) => pc[t] = "writing"
    BY DEF WriterUnlock
  <2> QED BY <1>1, <2>1, <2>2, NotifyMoves, NotifyAllMoves DEF Places
<1> QED
  BY <1>1, <1>2, <1>3
  DEF ReaderEnter, ReaderQueue, ReaderAcquire, ReaderWaitAgain, ReaderTimeout,
      WriterEnter, WriterQueue, WriterAcquire, WriterWaitAgain, WriterTimeout,
      Wakes, Places

-----------------------------------------------------------------------------
(* The invariant                                                           *)

LEMMA InitInv == Init => IInv
<1> SUFFICES ASSUME Init PROVE IInv
  OBVIOUS
<1>1. \A K \in Kinds : At(K) = {}
  BY DEF Init, At, Kinds
<1>2. Cardinality({}) = 0
  BY FS_EmptySet
<1>3. PCOK
  BY DEF PCOK, Init, Places
<1>4. CountersMatch
  BY <1>1, <1>2 DEF CountersMatch, Init, Kinds
<1>5. MutualExclusion
  BY <1>1 DEF MutualExclusion, Kinds
<1> QED BY <1>3, <1>4, <1>5 DEF IInv

\* What a move leaves of the sizes, kind by kind.
LEMMA Sizes ==
  ASSUME IInv, NEW t \in Threads, NEW from, NEW to, Moves(t, from, to)
  PROVE  \A K \in Kinds :
           /\ Cardinality(At(K)) \in Nat
           /\ to \in K /\ from \in K => Cardinality(At(K)') = Cardinality(At(K))
           /\ to \in K /\ from \notin K => Cardinality(At(K)') = Cardinality(At(K)) + 1
           /\ to \notin K /\ from \in K => Cardinality(At(K)') = Cardinality(At(K)) - 1
           /\ to \notin K /\ from \notin K => Cardinality(At(K)') = Cardinality(At(K))
BY MovesCount DEF IInv, PCOK

LEMMA CountersStep ==
  ASSUME IInv, [Next]_vars
  PROVE  CountersMatch'
<1> USE DEF Kinds
<1>1. CASE UNCHANGED vars
  BY <1>1 DEF IInv, CountersMatch, vars, counters, At
<1>2. ASSUME NEW t \in Threads, Call(t) \/ Resume(t) \/ Unlock(t)
                                 \/ Expire(t) \/ SpuriousWakeup(t)
      PROVE  CountersMatch'
  <2>0. CountersMatch
    BY DEF IInv
  <2>1. CASE ReaderEnter(t)
    <3>1. Moves(t, "idle", "reading") BY <2>1, ActionMoves
    <3> QED BY <2>0, <2>1, <3>1, Sizes DEF CountersMatch, ReaderEnter
  <2>2. CASE ReaderQueue(t)
    <3>1. Moves(t, "idle", "readerAsleep") BY <2>2, ActionMoves
    <3> QED BY <2>0, <2>2, <3>1, Sizes DEF CountersMatch, ReaderQueue
  <2>3. CASE ReaderAcquire(t)
    <3>1. Moves(t, "readerAwake", "reading") BY <2>3, ActionMoves
    <3> QED BY <2>0, <2>3, <3>1, Sizes DEF CountersMatch, ReaderAcquire
  <2>4. CASE ReaderWaitAgain(t)
    <3>1. Moves(t, "readerAwake", "readerAsleep") BY <2>4, ActionMoves
    <3> QED BY <2>0, <2>4, <3>1, Sizes DEF CountersMatch, ReaderWaitAgain, counters
  <2>5. CASE ReaderTimeout(t)
    <3>1. Moves(t, "readerAwake", "idle") BY <2>5, ActionMoves
    <3> QED BY <2>0, <2>5, <3>1, Sizes DEF CountersMatch, ReaderTimeout
  <2>6. CASE ReaderUnlock(t)
    <3>1. Moves(t, "reading", "idle") BY <2>6, ActionMoves
    <3>2. /\ m_numActiveReaders' = m_numActiveReaders - 1
          /\ UNCHANGED <<m_numQueuedReaders, m_numQueuedWriters, m_numActiveWriters>>
      BY <2>6 DEF ReaderUnlock
    <3> QED BY <2>0, <3>1, <3>2, Sizes DEF CountersMatch
  <2>7. CASE WriterEnter(t)
    <3>1. Moves(t, "idle", "writing") BY <2>7, ActionMoves
    <3> QED BY <2>0, <2>7, <3>1, Sizes DEF CountersMatch, WriterEnter
  <2>8. CASE WriterQueue(t)
    <3>1. Moves(t, "idle", "writerAsleep") BY <2>8, ActionMoves
    <3> QED BY <2>0, <2>8, <3>1, Sizes DEF CountersMatch, WriterQueue
  <2>9. CASE WriterAcquire(t)
    <3>1. Moves(t, "writerAwake", "writing") BY <2>9, ActionMoves
    <3> QED BY <2>0, <2>9, <3>1, Sizes DEF CountersMatch, WriterAcquire
  <2>10. CASE WriterWaitAgain(t)
    <3>1. Moves(t, "writerAwake", "writerAsleep") BY <2>10, ActionMoves
    <3> QED BY <2>0, <2>10, <3>1, Sizes DEF CountersMatch, WriterWaitAgain, counters
  <2>11. CASE WriterTimeout(t)
    <3>1. Moves(t, "writerAwake", "idle") BY <2>11, ActionMoves
    <3> QED BY <2>0, <2>11, <3>1, Sizes DEF CountersMatch, WriterTimeout
  <2>12. CASE WriterUnlock(t)
    <3>1. Moves(t, "writing", "idle") BY <2>12, ActionMoves
    <3>2. /\ m_numActiveWriters' = m_numActiveWriters - 1
          /\ UNCHANGED <<m_numQueuedReaders, m_numQueuedWriters, m_numActiveReaders>>
      BY <2>12 DEF WriterUnlock
    <3> QED BY <2>0, <3>1, <3>2, Sizes DEF CountersMatch
  <2>13. CASE Expire(t) \/ SpuriousWakeup(t)
    <3>1. Wakes(t) /\ UNCHANGED counters
      BY <2>13 DEF Expire, SpuriousWakeup
    <3>2. CASE Moves(t, "readerAsleep", "readerAwake")
      BY <2>0, <3>1, <3>2, Sizes DEF CountersMatch, counters
    <3>3. CASE Moves(t, "writerAsleep", "writerAwake")
      BY <2>0, <3>1, <3>3, Sizes DEF CountersMatch, counters
    <3> QED BY <3>1, <3>2, <3>3, ActionMoves
  <2> QED
    BY <1>2, <2>1, <2>2, <2>3, <2>4, <2>5, <2>6, <2>7, <2>8, <2>9, <2>10,
       <2>11, <2>12, <2>13 DEF Call, Resume, Unlock
<1> QED BY <1>1, <1>2 DEF Next

\* The policy stays, ...
LEMMA PolicyStep == [Next]_vars => m_policy' = m_policy
BY DEF Next, vars, Call, Resume, Unlock, ReaderEnter, ReaderQueue, ReaderAcquire,
       ReaderWaitAgain, ReaderTimeout, ReaderUnlock, WriterEnter, WriterQueue,
       WriterAcquire, WriterWaitAgain, WriterTimeout, WriterUnlock, Expire,
       SpuriousWakeup

\* ... and the deadlines stay with threads that wait.
LEMMA PCStep ==
  ASSUME IInv, [Next]_vars
  PROVE  PCOK'
<1> USE PolicyStep DEF IInv, PCOK
<1>1. CASE UNCHANGED vars
  BY <1>1 DEF vars, At
<1>2. ASSUME NEW t \in Threads, Call(t) \/ Resume(t) \/ Unlock(t)
                                 \/ Expire(t) \/ SpuriousWakeup(t)
      PROVE  PCOK'
  <2>1. \A from, to : Moves(t, from, to) =>
            /\ pc' \in [Threads -> Places]
            /\ At(Waiting)' = IF to \in Waiting THEN At(Waiting) \cup {t}
                              ELSE At(Waiting) \ {t}
    BY DEF Moves, Woken, At, Waiting
  <2>2. CASE ReaderEnter(t) \/ WriterEnter(t)
    <3>1. Moves(t, "idle", "reading") \/ Moves(t, "idle", "writing")
      BY <2>2, ActionMoves
    <3>2. timed' = timed /\ t \notin At(Waiting)
      BY <2>2 DEF ReaderEnter, WriterEnter, At, Waiting
    <3> QED BY <2>1, <3>1, <3>2 DEF Waiting
  <2>3. CASE ReaderQueue(t) \/ WriterQueue(t)
    <3>1. Moves(t, "idle", "readerAsleep") \/ Moves(t, "idle", "writerAsleep")
      BY <2>3, ActionMoves
    <3>2. timed' \subseteq timed \cup {t}
      BY <2>3 DEF ReaderQueue, WriterQueue
    <3> QED BY <2>1, <3>1, <3>2 DEF Waiting
  <2>4. CASE ReaderAcquire(t) \/ WriterAcquire(t) \/ ReaderTimeout(t) \/ WriterTimeout(t)
    <3>1. \E from, to : Moves(t, from, to)
      BY <2>4, ActionMoves
    <3>2. timed' = timed \ {t}
      BY <2>4 DEF ReaderAcquire, WriterAcquire, ReaderTimeout, WriterTimeout
    <3> QED BY <2>1, <3>1, <3>2
  <2>5. CASE ReaderWaitAgain(t) \/ WriterWaitAgain(t)
    <3>1. Moves(t, "readerAwake", "readerAsleep") \/ Moves(t, "writerAwake", "writerAsleep")
      BY <2>5, ActionMoves
    <3>2. timed' = timed
      BY <2>5 DEF ReaderWaitAgain, WriterWaitAgain
    <3> QED BY <2>1, <3>1, <3>2 DEF Waiting
  <2>6. CASE Unlock(t)
    <3>1. Moves(t, "reading", "idle") \/ Moves(t, "writing", "idle")
      BY <2>6, ActionMoves DEF Unlock
    <3>2. timed' = timed /\ t \notin At(Waiting)
      BY <2>6 DEF Unlock, ReaderUnlock, WriterUnlock, At, Waiting
    <3> QED BY <2>1, <3>1, <3>2
  <2>7. CASE Expire(t) \/ SpuriousWakeup(t)
    <3>1. Moves(t, "readerAsleep", "readerAwake") \/ Moves(t, "writerAsleep", "writerAwake")
      BY <2>7, ActionMoves DEF Expire, SpuriousWakeup
    <3>2. timed' = timed
      BY <2>7 DEF Expire, SpuriousWakeup
    <3> QED BY <2>1, <3>1, <3>2 DEF Waiting
  <2> QED BY <1>2, <2>2, <2>3, <2>4, <2>5, <2>6, <2>7 DEF Call, Resume
<1> QED BY <1>1, <1>2 DEF Next

-----------------------------------------------------------------------------
(* The counters are as good as the sets: what the guards tell              *)

LEMMA GuardFacts ==
  ASSUME IInv
  PROVE  /\ ~shouldQueueReader => Lock!MayRead
         /\ ~shouldQueueWriter => Lock!MayWrite
<1>1. \A K \in Kinds : Cardinality(At(K)) \in Nat
                       /\ (~(Cardinality(At(K)) > 0) <=> At(K) = {})
  BY NobodyThere
<1> QED
  BY <1>1
  DEF IInv, PCOK, Policies, CountersMatch, shouldQueueReader, shouldQueueWriter,
      Lock!MayRead, Lock!MayWrite, Kinds

\* The four sets after a move.
LEMMA SetsAfter ==
  ASSUME IInv, NEW t \in Threads, NEW from, NEW to, Moves(t, from, to)
  PROVE  \A K \in Kinds :
           At(K)' = IF to \in K THEN At(K) \cup {t} ELSE At(K) \ {t}
BY MovesSets DEF IInv, PCOK

LEMMA ExclusionStep ==
  ASSUME IInv, [Next]_vars
  PROVE  MutualExclusion'
<1> USE DEF Kinds
<1>0. MutualExclusion
  BY DEF IInv
<1>H. At({"reading", "writing"}) = At({"reading"}) \cup At({"writing"})
  BY DEF At
<1>K. At({"reading", "writing"})' = At({"reading"})' \cup At({"writing"})'
  BY DEF At
<1>1. CASE UNCHANGED vars
  BY <1>0, <1>1 DEF MutualExclusion, vars, At
<1>2. ASSUME NEW t \in Threads, Call(t) \/ Resume(t) \/ Unlock(t)
                                 \/ Expire(t) \/ SpuriousWakeup(t)
      PROVE  MutualExclusion'
  <2>1. CASE ReaderEnter(t) \/ ReaderAcquire(t)
    <3>1. ~shouldQueueReader /\ \E from : Moves(t, from, "reading")
      BY <2>1, ActionMoves DEF ReaderEnter, ReaderAcquire
    <3>2. At({"writing"}) = {}
      BY <3>1, GuardFacts DEF Lock!MayRead
    <3>3. At({"writing"})' = {}
      BY <3>1, <3>2, SetsAfter
    <3> QED BY <3>3 DEF MutualExclusion
  <2>2. CASE WriterEnter(t) \/ WriterAcquire(t)
    <3>1. ~shouldQueueWriter /\ \E from : Moves(t, from, "writing")
      BY <2>2, ActionMoves DEF WriterEnter, WriterAcquire
    <3>2. At({"reading"}) = {} /\ At({"writing"}) = {}
      BY <3>1, GuardFacts DEF Lock!MayWrite
    <3>3. At({"reading"})' = {} /\ At({"writing"})' = {t}
      BY <3>1, <3>2, SetsAfter
    <3> QED BY <3>3, <1>K DEF MutualExclusion
  <2>3. CASE ~(\/ ReaderEnter(t) \/ ReaderAcquire(t)
               \/ WriterEnter(t) \/ WriterAcquire(t))
    <3>1. \E from \in Places, to \in Places \ {"reading", "writing"} : Moves(t, from, to)
      BY <1>2, <2>3, ActionMoves
      DEF Call, Resume, Unlock, Expire, SpuriousWakeup, Places
    <3>2. /\ At({"reading"})' = At({"reading"}) \ {t}
          /\ At({"writing"})' = At({"writing"}) \ {t}
      BY <3>1, SetsAfter
    <3> QED BY <1>0, <1>H, <1>K, <3>2 DEF MutualExclusion
  <2> QED BY <2>1, <2>2, <2>3
<1> QED BY <1>1, <1>2 DEF Next

LEMMA InvStep == IInv /\ [Next]_vars => IInv'
BY CountersStep, PCStep, ExclusionStep DEF IInv

LEMMA InvHolds == Spec => []IInv
<1>1. Init => IInv
  BY InitInv
<1> QED BY <1>1, InvStep, PTL DEF Spec

\* Every variable always has its type, and no counter becomes negative.
THEOREM TypeCorrect == Spec => []TypeOK
<1>1. IInv => TypeOK
  BY NobodyThere DEF IInv, PCOK, CountersMatch, TypeOK
<1> QED BY <1>1, InvHolds, PTL

\* The counters always agree with what the threads hold and wait for.
THEOREM CountersCorrect == Spec => []CountersMatch
<1>1. IInv => CountersMatch
  BY DEF IInv
<1> QED BY <1>1, InvHolds, PTL

\* A writer never shares the lock.
THEOREM ExclusionHolds == Spec => []MutualExclusion
<1>1. IInv => MutualExclusion
  BY DEF IInv
<1> QED BY <1>1, InvHolds, PTL

-----------------------------------------------------------------------------
(* The refinement                                                          *)

LEMMA InitRefines == Init => Lock!Init
BY DEF Init, Lock!Init, At, Policies

\* A move takes t out of the set of its old place and into that of its new
\* one, and leaves the other two sets alone.
LEMMA MoveOfSets ==
  ASSUME IInv, NEW t \in Threads, NEW from, NEW to, Moves(t, from, to),
         NEW K \in Kinds
  PROVE  /\ t \in At(K) <=> from \in K
         /\ to \in K => At(K)' = At(K) \cup {t}
         /\ to \notin K => At(K)' = At(K) \ {t}
         /\ (to \in K <=> from \in K) => At(K)' = At(K)
<1>1. t \in At(K) <=> from \in K
  BY DEF Moves, At
<1>2. At(K)' = IF to \in K THEN At(K) \cup {t} ELSE At(K) \ {t}
  BY SetsAfter
<1> QED BY <1>1, <1>2

\* The same, set by set.
LEMMA MoveOfEach ==
  ASSUME IInv, NEW t \in Threads, NEW from, NEW to, Moves(t, from, to)
  PROVE  LET Fact(K) == /\ t \in At(K) <=> from \in K
                        /\ to \in K => At(K)' = At(K) \cup {t}
                        /\ to \notin K => At(K)' = At(K) \ {t}
                        /\ (to \in K <=> from \in K) => At(K)' = At(K)
         IN  /\ Fact({"reading"}) /\ Fact({"writing"})
             /\ Fact({"readerAsleep", "readerAwake"})
             /\ Fact({"writerAsleep", "writerAwake"})
BY MoveOfSets DEF Kinds

LEMMA StepRefines ==
  ASSUME IInv, [Next]_vars
  PROVE  [Lock!Next]_(Lock!vars)
<1>0. m_policy' = m_policy
  BY PolicyStep
<1>1. CASE UNCHANGED vars
  BY <1>0, <1>1 DEF vars, At, Lock!vars
<1>2. ASSUME NEW t \in Threads, Call(t) \/ Resume(t) \/ Unlock(t)
                                 \/ Expire(t) \/ SpuriousWakeup(t)
      PROVE  [Lock!Next]_(Lock!vars)
  <2>1. CASE ReaderEnter(t) \/ ReaderAcquire(t)
    <3>1. /\ Lock!MayRead
          /\ Moves(t, "idle", "reading") \/ Moves(t, "readerAwake", "reading")
      BY <2>1, ActionMoves, GuardFacts DEF ReaderEnter, ReaderAcquire
    <3>2. Lock!Read(t)
      BY <1>0, <3>1, MoveOfEach DEF Lock!Read
    <3> QED BY <3>2 DEF Lock!Next
  <2>2. CASE WriterEnter(t) \/ WriterAcquire(t)
    <3>1. /\ Lock!MayWrite
          /\ Moves(t, "idle", "writing") \/ Moves(t, "writerAwake", "writing")
      BY <2>2, ActionMoves, GuardFacts DEF WriterEnter, WriterAcquire
    <3>2. Lock!Write(t)
      BY <1>0, <3>1, MoveOfEach DEF Lock!Write
    <3> QED BY <3>2 DEF Lock!Next
  <2>3. CASE ReaderQueue(t)
    <3>1. Moves(t, "idle", "readerAsleep")
      BY <2>3, ActionMoves
    <3>2. Lock!AskRead(t)
      BY <1>0, <3>1, MoveOfEach DEF Lock!AskRead, Lock!Busy
    <3> QED BY <3>2 DEF Lock!Next
  <2>4. CASE WriterQueue(t)
    <3>1. Moves(t, "idle", "writerAsleep")
      BY <2>4, ActionMoves
    <3>2. Lock!AskWrite(t)
      BY <1>0, <3>1, MoveOfEach DEF Lock!AskWrite, Lock!Busy
    <3> QED BY <3>2 DEF Lock!Next
  <2>5. CASE ReaderTimeout(t) \/ WriterTimeout(t)
    <3>1. Moves(t, "readerAwake", "idle") \/ Moves(t, "writerAwake", "idle")
      BY <2>5, ActionMoves
    <3>2. Lock!GiveUp(t)
      BY <1>0, <3>1, MoveOfEach DEF Lock!GiveUp
    <3> QED BY <3>2 DEF Lock!Next
  <2>6. CASE Unlock(t)
    <3>1. Moves(t, "reading", "idle") \/ Moves(t, "writing", "idle")
      BY <2>6, ActionMoves DEF Unlock
    <3>2. Lock!Release(t)
      BY <1>0, <3>1, MoveOfEach DEF Lock!Release
    <3> QED BY <3>2 DEF Lock!Next
  <2>7. CASE \/ ReaderWaitAgain(t) \/ WriterWaitAgain(t)
             \/ Expire(t) \/ SpuriousWakeup(t)
    <3>1. \/ Moves(t, "readerAwake", "readerAsleep")
          \/ Moves(t, "writerAwake", "writerAsleep")
          \/ Moves(t, "readerAsleep", "readerAwake")
          \/ Moves(t, "writerAsleep", "writerAwake")
      BY <2>7, ActionMoves DEF Expire, SpuriousWakeup
    <3>2. UNCHANGED Lock!vars
      BY <1>0, <3>1, MoveOfEach DEF Lock!vars
    <3> QED BY <3>2
  <2> QED BY <1>2, <2>1, <2>2, <2>3, <2>4, <2>5, <2>6, <2>7 DEF Call, Resume
<1> QED BY <1>1, <1>2 DEF Next

\* The mutex implements the abstract lock: no step of any method, no wakeup
\* and no timeout does to holders and waiters what the lock's policy forbids.
THEOREM RWMutexImplementsLock == Spec => ImplementsLock
<1>1. Init => Lock!Init
  BY InitRefines
<1>2. IInv /\ [Next]_vars => [Lock!Next]_(Lock!vars)
  BY StepRefines
<1> QED BY <1>1, <1>2, InvHolds, PTL DEF Spec, ImplementsLock, Lock!Spec

-----------------------------------------------------------------------------
(* Nobody waits for a wakeup that does not come                            *)

\* Deadlines on write locks are a hazard under PREFER_WRITERS only: a writer that
\* gives up tells nobody of it, although readers may be queued behind it.
DeadlinesHarmless == m_policy = "PREFER_WRITERS" => TimedWriters["PREFER_WRITERS"] = {}

Readers == {"readerAsleep", "readerAwake"}
Writers == {"writerAsleep", "writerAwake"}

\* Whom a sleeper counts on: readers wait for writers only, and under PREFER_READERS
\* only for the one that writes; the others look after a sleeping writer, or that is
\* awake already.
ReaderMinded ==
  At({"readerAsleep"}) # {} =>
    \/ At({"writing"}) # {}
    \/ m_policy = "PREFER_WRITERS" /\ At(Writers) # {}
WriterMinded ==
  At({"writerAsleep"}) # {} =>
    \/ At({"reading"}) # {} \/ At({"writing"}) # {} \/ At({"writerAwake"}) # {}
    \/ m_policy = "PREFER_READERS" /\ At(Readers) # {}
WritersPatient == m_policy = "PREFER_WRITERS" => timed \cap At(Writers) = {}

Minded == ReaderMinded /\ WriterMinded /\ WritersPatient

\* What the counters and the guards that send a thread to sleep tell of the threads.
LEMMA CounterFacts ==
  ASSUME IInv
  PROVE  /\ m_numQueuedReaders > 0 <=> At(Readers) # {}
         /\ m_numQueuedWriters > 0 <=> At(Writers) # {}
         /\ m_numActiveReaders > 0 <=> At({"reading"}) # {}
         /\ m_numActiveWriters > 0 <=> At({"writing"}) # {}
         /\ m_numActiveReaders \in Nat /\ m_numActiveWriters \in Nat
BY NobodyThere DEF IInv, CountersMatch, Readers, Writers

LEMMA SleepFacts ==
  ASSUME IInv
  PROVE  /\ shouldQueueReader =>
              \/ At({"writing"}) # {}
              \/ m_policy = "PREFER_WRITERS" /\ At(Writers) # {}
         /\ shouldQueueWriter =>
              \/ At({"reading"}) # {} \/ At({"writing"}) # {}
              \/ m_policy = "PREFER_READERS" /\ At(Readers) # {}
BY CounterFacts DEF shouldQueueReader, shouldQueueWriter

\* A move empties no place but the one it starts from, and the one it wakes.
LEMMA PlaceAfter ==
  ASSUME IInv, NEW t \in Threads, NEW from, NEW to, Moves(t, from, to)
  PROVE  /\ \A K \in {{"reading"}, {"writing"}, Readers, Writers} :
              /\ to \in K => At(K)' # {}
              /\ from \notin K /\ At(K) # {} => At(K)' # {}
         /\ \A p \in {"readerAsleep", "writerAsleep"} :
              to # p => At({p})' \subseteq At({p})
         /\ \A p \in {"readerAwake", "writerAwake"} :
              from # p /\ At({p}) # {} => At({p})' # {}
<1>1. pc \in [Threads -> Places] /\ pc[t] = from /\ pc'[t] = to
      /\ \A u \in Threads \ {t} : Woken(u)
  BY DEF IInv, PCOK, Moves
<1>2. \A K \in {{"reading"}, {"writing"}, Readers, Writers} :
        \A u \in Threads \ {t} : pc[u] \in K => pc'[u] \in K
  BY <1>1 DEF Woken, Readers, Writers
<1>3. \A p \in {"readerAsleep", "writerAsleep"} : \A u \in Threads \ {t} :
        pc'[u] = p => pc[u] = p
  BY <1>1 DEF Woken
<1>4. \A p \in {"readerAwake", "writerAwake"} : \A u \in Threads \ {t} :
        pc[u] = p => pc'[u] = p
  BY <1>1 DEF Woken
<1> QED BY <1>1, <1>2, <1>3, <1>4 DEF At

\* notify() wakes a writer if one sleeps.
LEMMA WriterWoken ==
  ASSUME IInv, NEW t \in Threads, pc[t] \in {"reading", "writing"}, NotifyWriter(t),
         At(Writers) # {}
  PROVE  At({"writerAwake"})' # {}
<1>1. pc \in [Threads -> Places]
  BY DEF IInv, PCOK
<1>2. CASE At({"writerAsleep"}) = {}
  <2>1. PICK w \in Threads : pc[w] = "writerAwake"
    BY <1>2 DEF At, Writers
  <2>2. pc'[w] = "writerAwake"
    BY <1>1, <1>2, <2>1 DEF NotifyWriter, MoveAndNotify, Move
  <2> QED BY <2>2 DEF At
<1>3. CASE At({"writerAsleep"}) # {}
  <2>1. PICK w \in At({"writerAsleep"}) :
              pc' = [pc EXCEPT ![t] = "idle", ![w] = "writerAwake"]
    BY <1>3 DEF NotifyWriter, MoveAndNotify
  <2>2. w \in Threads /\ pc'[w] = "writerAwake"
    BY <1>1, <2>1 DEF At
  <2> QED BY <2>2 DEF At
<1> QED BY <1>2, <1>3

\* notifyAll() leaves no reader asleep.
LEMMA ReadersWoken ==
  ASSUME NEW t \in Threads, NotifyReaders(t)
  PROVE  At({"readerAsleep"})' = {}
BY DEF NotifyReaders, MoveAndNotifyAll, At

\* The last reader hands over to a writer; another one still reads otherwise.
LEMMA ReaderLeaves ==
  ASSUME IInv, NEW t \in Threads, ReaderUnlock(t)
  PROVE  At({"reading"})' # {} \/ At({"writerAwake"})' # {} \/ At(Writers) = {}
<1>1. pc[t] = "reading" /\ Moves(t, "reading", "idle")
  BY ActionMoves DEF ReaderUnlock
<1>2. CASE m_numActiveReaders - 1 < 1 /\ m_numQueuedWriters > 0
  <2>1. NotifyWriter(t)
    BY <1>2 DEF ReaderUnlock, NotifyWriter
  <2> QED BY <1>1, <1>2, <2>1, CounterFacts, WriterWoken
<1>3. CASE ~(m_numActiveReaders - 1 < 1)
  <2>1. Cardinality(At({"reading"})') = m_numActiveReaders - 1
    BY <1>1, Sizes DEF Kinds, IInv, CountersMatch
  <2>2. m_numActiveReaders - 1 # 0
    BY <1>3, CounterFacts
  <2> QED BY <2>1, <2>2, FS_EmptySet
<1>4. CASE ~(m_numQueuedWriters > 0)
  BY <1>4, CounterFacts
<1> QED BY <1>2, <1>3, <1>4

\* A writer that leaves wakes whom its policy names.
LEMMA WriterLeaves ==
  ASSUME IInv, NEW t \in Threads, WriterUnlock(t)
  PROVE  /\ \/ At({"readerAsleep"})' = {}
            \/ m_policy = "PREFER_WRITERS" /\ At(Writers) # {}
         /\ \/ At({"writerAwake"})' # {} \/ At(Writers) = {}
            \/ m_policy = "PREFER_READERS" /\ At(Readers) # {}
<1>1. pc[t] = "writing" /\ Moves(t, "writing", "idle")
  BY ActionMoves DEF WriterUnlock
<1>2. m_numActiveWriters - 1 < 1
  <2>1. t \in At({"writing"}) /\ t \in At({"reading", "writing"})
    BY <1>1 DEF At
  <2>2. At({"reading", "writing"}) = {t}
    BY <2>1 DEF IInv, MutualExclusion
  <2>3. At({"writing"}) = {t}
    BY <2>1, <2>2 DEF At
  <2>4. Cardinality({t}) = 1
    BY FS_Singleton
  <2> QED BY <2>3, <2>4 DEF IInv, CountersMatch
<1>3. WakeByPolicy(t)
  BY <1>2 DEF WriterUnlock
<1>4. At({"readerAsleep"}) \subseteq At(Readers)
  BY DEF At, Readers
<1>5. At({"readerAsleep"})' \subseteq At({"readerAsleep"})
  BY <1>1, PlaceAfter
<1>6. m_policy \in Policies
  BY DEF IInv, PCOK
<1>7. CASE m_policy = "PREFER_WRITERS"
  <2>1. CASE m_numQueuedWriters > 0
    <3>1. NotifyWriter(t) /\ At(Writers) # {}
      BY <1>3, <1>7, <2>1, CounterFacts DEF WakeByPolicy
    <3> QED BY <1>1, <1>7, <3>1, WriterWoken
  <2>2. CASE ~(m_numQueuedWriters > 0) /\ m_numQueuedReaders > 0
    <3>1. NotifyReaders(t) /\ At(Writers) = {}
      BY <1>3, <1>7, <2>2, CounterFacts DEF WakeByPolicy
    <3> QED BY <3>1, ReadersWoken
  <2>3. CASE ~(m_numQueuedWriters > 0) /\ ~(m_numQueuedReaders > 0)
    BY <1>4, <1>5, <2>3, CounterFacts
  <2> QED BY <2>1, <2>2, <2>3
<1>8. CASE m_policy = "PREFER_READERS"
  <2>1. CASE m_numQueuedReaders > 0
    <3>1. NotifyReaders(t) /\ At(Readers) # {}
      BY <1>3, <1>8, <2>1, CounterFacts DEF WakeByPolicy
    <3> QED BY <1>8, <3>1, ReadersWoken
  <2>2. CASE ~(m_numQueuedReaders > 0) /\ m_numQueuedWriters > 0
    <3>1. NotifyWriter(t) /\ At(Writers) # {} /\ At(Readers) = {}
      BY <1>3, <1>8, <2>2, CounterFacts DEF WakeByPolicy
    <3> QED BY <1>1, <1>4, <1>5, <3>1, WriterWoken
  <2>3. CASE ~(m_numQueuedReaders > 0) /\ ~(m_numQueuedWriters > 0)
    BY <1>4, <1>5, <2>3, CounterFacts
  <2> QED BY <2>1, <2>2, <2>3
<1> QED BY <1>6, <1>7, <1>8 DEF Policies

\* While it waits without a deadline, a writer does not leave the queue but for the lock.
LEMMA PatientStep ==
  ASSUME IInv, WritersPatient, DeadlinesHarmless, [Next]_vars
  PROVE  WritersPatient'
<1> SUFFICES ASSUME m_policy = "PREFER_WRITERS" PROVE (timed \cap At(Writers) = {})'
  BY PolicyStep DEF WritersPatient
<1>0. /\ timed \cap At(Writers) = {} /\ TimedWriters[m_policy] = {}
      /\ timed \subseteq At(Waiting)
  BY DEF WritersPatient, DeadlinesHarmless, IInv, PCOK
<1>1. CASE UNCHANGED vars
  BY <1>0, <1>1 DEF vars, At
<1>2. ASSUME NEW t \in Threads, Call(t) \/ Resume(t) \/ Unlock(t)
                                 \/ Expire(t) \/ SpuriousWakeup(t)
      PROVE  (timed \cap At(Writers) = {})'
  <2>1. \A from, to : Moves(t, from, to) =>
            At(Writers)' = IF to \in Writers THEN At(Writers) \cup {t} ELSE At(Writers) \ {t}
    BY SetsAfter DEF Kinds, Writers
  <2>2. CASE WriterQueue(t)
    <3>1. timed' = timed /\ pc[t] = "idle"
      BY <1>0, <2>2 DEF WriterQueue
    <3>2. t \notin timed
      BY <1>0, <3>1 DEF At, Waiting
    <3>3. Moves(t, "idle", "writerAsleep")
      BY <2>2, ActionMoves
    <3> QED BY <1>0, <2>1, <3>1, <3>2, <3>3
  <2>3. CASE ReaderQueue(t)
    <3>1. timed' \subseteq timed \cup {t} /\ Moves(t, "idle", "readerAsleep")
      BY <2>3, ActionMoves DEF ReaderQueue
    <3> QED BY <1>0, <2>1, <3>1 DEF Writers
  <2>4. CASE \/ ReaderEnter(t) \/ ReaderAcquire(t) \/ ReaderTimeout(t) \/ ReaderWaitAgain(t)
             \/ WriterEnter(t) \/ WriterAcquire(t) \/ WriterTimeout(t) \/ Unlock(t)
    <3>1. timed' \subseteq timed
      BY <2>4 DEF ReaderEnter, ReaderAcquire, ReaderTimeout, ReaderWaitAgain, WriterEnter,
                  WriterAcquire, WriterTimeout, Unlock, ReaderUnlock, WriterUnlock
    <3>2. \E from, to : Moves(t, from, to) /\ to \notin Writers
      BY <2>4, ActionMoves DEF Unlock, Writers
    <3> QED BY <1>0, <2>1, <3>1, <3>2
  <2>5. CASE WriterWaitAgain(t) \/ Expire(t) \/ SpuriousWakeup(t)
    <3>1. timed' = timed
      BY <2>5 DEF WriterWaitAgain, Expire, SpuriousWakeup
    <3>2. \E from, to : Moves(t, from, to) /\ (to \in Writers => from \in Writers)
      BY <2>5, ActionMoves DEF Expire, SpuriousWakeup, Writers
    <3>3. \A from, to : Moves(t, from, to) => (t \in At(Writers) <=> from \in Writers)
      BY DEF Moves, At
    <3> QED BY <1>0, <2>1, <3>1, <3>2, <3>3
  <2> QED BY <1>2, <2>2, <2>3, <2>4, <2>5 DEF Call, Resume
<1> QED BY <1>1, <1>2 DEF Next

LEMMA MindedStep ==
  ASSUME IInv, Minded, DeadlinesHarmless, [Next]_vars
  PROVE  Minded'
<1> USE PolicyStep DEF Minded
<1>0. WritersPatient'
  BY PatientStep
<1>1. CASE UNCHANGED vars
  BY <1>0, <1>1 DEF vars, At, ReaderMinded, WriterMinded
<1>2. ASSUME NEW t \in Threads, Call(t) \/ Resume(t) \/ Unlock(t)
                                 \/ Expire(t) \/ SpuriousWakeup(t)
      PROVE  ReaderMinded' /\ WriterMinded'
  <2>A. \A from, to : Moves(t, from, to) =>
         /\ \A K \in {{"reading"}, {"writing"}, Readers, Writers} :
              /\ to \in K => At(K)' # {}
              /\ from \notin K /\ At(K) # {} => At(K)' # {}
         /\ \A p \in {"readerAsleep", "writerAsleep"} :
              to # p => At({p})' \subseteq At({p})
         /\ \A p \in {"readerAwake", "writerAwake"} :
              from # p /\ At({p}) # {} => At({p})' # {}
    BY PlaceAfter
  <2>B. \A from, to : Moves(t, from, to) => pc[t] = from
    BY DEF Moves
  <2>1. CASE ReaderEnter(t) \/ ReaderAcquire(t)
    <3>1. ~shouldQueueReader /\ \E from \in {"idle", "readerAwake"} : Moves(t, from, "reading")
      BY <2>1, ActionMoves DEF ReaderEnter, ReaderAcquire
    <3>2. At({"reading"})' # {} /\ At({"readerAsleep"})' \subseteq At({"readerAsleep"})
      BY <2>A, <3>1
    <3>3. At({"writing"}) # {} => At({"writing"})' # {}
      BY <2>A, <3>1
    <3>4. At(Writers) # {} => At(Writers)' # {}
      BY <2>A, <3>1 DEF Writers
    <3> QED BY <3>2, <3>3, <3>4 DEF ReaderMinded, WriterMinded
  <2>2. CASE ReaderQueue(t) \/ ReaderWaitAgain(t)
    <3>1. shouldQueueReader /\ \E from \in {"idle", "readerAwake"} : Moves(t, from, "readerAsleep")
      BY <2>2, ActionMoves DEF ReaderQueue, ReaderWaitAgain
    <3>2. /\ At({"writing"}) # {} => At({"writing"})' # {}
          /\ At({"reading"}) # {} => At({"reading"})' # {}
          /\ At(Writers) # {} => At(Writers)' # {}
          /\ At(Readers)' # {}
          /\ At({"writerAwake"}) # {} => At({"writerAwake"})' # {}
          /\ At({"writerAsleep"})' \subseteq At({"writerAsleep"})
      BY <2>A, <3>1 DEF Writers, Readers
    <3> QED BY <3>1, <3>2, SleepFacts DEF ReaderMinded, WriterMinded
  <2>3. CASE ReaderTimeout(t)
    <3>1. shouldQueueReader /\ Moves(t, "readerAwake", "idle")
      BY <2>3, ActionMoves DEF ReaderTimeout
    <3>2. /\ At({"writing"}) # {} => At({"writing"})' # {}
          /\ At({"reading"}) # {} => At({"reading"})' # {}
          /\ At(Writers) # {} => At(Writers)' # {}
          /\ At({"writerAwake"}) # {} => At({"writerAwake"})' # {}
          /\ At({"writerAsleep"})' \subseteq At({"writerAsleep"})
          /\ At({"readerAsleep"})' \subseteq At({"readerAsleep"})
      BY <2>A, <3>1 DEF Writers, Readers
    <3> QED BY <3>1, <3>2, SleepFacts DEF ReaderMinded, WriterMinded, Policies
  <2>4. CASE ReaderUnlock(t)
    <3>1. Moves(t, "reading", "idle")
      BY <2>4, ActionMoves
    <3>2. /\ At({"writing"}) # {} => At({"writing"})' # {}
          /\ At(Writers) # {} => At(Writers)' # {}
          /\ At({"writerAsleep"})' \subseteq At({"writerAsleep"})
          /\ At({"readerAsleep"})' \subseteq At({"readerAsleep"})
      BY <2>A, <3>1 DEF Writers, Readers
    <3>3. At({"writerAsleep"}) \subseteq At(Writers)
      BY DEF At, Writers
    <3> QED BY <2>4, <3>2, <3>3, ReaderLeaves DEF ReaderMinded, WriterMinded
  <2>5. CASE WriterEnter(t) \/ WriterAcquire(t)
    <3>1. \E from : Moves(t, from, "writing")
      BY <2>5, ActionMoves
    <3>2. At({"writing"})' # {}
      BY <2>A, <3>1
    <3> QED BY <3>2 DEF ReaderMinded, WriterMinded
  <2>6. CASE WriterQueue(t) \/ WriterWaitAgain(t)
    <3>1. shouldQueueWriter /\ \E from \in {"idle", "writerAwake"} : Moves(t, from, "writerAsleep")
      BY <2>6, ActionMoves DEF WriterQueue, WriterWaitAgain
    <3>2. /\ At({"writing"}) # {} => At({"writing"})' # {}
          /\ At({"reading"}) # {} => At({"reading"})' # {}
          /\ At(Writers)' # {}
          /\ At(Readers) # {} => At(Readers)' # {}
          /\ At({"readerAsleep"})' \subseteq At({"readerAsleep"})
      BY <2>A, <3>1 DEF Writers, Readers
    <3> QED BY <3>1, <3>2, SleepFacts DEF ReaderMinded, WriterMinded
  <2>7. CASE WriterTimeout(t)
    <3>1. /\ shouldQueueWriter /\ Moves(t, "writerAwake", "idle")
          /\ t \in timed /\ t \in At(Writers)
      BY <2>7, ActionMoves DEF WriterTimeout, At, Writers
    <3>2. m_policy # "PREFER_WRITERS"
      BY <3>1 DEF WritersPatient
    <3>3. /\ At({"writing"}) # {} => At({"writing"})' # {}
          /\ At({"reading"}) # {} => At({"reading"})' # {}
          /\ At(Readers) # {} => At(Readers)' # {}
          /\ At({"readerAsleep"})' \subseteq At({"readerAsleep"})
      BY <2>A, <3>1 DEF Readers
    <3> QED BY <3>1, <3>2, <3>3, SleepFacts DEF ReaderMinded, WriterMinded
  <2>8. CASE WriterUnlock(t)
    <3>1. Moves(t, "writing", "idle")
      BY <2>8, ActionMoves
    <3>2. /\ At({"reading"}) # {} => At({"reading"})' # {}
          /\ At(Writers) # {} => At(Writers)' # {}
          /\ At(Readers) # {} => At(Readers)' # {}
          /\ At({"writerAsleep"})' \subseteq At({"writerAsleep"})
      BY <2>A, <3>1 DEF Writers, Readers
    <3>3. At({"writerAsleep"}) \subseteq At(Writers)
      BY DEF At, Writers
    <3> QED BY <2>8, <3>2, <3>3, WriterLeaves DEF ReaderMinded, WriterMinded
  <2>9. CASE Expire(t) \/ SpuriousWakeup(t)
    <3>1. Moves(t, "readerAsleep", "readerAwake") \/ Moves(t, "writerAsleep", "writerAwake")
      BY <2>9, ActionMoves DEF Expire, SpuriousWakeup
    <3>2. /\ At({"writing"}) # {} => At({"writing"})' # {}
          /\ At({"reading"}) # {} => At({"reading"})' # {}
          /\ At(Writers) # {} => At(Writers)' # {}
          /\ At(Readers) # {} => At(Readers)' # {}
          /\ At({"writerAwake"}) # {} => At({"writerAwake"})' # {}
          /\ At({"writerAsleep"})' \subseteq At({"writerAsleep"})
          /\ At({"readerAsleep"})' \subseteq At({"readerAsleep"})
      BY <2>A, <3>1 DEF Writers, Readers
    <3> QED BY <3>2 DEF ReaderMinded, WriterMinded
  <2> QED
    BY <1>2, <2>1, <2>2, <2>3, <2>4, <2>5, <2>6, <2>7, <2>8, <2>9 DEF Call, Resume, Unlock
<1> QED BY <1>0, <1>1, <1>2 DEF Next

\* No wakeup is lost, and no reader sleeps when there is no writer to wait for
\* (rwmutex.d:61): with PREFER_READERS whoever uses deadlines, and with PREFER_WRITERS
\* if no write lock has one.
THEOREM WaitersAlerted == Spec => [](DeadlinesHarmless => WaitersInv)
<1> DEFINE Inv == DeadlinesHarmless => Minded
<1>1. Init => Inv
  <2>1. Init => \A P : "idle" \notin P => At(P) = {}
    BY DEF Init, At
  <2>2. Init => timed = {}
    BY DEF Init
  <2> QED BY <2>1, <2>2 DEF Minded, ReaderMinded, WriterMinded, WritersPatient
<1>2. IInv /\ Inv /\ [Next]_vars => Inv'
  BY MindedStep, PolicyStep DEF DeadlinesHarmless
<1>3. IInv /\ Inv => (DeadlinesHarmless => WaitersInv)
  <2> SUFFICES ASSUME IInv, Minded PROVE WaitersInv
    OBVIOUS
  <2> USE DEF Minded, ReaderMinded, WriterMinded
  <2>1. NoStrandedWaiter
    BY DEF NoStrandedWaiter, At, Readers, Writers, IInv, PCOK, Policies
  <2>2. QueuedReadersAlerted
    BY DEF QueuedReadersAlerted, At, Writers
  <2> QED BY <2>1, <2>2 DEF WaitersInv
<1> QED BY <1>1, <1>2, <1>3, InvHolds, PTL DEF Spec

-----------------------------------------------------------------------------
(* Links                                                                   *)

Alive(t) == life[t] \in {"started", "running"}
Box(t) == ToSet(localBox[t]) \cup ToSet(sharedBox[t])

\* What Concerns is made of: threads that t has spawned, and the one that spawned it.
Child(t, u) == u \in DOMAIN links[t] \/ u = fresh[t].tid
Above(t, u) == u = owner[t] \/ (life[t] = "started" /\ u = parent[t])

-----------------------------------------------------------------------------
(* The inductive invariant                                                 *)

\* A notice comes from a thread that has closed its mailbox.
NoticesReal == \A t, u \in Tids : u \in Box(t) => Closed(u)

FamilyRight ==
  /\ \A t, u \in Tids : Child(t, u) => parent[u] = t /\ life[u] # "unborn"
  /\ \A t \in Tids : parent[t] \in Tids =>
       /\ life[t] # "unborn" /\ life[parent[t]] \notin {"unborn", "started"}
       /\ parent[parent[t]] # t
  /\ \A t \in Tids : fresh[t] # NoFresh => life[t] = "running"

\* A thread has its parent for its owner until it knows of the parent's end.
OwnerRight ==
  \A t \in Tids :
    /\ owner[t] \in {parent[t], TidInit}
    /\ life[t] \in {"unborn", "started"} => owner[t] = TidInit
    /\ \A u \in Tids :
         (parent[t] = u /\ life[t] \notin {"unborn", "started"} /\ owner[t] # u) => Closed(u)

\* Whoever has an owner is known to it, is going to be told, or has been.
OwnerKnows ==
  \A t, u \in Tids : (Alive(t) /\ Above(t, u)) =>
    /\ life[u] = "running" => Child(u, t)
    /\ life[u] = "closed" => t \in telling[u] \/ u \in Box(t)

Due == \A t, u \in Tids :
         (Alive(t) /\ life[u] \in {"unregistering", "dead"} /\ (Child(t, u) \/ Above(t, u)))
           => u \in Box(t)

\* What a thread has been told of is no concern of it any more.
ToldPast ==
  \A t, u \in Tids : \A i \in DOMAIN told[t] : told[t][i].tid = u =>
    /\ Closed(u) /\ life[t] \notin {"unborn", "started"}
    /\ ~Child(t, u) /\ u # owner[t]
    /\ told[t][i].kind = IF parent[t] = u THEN "OwnerTerminated" ELSE "LinkTerminated"
    /\ told[t][i].kind = "LinkTerminated" => parent[u] = t

ToldApart ==
  \A t \in Tids : \A i, j \in DOMAIN told[t] : told[t][i].tid = told[t][j].tid => i = j

\* Between the two steps of register() the lock of the registry keeps the
\* thread from leaving it.
EntryOpen == entry # NoEntry => tidByName[entry.name] = TidInit /\ life[entry.tid] # "dead"

FamilyInv == NoticesReal /\ FamilyRight /\ OwnerRight /\ OwnerKnows /\ Due /\ ToldPast /\ ToldApart
NamesInv == NoStaleName /\ EntryOpen
LinkInd == LinksTypeOK /\ FamilyInv /\ NamesInv

-----------------------------------------------------------------------------
(* Sequences as the sets of what is in them                                *)

LEMMA SetOfConcat ==
  ASSUME NEW S, NEW s \in Seq(S), NEW r \in Seq(S)
  PROVE  s \o r \in Seq(S) /\ ToSet(s \o r) = ToSet(s) \cup ToSet(r)
<1>1. s \o r \in Seq(S) /\ Len(s \o r) = Len(s) + Len(r)
  BY ConcatProperties
<1>2. \A i \in 1 .. Len(s) : (s \o r)[i] = s[i]
  BY ConcatProperties
<1>3. \A i \in 1 .. Len(r) : (s \o r)[Len(s) + i] = r[i]
  <2> TAKE i \in 1 .. Len(r)
  <2>1. Len(s) \in Nat /\ Len(r) \in Nat
    BY LenProperties
  <2>2. Len(s) + i \in 1 .. Len(s) + Len(r) /\ Len(s) + i > Len(s) /\ (Len(s) + i) - Len(s) = i
    BY <2>1
  <2> QED BY <2>2, ConcatProperties
<1>4. DOMAIN s = 1 .. Len(s) /\ DOMAIN r = 1 .. Len(r) /\ DOMAIN (s \o r) = 1 .. Len(s) + Len(r)
      /\ Len(s) \in Nat /\ Len(r) \in Nat
  BY <1>1, LenProperties
<1>5. ASSUME NEW x \in ToSet(s \o r) PROVE x \in ToSet(s) \cup ToSet(r)
  <2>1. PICK i \in 1 .. Len(s) + Len(r) : x = (s \o r)[i]
    BY <1>4 DEF ToSet
  <2>2. CASE i <= Len(s)
    BY <1>2, <1>4, <2>1, <2>2 DEF ToSet
  <2>3. CASE i > Len(s)
    <3>1. i - Len(s) \in 1 .. Len(r) /\ Len(s) + (i - Len(s)) = i
      BY <1>4, <2>3
    <3> QED BY <1>3, <1>4, <2>1, <3>1 DEF ToSet
  <2> QED BY <1>4, <2>2, <2>3
<1>6. ToSet(s) \subseteq ToSet(s \o r)
  <2>1. \A i \in 1 .. Len(s) : i \in 1 .. Len(s) + Len(r)
    BY <1>4
  <2> QED BY <1>2, <1>4, <2>1 DEF ToSet
<1>7. ToSet(r) \subseteq ToSet(s \o r)
  <2>1. \A i \in 1 .. Len(r) : Len(s) + i \in 1 .. Len(s) + Len(r)
    BY <1>4
  <2> QED BY <1>3, <1>4, <2>1 DEF ToSet
<1> QED BY <1>1, <1>5, <1>6, <1>7

LEMMA SetOfAppend ==
  ASSUME NEW S, NEW s \in Seq(S), NEW e \in S
  PROVE  Append(s, e) \in Seq(S) /\ ToSet(Append(s, e)) = ToSet(s) \cup {e}
<1>1. /\ Append(s, e) \in Seq(S) /\ Len(Append(s, e)) = Len(s) + 1 /\ Len(s) \in Nat
      /\ \A i \in 1 .. Len(s) : Append(s, e)[i] = s[i]
      /\ Append(s, e)[Len(s) + 1] = e
  BY AppendProperties, LenProperties
<1>2. DOMAIN s = 1 .. Len(s) /\ DOMAIN Append(s, e) = 1 .. Len(s) + 1
  BY <1>1, LenProperties
<1>3. 1 .. Len(s) + 1 = (1 .. Len(s)) \cup {Len(s) + 1}
  BY <1>1
<1> QED BY <1>1, <1>2, <1>3 DEF ToSet

LEMMA SetOfEmpty == ToSet(<<>>) = {}
BY DEF ToSet

LEMMA SetOfPrefix ==
  ASSUME NEW S, NEW s \in Seq(S), NEW i \in DOMAIN s
  PROVE  /\ ToSet(SubSeq(s, 1, i)) \subseteq ToSet(s)
         /\ s[i] \in ToSet(SubSeq(s, 1, i))
<1>1. i \in 1 .. Len(s) /\ Len(s) \in Nat /\ DOMAIN s = 1 .. Len(s)
  BY LenProperties
<1>2. /\ SubSeq(s, 1, i) \in Seq(S) /\ Len(SubSeq(s, 1, i)) = i
      /\ \A k \in 1 .. i : SubSeq(s, 1, i)[k] = s[k]
  BY <1>1, SubSeqProperties
<1>3. DOMAIN SubSeq(s, 1, i) = 1 .. i
  BY <1>2, LenProperties
<1>4. \A k \in 1 .. i : k \in 1 .. Len(s)
  BY <1>1
<1>5. i \in 1 .. i
  BY <1>1
<1> QED BY <1>1, <1>2, <1>3, <1>4, <1>5 DEF ToSet

LEMMA SetOfRest ==
  ASSUME NEW S, NEW s \in Seq(S), NEW i \in DOMAIN s
  PROVE  /\ RemoveAt(s, i) \in Seq(S)
         /\ ToSet(s) \ {s[i]} \subseteq ToSet(RemoveAt(s, i))
         /\ ToSet(RemoveAt(s, i)) \subseteq ToSet(s)
<1> DEFINE a == SubSeq(s, 1, i - 1)
           b == SubSeq(s, i + 1, Len(s))
<1>1. i \in 1 .. Len(s) /\ Len(s) \in Nat /\ DOMAIN s = 1 .. Len(s)
  BY LenProperties
<1>2. /\ a \in Seq(S) /\ Len(a) = i - 1 /\ \A k \in 1 .. i - 1 : a[k] = s[k]
  BY <1>1
<1>3. /\ b \in Seq(S) /\ Len(b) = Len(s) - i /\ \A k \in 1 .. Len(s) - i : b[k] = s[i + k]
  BY <1>1
<1>4. DOMAIN a = 1 .. i - 1 /\ DOMAIN b = 1 .. Len(s) - i
  BY <1>1, <1>2, <1>3, LenProperties
<1>5. RemoveAt(s, i) \in Seq(S) /\ ToSet(RemoveAt(s, i)) = ToSet(a) \cup ToSet(b)
  <2> HIDE DEF a, b
  <2>1. RemoveAt(s, i) = a \o b
    BY DEF RemoveAt, a, b
  <2> QED BY <1>2, <1>3, <2>1, SetOfConcat
<1> HIDE DEF a, b
<1>6. ToSet(a) \subseteq ToSet(s)
  BY <1>1, <1>2, <1>4 DEF ToSet
<1>7. ToSet(b) \subseteq ToSet(s)
  <2>1. \A k \in 1 .. Len(s) - i : i + k \in 1 .. Len(s)
    BY <1>1
  <2> QED BY <1>1, <1>3, <1>4, <2>1 DEF ToSet
<1>8. ASSUME NEW x \in ToSet(s), x # s[i] PROVE x \in ToSet(a) \cup ToSet(b)
  <2>1. PICK k \in 1 .. Len(s) : x = s[k]
    BY <1>1 DEF ToSet
  <2>2. CASE k < i
    <3>1. k \in 1 .. i - 1
      BY <1>1, <2>2
    <3> QED BY <1>2, <1>4, <2>1, <3>1 DEF ToSet
  <2>3. CASE k > i
    <3>1. k - i \in 1 .. Len(s) - i /\ i + (k - i) = k
      BY <1>1, <2>3
    <3> QED BY <1>3, <1>4, <2>1, <3>1 DEF ToSet
  <2> QED BY <1>1, <1>8, <2>1, <2>2, <2>3
<1> QED BY <1>5, <1>6, <1>7, <1>8

\* Overwriting takes nothing out of a list but what was at the place.
LEMMA SetOfOverwritten ==
  ASSUME NEW S, NEW s \in Seq(S), NEW pos \in DOMAIN s
  PROVE  /\ Overwrite(s, pos) \in Seq(S)
         /\ ToSet(s) \ {s[pos]} \subseteq ToSet(Overwrite(s, pos))
<1>1. pos \in 1 .. Len(s) /\ Len(s) \in Nat /\ DOMAIN s = 1 .. Len(s)
  BY LenProperties
<1>2. Last(s) \in S
  BY <1>1, ElementOfSeq DEF Last
<1>3. /\ Overwrite(s, pos) \in Seq(S)
      /\ DOMAIN Overwrite(s, pos) = DOMAIN s
      /\ \A k \in DOMAIN s : k # pos => Overwrite(s, pos)[k] = s[k]
  BY <1>1, <1>2, ExceptSeq DEF Overwrite
<1> QED BY <1>3 DEF ToSet

-----------------------------------------------------------------------------
(* The family                                                              *)

LEMMA Types ==
  ASSUME LinksTypeOK
  PROVE  /\ life \in [Tids -> {"unborn", "started", "running", "closed", "unregistering", "dead"}]
         /\ parent \in [Tids -> Tids \cup {TidInit}] /\ owner \in [Tids -> Tids \cup {TidInit}]
         /\ DOMAIN links = Tids /\ \A t \in Tids : DOMAIN links[t] \subseteq Tids
         /\ DOMAIN fresh = Tids
         /\ \A t \in Tids : fresh[t].tid \in Tids \cup {TidInit}
         /\ \A t \in Tids : fresh[t] # NoFresh => fresh[t].tid \in Tids
         /\ localBox \in [Tids -> Seq(Tids)] /\ sharedBox \in [Tids -> Seq(Tids)]
         /\ telling \in [Tids -> SUBSET Tids]
         /\ told \in [Tids -> Seq([kind : {"LinkTerminated", "OwnerTerminated"}, tid : Tids])]
         /\ TidInit \notin Tids /\ NoFresh.tid = TidInit
<1>1. \A t \in Tids : fresh[t] = NoFresh \/ fresh[t].tid \in Tids
  BY DEF LinksTypeOK
<1>2. NoFresh.tid = TidInit
  BY DEF NoFresh
<1>3. TidInit \notin Tids
  BY InitNoTid
<1> QED BY <1>1, <1>2, <1>3 DEF LinksTypeOK

LEMMA BoxIsBoth ==
  ASSUME LinksTypeOK, NEW t \in Tids
  PROVE  ToSet(localBox[t] \o sharedBox[t]) = Box(t)
BY Types, SetOfConcat DEF Box

LEMMA ToldTyped ==
  ASSUME LinksTypeOK, NEW t \in Tids, NEW i \in DOMAIN told[t]
  PROVE  told[t][i] \in [kind : {"LinkTerminated", "OwnerTerminated"}, tid : Tids]
<1>1. told[t] \in Seq([kind : {"LinkTerminated", "OwnerTerminated"}, tid : Tids])
  BY Types
<1>2. i \in 1 .. Len(told[t])
  BY <1>1, LenProperties
<1> QED BY <1>1, <1>2, ElementOfSeq

LEMMA LinkStart == LinksInit => LinkInd
<1> SUFFICES ASSUME LinksInit PROVE LinkInd
  OBVIOUS
<1>1. /\ \A t \in Tids : /\ Box(t) = {} /\ DOMAIN links[t] = {} /\ told[t] = <<>>
                         /\ fresh[t] = NoFresh /\ parent[t] = TidInit /\ owner[t] = TidInit
      /\ TidInit \notin Tids /\ NoFresh.tid = TidInit
  BY InitNoTid, SetOfEmpty DEF LinksInit, Box, NoLinks, NoFresh
<1>2. LinksTypeOK
  BY <1>1, EmptySeq DEF LinksInit, LinksTypeOK
<1>3. FamilyInv
  BY <1>1, <1>2 DEF LinksInit, FamilyInv, NoticesReal, FamilyRight, OwnerRight, OwnerKnows, Due,
                    ToldPast, ToldApart, Child, Above
<1>4. NamesInv
  BY InitNoTid DEF LinksInit, NamesInv, NoStaleName, EntryOpen
<1> QED BY <1>2, <1>3, <1>4 DEF LinkInd

LEMMA SpawnStep ==
  ASSUME LinksTypeOK, FamilyInv, NEW t \in Tids, NEW c \in Tids, NEW linked \in BOOLEAN,
         Spawn(t, c, linked)
  PROVE  LinksTypeOK' /\ FamilyInv'
<1>1. /\ life[t] = "running" /\ life[c] = "unborn" /\ fresh[t] = NoFresh /\ t # c
      /\ life' = [life EXCEPT ![c] = "started"] /\ parent' = [parent EXCEPT ![c] = t]
      /\ fresh' = [fresh EXCEPT ![t] = [tid |-> c, linked |-> linked]]
      /\ UNCHANGED <<links, owner, localBox, sharedBox, telling, told, nameVars>>
  BY DEF Spawn, Free, noticeVars
<1>2. LinksTypeOK'
  BY <1>1 DEF LinksTypeOK, nameVars
<1>3. /\ \A x \in Tids : life'[x] = IF x = c THEN "started" ELSE life[x]
      /\ \A x \in Tids : parent'[x] = IF x = c THEN t ELSE parent[x]
      /\ \A x \in Tids : fresh'[x].tid = IF x = t THEN c ELSE fresh[x].tid
      /\ \A x \in Tids : x # t => fresh'[x] = fresh[x]
      /\ \A x \in Tids : Box(x)' = Box(x)
      /\ \A x \in Tids : Closed(x)' <=> Closed(x)
  BY <1>1, Types DEF Box, Closed
<1>4. \A x, y \in Tids : Child(x, y)' <=> Child(x, y) \/ (x = t /\ y = c)
  BY <1>1, <1>3, Types DEF Child
<1>5. /\ parent[c] = TidInit /\ owner[c] = TidInit
      /\ \A x \in Tids : parent[x] # c /\ owner[x] # c /\ ~Child(x, c) /\ ~Child(c, x)
  BY <1>1, Types DEF FamilyInv, FamilyRight, OwnerRight
<1>6. \A x, y \in Tids : Above(x, y)' <=> Above(x, y) \/ (x = c /\ y = t)
  BY <1>1, <1>3, <1>5, Types DEF Above
<1> \A y \in Tids : ~Alive(c) /\ ~Above(c, y)
  BY <1>1, <1>5, Types DEF Alive, Above
<1>7. NoticesReal'
  BY <1>3 DEF FamilyInv, NoticesReal
<1>8. FamilyRight'
  BY <1>1, <1>3, <1>4, <1>5, Types DEF FamilyInv, FamilyRight
<1>9. OwnerRight'
  BY <1>1, <1>3, <1>5, Types DEF FamilyInv, OwnerRight
<1>10. OwnerKnows'
  BY <1>1, <1>3, <1>4, <1>6, Types DEF FamilyInv, OwnerKnows, Alive
<1>11. Due'
  <2> SUFFICES ASSUME NEW x \in Tids, NEW y \in Tids, Alive(x)',
                      life'[y] \in {"unregistering", "dead"}, Child(x, y)' \/ Above(x, y)'
               PROVE  y \in Box(x)'
    BY DEF Due
  <2>1. y # c /\ y # t
    BY <1>1, <1>3
  <2>2. x # c /\ (Child(x, y) \/ Above(x, y))
    BY <1>4, <1>5, <1>6, <2>1
  <2>3. Alive(x) /\ life[y] \in {"unregistering", "dead"}
    BY <1>3, <2>1, <2>2 DEF Alive
  <2> QED BY <1>3, <2>2, <2>3 DEF FamilyInv, Due
<1>12. ToldPast' /\ ToldApart'
  <2>1. ASSUME NEW x \in Tids, NEW i \in DOMAIN told[x] PROVE told[x][i].tid # c /\ x # c /\ told[x][i].tid \in Tids
    BY <1>1, ToldTyped DEF FamilyInv, ToldPast, Closed
  <2>2. ToldPast'
    BY <1>1, <1>3, <1>4, <2>1 DEF FamilyInv, ToldPast
  <2> QED BY <1>1, <2>2 DEF FamilyInv, ToldApart
<1> QED BY <1>2, <1>7, <1>8, <1>9, <1>10, <1>11, <1>12 DEF FamilyInv

LEMMA AddLinkStep ==
  ASSUME LinksTypeOK, FamilyInv, NEW t \in Tids, AddLink(t)
  PROVE  LinksTypeOK' /\ FamilyInv'
<1>1. /\ fresh[t] # NoFresh
      /\ links' = [links EXCEPT ![t] = With(t, fresh[t].tid, fresh[t].linked)]
      /\ fresh' = [fresh EXCEPT ![t] = NoFresh]
      /\ UNCHANGED <<life, parent, owner, localBox, sharedBox, telling, told, nameVars>>
  BY DEF AddLink, noticeVars
<1>2. /\ DOMAIN links' = Tids
      /\ \A x \in Tids : DOMAIN links'[x] = IF x = t THEN {fresh[t].tid} \cup DOMAIN links[t]
                                            ELSE DOMAIN links[x]
  BY <1>1, Types DEF With
<1>3. LinksTypeOK'
  <2>1. \A x \in Tids : DOMAIN links'[x] \subseteq Tids
    BY <1>1, <1>2, Types
  <2>2. fresh' \in [Tids -> {NoFresh} \cup [tid : Tids, linked : BOOLEAN]]
    BY <1>1 DEF LinksTypeOK
  <2> QED BY <1>1, <1>2, <2>1, <2>2 DEF LinksTypeOK, nameVars
<1>4. /\ \A x, y \in Tids : Child(x, y)' <=> Child(x, y)
      /\ \A x, y \in Tids : Above(x, y)' <=> Above(x, y)
      /\ \A x \in Tids : Box(x)' = Box(x) /\ (Alive(x)' <=> Alive(x)) /\ (Closed(x)' <=> Closed(x))
      /\ \A x \in Tids : fresh'[x] # NoFresh => fresh[x] # NoFresh
  BY <1>1, <1>2, Types DEF Child, Above, Box, Alive, Closed
<1>5. \A x \in Tids : \A i \in DOMAIN told[x] : told[x][i].tid \in Tids
  BY ToldTyped
<1>6. FamilyInv'
  BY <1>1, <1>4, <1>5 DEF FamilyInv, NoticesReal, FamilyRight, OwnerRight, OwnerKnows, Due, ToldPast, ToldApart
<1> QED BY <1>3, <1>6

LEMMA BeginStep ==
  ASSUME LinksTypeOK, FamilyInv, NEW t \in Tids, Begin(t)
  PROVE  LinksTypeOK' /\ FamilyInv'
<1>1. /\ life[t] = "started" /\ life' = [life EXCEPT ![t] = "running"]
      /\ owner' = [owner EXCEPT ![t] = parent[t]]
      /\ UNCHANGED <<parent, links, fresh, localBox, sharedBox, telling, told, nameVars>>
  BY DEF Begin, noticeVars
<1>2. LinksTypeOK'
  BY <1>1 DEF LinksTypeOK, nameVars
<1>3. /\ \A x \in Tids : life'[x] = IF x = t THEN "running" ELSE life[x]
      /\ \A x \in Tids : owner'[x] = IF x = t THEN parent[t] ELSE owner[x]
      /\ \A x \in Tids : Box(x)' = Box(x) /\ (Alive(x)' <=> Alive(x)) /\ (Closed(x)' <=> Closed(x))
      /\ \A x, y \in Tids : Child(x, y)' <=> Child(x, y)
  BY <1>1, Types DEF Box, Closed, Alive, Child
<1>4. owner[t] = TidInit
  BY <1>1 DEF FamilyInv, OwnerRight
<1>5. \A x, y \in Tids : Above(x, y)' <=> Above(x, y)
  BY <1>1, <1>3, <1>4, Types DEF Above
<1>6. \A x \in Tids : Alive(x) => parent[x] # t /\ ~Above(x, t)
  BY <1>1, Types DEF FamilyInv, FamilyRight, OwnerRight, Above
<1>7. NoticesReal' /\ Due' /\ OwnerRight'
  BY <1>1, <1>3, <1>5, Types DEF FamilyInv, NoticesReal, Due, OwnerRight
<1>8. FamilyRight' /\ OwnerKnows'
  BY <1>1, <1>3, <1>5, <1>6, Types DEF FamilyInv, FamilyRight, OwnerKnows
<1>9. ToldPast' /\ ToldApart'
  <2>1. ASSUME NEW x \in Tids, NEW i \in DOMAIN told[x] PROVE x # t /\ told[x][i].tid \in Tids
    BY <1>1, ToldTyped DEF FamilyInv, ToldPast
  <2>2. told' = told /\ parent' = parent
    BY <1>1
  <2>3. ToldApart'
    BY <2>2 DEF FamilyInv, ToldApart
  <2>4. ToldPast'
    BY <1>3, <2>1, <2>2 DEF FamilyInv, ToldPast
  <2> QED BY <2>3, <2>4
<1> QED BY <1>2, <1>7, <1>8, <1>9 DEF FamilyInv

\* What a call of receive() comes down to for the family: links to threads that
\* have ended are removed, and a notice may be taken that an exception comes of.
LEMMA ReceiveStep ==
  ASSUME LinksTypeOK, FamilyInv, NEW t \in Tids, life[t] = "running", fresh[t] = NoFresh,
         UNCHANGED <<life, parent, fresh, telling>>,
         DOMAIN links' = Tids, \A x \in Tids \ {t} : links'[x] = links[x],
         DOMAIN links'[t] \subseteq DOMAIN links[t], DOMAIN links[t] \ Box(t) \subseteq DOMAIN links'[t],
         \A x \in Tids \ {t} : Box(x)' = Box(x) /\ owner'[x] = owner[x] /\ told'[x] = told[x],
         Box(t)' \subseteq Box(t),
         \/ Box(t)' = Box(t) /\ owner' = owner /\ told' = told
         \/ \E u \in Box(t) :
              /\ Tells(t, u) /\ Box(t) \ {u} \subseteq Box(t)' /\ u \notin DOMAIN links'[t]
              /\ owner'[t] = IF Depends(t, u) THEN owner[t] ELSE TidInit
              /\ told'[t] = Append(told[t],
                   [kind |-> IF Depends(t, u) THEN "LinkTerminated" ELSE "OwnerTerminated", tid |-> u])
  PROVE  FamilyInv'
<1>1. /\ \A x \in Tids : (Alive(x)' <=> Alive(x)) /\ (Closed(x)' <=> Closed(x))
      /\ \A x, y \in Tids : Child(x, y)' => Child(x, y)
      /\ \A x, y \in Tids : (Child(x, y) /\ ~Closed(y)) => Child(x, y)'
      /\ \A y \in Tids : Child(t, y)' <=> y \in DOMAIN links'[t]
      /\ \A x \in Tids : Box(x)' \subseteq Box(x) /\ Box(x) \subseteq Tids
  <2>1. \A x \in Tids : (Alive(x)' <=> Alive(x)) /\ (Closed(x)' <=> Closed(x))
    BY DEF Alive, Closed
  <2>2. \A y \in Tids : Child(t, y)' <=> y \in DOMAIN links'[t]
    BY Types DEF Child
  <2>3. \A y \in Tids : Child(t, y) <=> y \in DOMAIN links[t]
    BY Types DEF Child
  <2>4. \A y \in Tids : y \in Box(t) => Closed(y)
    BY DEF FamilyInv, NoticesReal
  <2>5. \A x \in Tids \ {t} : \A y \in Tids : Child(x, y)' <=> Child(x, y)
    BY DEF Child
  <2>6. \A x \in Tids : Box(x) \subseteq Tids
    <3> TAKE x \in Tids
    <3>1. localBox[x] \in Seq(Tids) /\ sharedBox[x] \in Seq(Tids)
      BY Types
    <3> QED BY <3>1, ElementOfSeq, LenProperties DEF Box, ToSet
  <2> QED BY <2>1, <2>2, <2>3, <2>4, <2>5, <2>6
<1>2. ASSUME NEW u \in Tids, Tells(t, u), Closed(u)
      PROVE  /\ Child(t, u) \/ owner[t] = u
             /\ IF Depends(t, u) THEN Child(t, u) /\ owner[t] # u ELSE owner[t] = u
             /\ Depends(t, u) => parent[u] = t /\ parent[t] # u
             /\ ~Depends(t, u) => parent[t] = u
  BY <1>2, Types DEF Tells, Depends, Child, FamilyInv, FamilyRight, OwnerRight
<1>3. owner'[t] \in {owner[t], TidInit} /\ \A u \in Tids : (owner[t] = u /\ owner'[t] # u) => Closed(u)
  <2>1. CASE owner' = owner
    BY <2>1
  <2>2. CASE owner' # owner
    <3>1. PICK u \in Box(t) : Tells(t, u) /\ owner'[t] = IF Depends(t, u) THEN owner[t] ELSE TidInit
      BY <2>2
    <3>2. u \in Tids /\ Closed(u)
      BY <1>1, <3>1 DEF FamilyInv, NoticesReal
    <3> QED BY <1>2, <3>1, <3>2
  <2> QED BY <2>1, <2>2
<1>4. \A x, y \in Tids : Above(x, y)' => Above(x, y)
  BY <1>3, Types DEF Above
<1>5. NoticesReal' /\ FamilyRight'
  BY <1>1 DEF FamilyInv, NoticesReal, FamilyRight
<1>6. OwnerRight'
  <2>1. \A x \in Tids : owner'[x] \in {owner[x], TidInit} /\
          \A u \in Tids : (owner[x] = u /\ owner'[x] # u) => Closed(u)
    BY <1>3
  <2> QED BY <1>1, <2>1 DEF FamilyInv, OwnerRight
<1>7. ASSUME NEW x \in Tids, NEW y \in Tids, y \in Box(x), y \notin Box(x)'
      PROVE  ~Child(x, y)' /\ (Alive(x) => ~Above(x, y)')
  <2>1. x = t
    BY <1>7
  <2>2. PICK u \in Box(t) : /\ Tells(t, u) /\ Box(t) \ {u} \subseteq Box(t)' /\ u \notin DOMAIN links'[t]
                            /\ owner'[t] = IF Depends(t, u) THEN owner[t] ELSE TidInit
    BY <1>7, <2>1
  <2>3. u = y /\ Closed(u)
    BY <1>1, <1>7, <2>1, <2>2 DEF FamilyInv, NoticesReal
  <2>4. owner'[t] # u
    BY <1>2, <2>2, <2>3, Types
  <2> QED BY <1>1, <2>1, <2>2, <2>3, <2>4 DEF Above
<1>8. OwnerKnows'
  <2> SUFFICES ASSUME NEW x \in Tids, NEW y \in Tids, Alive(x)', Above(x, y)'
               PROVE  /\ life'[y] = "running" => Child(y, x)'
                      /\ life'[y] = "closed" => x \in telling'[y] \/ y \in Box(x)'
    BY DEF OwnerKnows
  <2>1. /\ Alive(x) /\ Above(x, y) /\ ~Closed(x)
        /\ y \in Box(x) => y \in Box(x)'
    BY <1>1, <1>4, <1>7 DEF Alive, Closed
  <2> QED BY <1>1, <2>1 DEF FamilyInv, OwnerKnows
<1>9. Due'
  BY <1>1, <1>4, <1>7 DEF FamilyInv, Due
<1>10. ToldPast' /\ ToldApart'
  <2>1. \A x \in Tids \ {t} : told'[x] = told[x] /\ owner'[x] = owner[x]
    OBVIOUS
  <2>2. CASE told' = told
    <3>1. \A x, y \in Tids : y # owner[x] => y # owner'[x]
      BY <1>3, <2>1, Types
    <3>2. ToldPast'
      BY <1>1, <2>2, <3>1 DEF FamilyInv, ToldPast
    <3> QED BY <2>2, <3>2 DEF FamilyInv, ToldApart
  <2>3. CASE told' # told
    <3> DEFINE n == Len(told[t])
    <3>1. PICK u \in Box(t) :
            /\ Tells(t, u) /\ u \notin DOMAIN links'[t]
            /\ owner'[t] = IF Depends(t, u) THEN owner[t] ELSE TidInit
            /\ told'[t] = Append(told[t],
                 [kind |-> IF Depends(t, u) THEN "LinkTerminated" ELSE "OwnerTerminated", tid |-> u])
      BY <2>3
    <3>2. u \in Tids /\ Closed(u) /\ owner'[t] # u
      BY <1>1, <1>2, <3>1, Types DEF FamilyInv, NoticesReal
    <3>3. /\ DOMAIN told'[t] = 1 .. n + 1 /\ DOMAIN told[t] = 1 .. n /\ n \in Nat
          /\ \A i \in 1 .. n : told'[t][i] = told[t][i]
          /\ told'[t][n + 1].tid = u
          /\ told'[t][n + 1].kind = IF Depends(t, u) THEN "LinkTerminated" ELSE "OwnerTerminated"
      <4> DEFINE e == [kind |-> IF Depends(t, u) THEN "LinkTerminated" ELSE "OwnerTerminated", tid |-> u]
                 R == [kind : {"LinkTerminated", "OwnerTerminated"}, tid : Tids]
      <4>1. e \in R /\ told[t] \in Seq(R) /\ e.tid = u
            /\ e.kind = IF Depends(t, u) THEN "LinkTerminated" ELSE "OwnerTerminated"
        BY <3>2, Types
      <4>2. told'[t] = Append(told[t], e)
        BY <3>1
      <4> HIDE DEF e, R
      <4>3. /\ Append(told[t], e) \in Seq(R) /\ Len(Append(told[t], e)) = n + 1
            /\ \A i \in 1 .. n : Append(told[t], e)[i] = told[t][i]
            /\ Append(told[t], e)[n + 1] = e
        BY <4>1, AppendProperties
      <4> QED BY <4>1, <4>2, <4>3, LenProperties
    <3>4. \A i \in 1 .. n : told[t][i].tid # u
      BY <1>2, <3>1, <3>2, <3>3 DEF FamilyInv, ToldPast
    <3> HIDE DEF n
    <3>5. \A i \in 1 .. n + 1 : i \in 1 .. n \/ i = n + 1
      BY <3>3
    <3>6. ToldApart'
      BY <2>1, <3>3, <3>4, <3>5 DEF FamilyInv, ToldApart
    <3>7. ASSUME NEW y \in Tids, NEW i \in 1 .. n + 1, told'[t][i].tid = y
          PROVE  /\ Closed(y) /\ ~Child(t, y)' /\ y # owner'[t]
                 /\ told'[t][i].kind = IF parent[t] = y THEN "OwnerTerminated" ELSE "LinkTerminated"
                 /\ told'[t][i].kind = "LinkTerminated" => parent[y] = t
      <4>1. CASE i \in 1 .. n
        <5>1. told[t][i].tid = y /\ told'[t][i] = told[t][i]
          BY <3>3, <3>7, <4>1
        <5>2. /\ Closed(y) /\ ~Child(t, y) /\ y # owner[t]
              /\ told[t][i].kind = IF parent[t] = y THEN "OwnerTerminated" ELSE "LinkTerminated"
              /\ told[t][i].kind = "LinkTerminated" => parent[y] = t
          BY <3>3, <4>1, <5>1 DEF FamilyInv, ToldPast
        <5>3. owner'[t] \in {owner[t], TidInit} /\ y # TidInit
          BY <1>3, Types
        <5>4. ~Child(t, y)'
          BY <1>1, <5>2
        <5> QED BY <5>1, <5>2, <5>3, <5>4
      <4>2. CASE i = n + 1
        <5>1. y = u
          BY <3>3, <3>7, <4>2
        <5> QED BY <1>1, <1>2, <3>1, <3>2, <3>3, <4>2, <5>1
      <4> QED BY <3>5, <4>1, <4>2
    <3>8. ToldPast'
      <4>1. ASSUME NEW x \in Tids, NEW y \in Tids, NEW i \in DOMAIN told'[x], told'[x][i].tid = y
            PROVE  /\ Closed(y)' /\ life'[x] \notin {"unborn", "started"}
                   /\ ~Child(x, y)' /\ y # owner'[x]
                   /\ told'[x][i].kind = IF parent'[x] = y THEN "OwnerTerminated" ELSE "LinkTerminated"
                   /\ told'[x][i].kind = "LinkTerminated" => parent'[y] = x
        <5>1. CASE x = t
          BY <1>1, <3>3, <3>7, <4>1, <5>1
        <5>2. CASE x # t
          BY <1>1, <2>1, <4>1, <5>2 DEF FamilyInv, ToldPast
        <5> QED BY <5>1, <5>2
      <4> QED BY <4>1 DEF ToldPast
    <3> QED BY <3>6, <3>8
  <2> QED BY <2>2, <2>3
<1> QED BY <1>5, <1>6, <1>8, <1>9, <1>10 DEF FamilyInv

LEMMA HearLocalStep ==
  ASSUME LinksTypeOK, FamilyInv, NEW t \in Tids, HearLocal(t)
  PROVE  LinksTypeOK' /\ FamilyInv'
<1> DEFINE list == localBox[t]
           rec(v) == [kind |-> IF Depends(t, v) THEN "LinkTerminated" ELSE "OwnerTerminated", tid |-> v]
<1>1. PICK i \in FirstTold(t, list) :
        /\ Hear(t, list, i) /\ localBox' = [localBox EXCEPT ![t] = RemoveAt(list, i)]
  BY DEF HearLocal
<1>2. /\ life[t] = "running" /\ fresh[t] = NoFresh
      /\ UNCHANGED <<life, parent, fresh, sharedBox, telling, nameVars>>
  BY DEF HearLocal, Free
<1> DEFINE u == list[i]
<1>3. i \in DOMAIN list /\ Tells(t, u) /\ list \in Seq(Tids) /\ u \in Tids /\ u \in ToSet(list)
  BY Types, ElementOfSeq, LenProperties DEF FirstTold, ToSet
<1>4. /\ links' = [links EXCEPT ![t] = Without(t, ToSet(SubSeq(list, 1, i)))]
      /\ owner' = [owner EXCEPT ![t] = IF Depends(t, u) THEN owner[t] ELSE TidInit]
      /\ told' = [told EXCEPT ![t] = Append(told[t], rec(u))]
  BY <1>1 DEF Hear
<1>5. /\ DOMAIN links' = Tids /\ \A x \in Tids \ {t} : links'[x] = links[x]
      /\ DOMAIN links'[t] = DOMAIN links[t] \ ToSet(SubSeq(list, 1, i))
  BY <1>4, Types DEF Without, Restrict
<1> HIDE DEF list
<1>6. /\ ToSet(SubSeq(list, 1, i)) \subseteq ToSet(list)
      /\ u \in ToSet(SubSeq(list, 1, i))
      /\ RemoveAt(list, i) \in Seq(Tids)
      /\ ToSet(list) \ {u} \subseteq ToSet(RemoveAt(list, i))
      /\ ToSet(RemoveAt(list, i)) \subseteq ToSet(list)
  BY <1>3, SetOfPrefix, SetOfRest
<1>7. localBox' \in [Tids -> Seq(Tids)] /\ localBox'[t] = RemoveAt(list, i)
      /\ \A x \in Tids \ {t} : localBox'[x] = localBox[x]
  BY <1>1, <1>6, Types
<1>8. /\ Box(t)' = ToSet(RemoveAt(list, i)) \cup ToSet(sharedBox[t])
      /\ Box(t) = ToSet(list) \cup ToSet(sharedBox[t])
      /\ \A x \in Tids \ {t} : Box(x)' = Box(x)
  BY <1>2, <1>7 DEF Box, list
<1>9. LinksTypeOK'
  <2> DEFINE r == rec(u)
  <2>1. r \in [kind : {"LinkTerminated", "OwnerTerminated"}, tid : Tids]
    BY <1>3
  <2> HIDE DEF r
  <2>2. told' \in [Tids -> Seq([kind : {"LinkTerminated", "OwnerTerminated"}, tid : Tids])]
    <3> DEFINE R == [kind : {"LinkTerminated", "OwnerTerminated"}, tid : Tids]
    <3>1. told \in [Tids -> Seq(R)] /\ r \in R
      BY <2>1, Types
    <3> HIDE DEF R
    <3>2. Append(told[t], r) \in Seq(R)
      BY <3>1, AppendProperties
    <3>3. told' = [told EXCEPT ![t] = Append(told[t], r)]
      BY <1>4 DEF r
    <3> QED BY <3>1, <3>2, <3>3 DEF R
  <2>3. owner' \in [Tids -> Tids \cup {TidInit}]
    BY <1>4, Types
  <2> QED BY <1>2, <1>5, <1>7, <2>2, <2>3, Types DEF LinksTypeOK, nameVars
<1>10. /\ owner'[t] = IF Depends(t, u) THEN owner[t] ELSE TidInit
       /\ told'[t] = Append(told[t], rec(u))
       /\ \A x \in Tids \ {t} : owner'[x] = owner[x] /\ told'[x] = told[x]
  BY <1>4, Types
<1> HIDE DEF u
<1>11. /\ u \in Box(t) /\ Box(t) \ {u} \subseteq Box(t)' /\ u \notin DOMAIN links'[t]
       /\ Box(t)' \subseteq Box(t) /\ DOMAIN links[t] \ Box(t) \subseteq DOMAIN links'[t]
       /\ DOMAIN links'[t] \subseteq DOMAIN links[t]
  BY <1>3, <1>5, <1>6, <1>8
<1>12. FamilyInv'
  BY <1>2, <1>3, <1>5, <1>8, <1>10, <1>11, ReceiveStep
<1> QED BY <1>9, <1>12

LEMMA TakeNoticesStep ==
  ASSUME LinksTypeOK, FamilyInv, NEW t \in Tids, TakeNotices(t)
  PROVE  LinksTypeOK' /\ FamilyInv'
<1> DEFINE loc == localBox[t]
           arr == sharedBox[t]
           rec(v) == [kind |-> IF Depends(t, v) THEN "LinkTerminated" ELSE "OwnerTerminated", tid |-> v]
<1>1. /\ life[t] = "running" /\ fresh[t] = NoFresh
      /\ HearArrived(t) \/ IgnoreArrived(t)
      /\ sharedBox' = [sharedBox EXCEPT ![t] = <<>>]
      /\ UNCHANGED <<life, parent, fresh, telling, nameVars>>
  BY DEF TakeNotices, Free
<1>2. loc \in Seq(Tids) /\ arr \in Seq(Tids)
  BY Types
<1>3. /\ sharedBox' \in [Tids -> Seq(Tids)] /\ sharedBox'[t] = <<>>
      /\ \A x \in Tids \ {t} : sharedBox'[x] = sharedBox[x]
  BY <1>1, Types, EmptySeq
<1>4. CASE HearArrived(t)
  <2> DEFINE list == loc \o arr
  <2>1. PICK i \in FirstTold(t, arr) :
          /\ Hear(t, list, Len(loc) + i)
          /\ localBox' = [localBox EXCEPT ![t] = loc \o RemoveAt(arr, i)]
    BY <1>4 DEF HearArrived
  <2> DEFINE k == Len(loc) + i
             u == arr[i]
  <2>2. i \in DOMAIN arr /\ Tells(t, u) /\ u \in Tids /\ u \in ToSet(arr)
    BY <1>2, ElementOfSeq, LenProperties DEF FirstTold, ToSet
  <2>3. k \in DOMAIN list /\ list[k] = u /\ list \in Seq(Tids) /\ ToSet(list) = Box(t)
    <3>1. i \in 1 .. Len(arr) /\ Len(loc) \in Nat /\ Len(arr) \in Nat
      BY <1>2, <2>2, LenProperties
    <3> HIDE DEF loc, arr
    <3>2. k \in 1 .. Len(loc) + Len(arr) /\ k > Len(loc) /\ k - Len(loc) = i
      <4>1. PICK p \in Nat, q \in Nat : p = Len(loc) /\ q = Len(arr)
        BY <3>1
      <4>2. k = p + i /\ i \in 1 .. q
        BY <3>1, <4>1
      <4>3. k \in 1 .. p + q /\ k > p /\ k - p = i
        BY ONLY <4>2, p \in Nat, q \in Nat
      <4> QED BY <4>1, <4>3
    <3> HIDE DEF k
    <3>3. /\ list \in Seq(Tids) /\ Len(list) = Len(loc) + Len(arr)
          /\ list[k] = arr[i]
      BY <1>2, <3>1, <3>2, ConcatProperties
    <3>4. DOMAIN list = 1 .. Len(loc) + Len(arr)
      BY <3>3, LenProperties
    <3> QED BY <3>2, <3>3, <3>4, BoxIsBoth DEF loc, arr
  <2>4. /\ links' = [links EXCEPT ![t] = Without(t, ToSet(SubSeq(list, 1, k)))]
        /\ owner' = [owner EXCEPT ![t] = IF Depends(t, u) THEN owner[t] ELSE TidInit]
        /\ told' = [told EXCEPT ![t] = Append(told[t], rec(u))]
    BY <2>1, <2>3 DEF Hear
  <2> HIDE DEF k, list
  <2>5. /\ DOMAIN links' = Tids /\ \A x \in Tids \ {t} : links'[x] = links[x]
        /\ DOMAIN links'[t] = DOMAIN links[t] \ ToSet(SubSeq(list, 1, k))
    BY <2>4, Types DEF Without, Restrict
  <2>6. ToSet(SubSeq(list, 1, k)) \subseteq Box(t) /\ u \in ToSet(SubSeq(list, 1, k))
    BY <2>3, SetOfPrefix
  <2> HIDE DEF loc, arr
  <2>7. /\ loc \o RemoveAt(arr, i) \in Seq(Tids)
        /\ ToSet(loc \o RemoveAt(arr, i)) \subseteq ToSet(loc) \cup ToSet(arr)
        /\ (ToSet(loc) \cup ToSet(arr)) \ {arr[i]} \subseteq ToSet(loc \o RemoveAt(arr, i))
    BY <1>2, <2>2, SetOfRest, SetOfConcat
  <2>8. /\ localBox' \in [Tids -> Seq(Tids)] /\ localBox'[t] = loc \o RemoveAt(arr, i)
        /\ \A x \in Tids \ {t} : localBox'[x] = localBox[x]
    BY <2>1, <2>7, Types
  <2>9. Box(t)' = ToSet(loc \o RemoveAt(arr, i)) /\ \A x \in Tids \ {t} : Box(x)' = Box(x)
    BY <1>3, <2>8, SetOfEmpty DEF Box
  <2>10. Box(t) = ToSet(loc) \cup ToSet(arr)
    BY DEF Box, loc, arr
  <2>11. /\ u \in Box(t) /\ Box(t) \ {u} \subseteq Box(t)' /\ Box(t)' \subseteq Box(t)
         /\ u \notin DOMAIN links'[t] /\ DOMAIN links[t] \ Box(t) \subseteq DOMAIN links'[t]
         /\ DOMAIN links'[t] \subseteq DOMAIN links[t]
    BY <2>2, <2>5, <2>6, <2>7, <2>9, <2>10
  <2>12. /\ owner'[t] = IF Depends(t, u) THEN owner[t] ELSE TidInit
         /\ told'[t] = Append(told[t], rec(u))
         /\ \A x \in Tids \ {t} : owner'[x] = owner[x] /\ told'[x] = told[x]
    BY <2>4, Types
  <2>13. LinksTypeOK'
    <3> DEFINE r == rec(u)
    <3>1. r \in [kind : {"LinkTerminated", "OwnerTerminated"}, tid : Tids]
      BY <2>2
    <3> HIDE DEF r
    <3>2. told' \in [Tids -> Seq([kind : {"LinkTerminated", "OwnerTerminated"}, tid : Tids])]
      <4> DEFINE R == [kind : {"LinkTerminated", "OwnerTerminated"}, tid : Tids]
      <4>1. told \in [Tids -> Seq(R)] /\ r \in R
        BY <3>1, Types
      <4> HIDE DEF R
      <4>2. Append(told[t], r) \in Seq(R)
        BY <4>1, AppendProperties
      <4>3. told' = [told EXCEPT ![t] = Append(told[t], r)]
        BY <2>4 DEF r
      <4> QED BY <4>1, <4>2, <4>3 DEF R
    <3>3. owner' \in [Tids -> Tids \cup {TidInit}]
      BY <2>4, Types
    <3> QED BY <1>1, <1>3, <2>5, <2>8, <3>2, <3>3, Types DEF LinksTypeOK, nameVars
  <2> HIDE DEF u
  <2>14. FamilyInv'
    BY <1>1, <2>2, <2>5, <2>9, <2>11, <2>12, ReceiveStep
  <2> QED BY <2>13, <2>14
<1>5. CASE IgnoreArrived(t)
  <2>1. /\ links' = [links EXCEPT ![t] = Without(t, Box(t))]
        /\ localBox' = [localBox EXCEPT ![t] = loc \o arr]
        /\ UNCHANGED <<owner, told>>
    BY <1>5, BoxIsBoth DEF IgnoreArrived
  <2>2. /\ DOMAIN links' = Tids /\ \A x \in Tids \ {t} : links'[x] = links[x]
        /\ DOMAIN links'[t] = DOMAIN links[t] \ Box(t)
    BY <2>1, Types DEF Without, Restrict
  <2>3. loc \o arr \in Seq(Tids) /\ ToSet(loc \o arr) = Box(t)
    BY <1>2, SetOfConcat DEF Box
  <2> HIDE DEF loc, arr
  <2>4. /\ localBox' \in [Tids -> Seq(Tids)] /\ localBox'[t] = loc \o arr
        /\ \A x \in Tids \ {t} : localBox'[x] = localBox[x]
    BY <2>1, <2>3, Types
  <2>5. Box(t)' = Box(t) /\ \A x \in Tids \ {t} : Box(x)' = Box(x)
    BY <1>3, <2>3, <2>4, SetOfEmpty DEF Box
  <2>6. LinksTypeOK'
    BY <1>1, <1>3, <2>1, <2>2, <2>4, Types DEF LinksTypeOK, nameVars
  <2>7. FamilyInv'
    BY <1>1, <2>1, <2>2, <2>5, ReceiveStep
  <2> QED BY <2>6, <2>7
<1> QED BY <1>1, <1>4, <1>5

LEMMA CloseStep ==
  ASSUME LinksTypeOK, FamilyInv, NEW t \in Tids, Close(t)
  PROVE  LinksTypeOK' /\ FamilyInv'
<1> DEFINE gone == Box(t)
<1>1. /\ life[t] = "running" /\ fresh[t] = NoFresh
      /\ life' = [life EXCEPT ![t] = "closed"]
      /\ links' = [links EXCEPT ![t] = Without(t, gone)]
      /\ owner' = [owner EXCEPT ![t] = IF owner[t] \in gone THEN TidInit ELSE owner[t]]
      /\ telling' = [telling EXCEPT ![t] = DOMAIN links'[t]]
      /\ localBox' = [localBox EXCEPT ![t] = <<>>] /\ sharedBox' = [sharedBox EXCEPT ![t] = <<>>]
      /\ UNCHANGED <<parent, fresh, told, nameVars>>
  BY BoxIsBoth DEF Close, Free
<1> HIDE DEF gone
<1>2. /\ DOMAIN links' = Tids /\ \A x \in Tids \ {t} : links'[x] = links[x]
      /\ DOMAIN links'[t] = DOMAIN links[t] \ gone
  BY <1>1, Types DEF Without, Restrict
<1>3. LinksTypeOK'
  <2>1. telling' \in [Tids -> SUBSET Tids] /\ \A x \in Tids : DOMAIN links'[x] \subseteq Tids
    BY <1>1, <1>2, Types
  <2>2. localBox' \in [Tids -> Seq(Tids)] /\ sharedBox' \in [Tids -> Seq(Tids)]
    BY <1>1, Types, EmptySeq
  <2>3. owner' \in [Tids -> Tids \cup {TidInit}]
    BY <1>1, Types
  <2> QED BY <1>1, <1>2, <2>1, <2>2, <2>3 DEF LinksTypeOK, nameVars
<1>4. \A u \in Tids : u \in gone => Closed(u)
  BY DEF FamilyInv, NoticesReal, gone
<1>5. /\ \A x \in Tids : life'[x] = IF x = t THEN "closed" ELSE life[x]
      /\ Closed(t)' /\ ~Alive(t)' /\ ~Closed(t) /\ Box(t)' = {}
      /\ \A x \in Tids \ {t} : /\ (Alive(x)' <=> Alive(x)) /\ (Closed(x)' <=> Closed(x))
                               /\ Box(x)' = Box(x) /\ owner'[x] = owner[x] /\ telling'[x] = telling[x]
      /\ \A x \in Tids : Closed(x) => Closed(x)'
      /\ telling'[t] = DOMAIN links[t] \ gone
      /\ \A x, y \in Tids : Child(x, y)' => Child(x, y)
      /\ \A x, y \in Tids : x # t => (Child(x, y)' <=> Child(x, y)) /\ (Above(x, y)' <=> Above(x, y))
      /\ \A y \in Tids : Child(t, y) => y \in DOMAIN links[t]
  BY <1>1, <1>2, Types, SetOfEmpty DEF Closed, Alive, Box, Child, Above
<1>6. /\ owner'[t] \in {owner[t], TidInit}
      /\ \A u \in Tids : (owner[t] = u /\ owner'[t] # u) => Closed(u)
  BY <1>1, <1>4, Types
<1>7. NoticesReal' /\ FamilyRight'
  BY <1>1, <1>5 DEF FamilyInv, NoticesReal, FamilyRight
<1>8. OwnerRight'
  BY <1>1, <1>5, <1>6, Types DEF FamilyInv, OwnerRight
<1>9. OwnerKnows'
  <2> SUFFICES ASSUME NEW x \in Tids, NEW y \in Tids, Alive(x)', Above(x, y)'
               PROVE  /\ life'[y] = "running" => Child(y, x)'
                      /\ life'[y] = "closed" => x \in telling'[y] \/ y \in Box(x)'
    BY DEF OwnerKnows
  <2>1. x # t /\ Alive(x) /\ Above(x, y) /\ ~Closed(x)
    BY <1>5 DEF Alive, Closed
  <2>2. CASE y = t
    <3>1. x \in DOMAIN links[t]
      BY <1>1, <1>5, <2>1, <2>2 DEF FamilyInv, OwnerKnows
    <3>2. x \notin gone
      BY <1>4, <2>1
    <3> QED BY <1>5, <2>2, <3>1, <3>2
  <2>3. CASE y # t
    BY <1>5, <2>1, <2>3 DEF FamilyInv, OwnerKnows
  <2> QED BY <2>2, <2>3
<1>10. Due'
  <2> SUFFICES ASSUME NEW x \in Tids, NEW y \in Tids, Alive(x)',
                      life'[y] \in {"unregistering", "dead"}, Child(x, y)' \/ Above(x, y)'
               PROVE  y \in Box(x)'
    BY DEF Due
  <2>1. x # t /\ y # t
    BY <1>5
  <2> QED BY <1>5, <2>1 DEF FamilyInv, Due
<1>11. ToldPast' /\ ToldApart'
  <2>1. \A x, y \in Tids : y # owner[x] => y # owner'[x]
    BY <1>5, <1>6, Types
  <2>2. \A x \in Tids : life[x] \notin {"unborn", "started"} => life'[x] \notin {"unborn", "started"}
    BY <1>5
  <2>3. ToldPast'
    BY <1>1, <1>5, <2>1, <2>2 DEF FamilyInv, ToldPast
  <2> QED BY <1>1, <2>3 DEF FamilyInv, ToldApart
<1> QED BY <1>3, <1>7, <1>8, <1>9, <1>10, <1>11 DEF FamilyInv

\* What a notice that is sent, or not, does to the mailboxes.
LEMMA SendStep ==
  ASSUME LinksTypeOK, NEW t \in Tids, NEW u \in Tids \cup {TidInit}, Send(t, u), UNCHANGED localBox
  PROVE  /\ sharedBox' \in [Tids -> Seq(Tids)]
         /\ \A x \in Tids : Box(x)' = IF x = u /\ ~Closed(u) THEN Box(x) \cup {t} ELSE Box(x)
<1>1. CASE u = TidInit \/ Closed(u)
  BY <1>1, Types DEF Send, Box
<1>2. CASE u \in Tids /\ ~Closed(u)
  <2>1. sharedBox' = [sharedBox EXCEPT ![u] = Append(sharedBox[u], t)]
    BY <1>2, Types DEF Send
  <2>2. Append(sharedBox[u], t) \in Seq(Tids) /\ ToSet(Append(sharedBox[u], t)) = ToSet(sharedBox[u]) \cup {t}
    <3>1. sharedBox[u] \in Seq(Tids)
      BY <1>2, Types
    <3> QED BY <3>1, SetOfAppend
  <2>3. sharedBox' \in [Tids -> Seq(Tids)]
    BY <2>1, <2>2, Types
  <2>4. \A x \in Tids : sharedBox'[x] = IF x = u THEN Append(sharedBox[u], t) ELSE sharedBox[x]
    BY <2>1, Types
  <2> QED BY <1>2, <2>2, <2>3, <2>4 DEF Box
<1> QED BY <1>1, <1>2

LEMMA TellLinkStep ==
  ASSUME LinksTypeOK, FamilyInv, NEW t \in Tids, NEW u \in Tids, TellLink(t, u)
  PROVE  LinksTypeOK' /\ FamilyInv'
<1>1. /\ life[t] = "closed" /\ Send(t, u)
      /\ telling' = [telling EXCEPT ![t] = telling[t] \ {u}]
      /\ UNCHANGED <<life, parent, links, owner, fresh, localBox, told, nameVars>>
  BY DEF TellLink, treeVars
<1>2. /\ sharedBox' \in [Tids -> Seq(Tids)]
      /\ \A x \in Tids : Box(x)' = IF x = u /\ ~Closed(u) THEN Box(x) \cup {t} ELSE Box(x)
  BY <1>1, SendStep
<1>3. LinksTypeOK'
  BY <1>1, <1>2 DEF LinksTypeOK, nameVars
<1>4. /\ \A x, y \in Tids : (Child(x, y)' <=> Child(x, y)) /\ (Above(x, y)' <=> Above(x, y))
      /\ \A x \in Tids : (Alive(x)' <=> Alive(x)) /\ (Closed(x)' <=> Closed(x))
      /\ \A x \in Tids : telling'[x] = IF x = t THEN telling[t] \ {u} ELSE telling[x]
  BY <1>1, Types DEF Child, Above, Alive, Closed
<1>5. Closed(t)
  BY <1>1 DEF Closed
<1>6. NoticesReal' /\ FamilyRight' /\ OwnerRight' /\ ToldPast' /\ ToldApart'
  <2>1. NoticesReal'
    BY <1>2, <1>4, <1>5 DEF FamilyInv, NoticesReal
  <2>2. FamilyRight' /\ OwnerRight'
    BY <1>1, <1>4 DEF FamilyInv, FamilyRight, OwnerRight
  <2>3. ToldPast' /\ ToldApart'
    BY <1>1, <1>4 DEF FamilyInv, ToldPast, ToldApart
  <2> QED BY <2>1, <2>2, <2>3
<1>7. OwnerKnows'
  <2>1. \A x \in Tids : Alive(x) => ~Closed(x)
    BY DEF Alive, Closed
  <2> QED BY <1>1, <1>2, <1>4, <2>1 DEF FamilyInv, OwnerKnows
<1>8. Due'
  BY <1>1, <1>2, <1>4 DEF FamilyInv, Due
<1> QED BY <1>3, <1>6, <1>7, <1>8 DEF FamilyInv

LEMMA TellOwnerStep ==
  ASSUME LinksTypeOK, FamilyInv, NEW t \in Tids, TellOwner(t)
  PROVE  LinksTypeOK' /\ FamilyInv'
<1>1. /\ life[t] = "closed" /\ telling[t] = {} /\ Send(t, owner[t])
      /\ life' = [life EXCEPT ![t] = "unregistering"]
      /\ UNCHANGED <<parent, links, owner, fresh, localBox, telling, told, nameVars>>
  BY DEF TellOwner
<1>2. /\ sharedBox' \in [Tids -> Seq(Tids)]
      /\ \A x \in Tids : Box(x)' = IF x = owner[t] /\ ~Closed(owner[t]) THEN Box(x) \cup {t} ELSE Box(x)
  BY <1>1, SendStep, Types
<1>3. LinksTypeOK'
  BY <1>1, <1>2 DEF LinksTypeOK, nameVars
<1>4. /\ \A x \in Tids : life'[x] = IF x = t THEN "unregistering" ELSE life[x]
      /\ \A x, y \in Tids : (Child(x, y)' <=> Child(x, y)) /\ (Above(x, y)' <=> Above(x, y))
      /\ \A x \in Tids : (Alive(x)' <=> Alive(x)) /\ (Closed(x)' <=> Closed(x))
  BY <1>1, Types DEF Child, Above, Alive, Closed
<1>5. Closed(t)
  BY <1>1 DEF Closed
<1>6. NoticesReal' /\ FamilyRight' /\ OwnerRight'
  <2>1. NoticesReal'
    BY <1>2, <1>4, <1>5 DEF FamilyInv, NoticesReal
  <2>2. FamilyRight'
    BY <1>1, <1>4 DEF FamilyInv, FamilyRight
  <2>3. OwnerRight'
    BY <1>1, <1>4 DEF FamilyInv, OwnerRight
  <2> QED BY <2>1, <2>2, <2>3
<1>7. OwnerKnows'
  BY <1>1, <1>2, <1>4 DEF FamilyInv, OwnerKnows
<1>8. Due'
  <2> SUFFICES ASSUME NEW x \in Tids, NEW y \in Tids, Alive(x)',
                      life'[y] \in {"unregistering", "dead"}, Child(x, y)' \/ Above(x, y)'
               PROVE  y \in Box(x)'
    BY DEF Due
  <2>1. Alive(x) /\ ~Closed(x) /\ Box(x) \subseteq Box(x)' /\ (Child(x, y) \/ Above(x, y))
    BY <1>2, <1>4 DEF Alive, Closed
  <2>2. CASE y # t
    BY <1>4, <2>1, <2>2 DEF FamilyInv, Due
  <2>3. CASE y = t /\ Above(x, y)
    BY <1>1, <2>1, <2>3 DEF FamilyInv, OwnerKnows
  <2>4. CASE y = t /\ Child(x, y)
    <3>1. parent[t] = x /\ owner[t] = x
      BY <1>1, <2>1, <2>4, Types DEF FamilyInv, FamilyRight, OwnerRight
    <3> QED BY <1>2, <2>1, <2>4, <3>1
  <2> QED BY <2>1, <2>2, <2>3, <2>4
<1>9. ToldPast' /\ ToldApart'
  <2>1. \A x \in Tids : life[x] \notin {"unborn", "started"} => life'[x] \notin {"unborn", "started"}
    BY <1>4
  <2> QED BY <1>1, <1>4, <2>1 DEF FamilyInv, ToldPast, ToldApart
<1> QED BY <1>3, <1>6, <1>7, <1>8, <1>9 DEF FamilyInv

LEMMA UnregisterMeStep ==
  ASSUME LinksTypeOK, FamilyInv, NEW t \in Tids, UnregisterMe(t)
  PROVE  LinksTypeOK' /\ FamilyInv'
<1>1. /\ life[t] = "unregistering" /\ life' = [life EXCEPT ![t] = "dead"]
      /\ tidByName' = [n \in Names |-> IF n \in ToSet(namesByTid[t]) THEN TidInit ELSE tidByName[n]]
      /\ namesByTid' = [namesByTid EXCEPT ![t] = <<>>]
      /\ UNCHANGED <<parent, links, owner, fresh, localBox, sharedBox, telling, told, entry>>
  BY DEF UnregisterMe, noticeVars
<1>2. LinksTypeOK'
  <2>1. namesByTid' \in [Tids -> Seq(Names)]
    BY <1>1, EmptySeq DEF LinksTypeOK
  <2>2. tidByName' \in [Names -> Tids \cup {TidInit}]
    BY <1>1 DEF LinksTypeOK
  <2> QED BY <1>1, <2>1, <2>2 DEF LinksTypeOK
<1>3. /\ \A x \in Tids : life'[x] = IF x = t THEN "dead" ELSE life[x]
      /\ \A x, y \in Tids : (Child(x, y)' <=> Child(x, y)) /\ (Above(x, y)' <=> Above(x, y))
      /\ \A x \in Tids : /\ (Alive(x)' <=> Alive(x)) /\ (Closed(x)' <=> Closed(x)) /\ Box(x)' = Box(x)
                         /\ life[x] \notin {"unborn", "started"} => life'[x] \notin {"unborn", "started"}
  BY <1>1, Types DEF Child, Above, Alive, Closed, Box
<1>4. NoticesReal' /\ FamilyRight' /\ OwnerRight'
  BY <1>1, <1>3 DEF FamilyInv, NoticesReal, FamilyRight, OwnerRight
<1>5. OwnerKnows' /\ Due'
  BY <1>1, <1>3 DEF FamilyInv, OwnerKnows, Due
<1>6. ToldPast' /\ ToldApart'
  BY <1>1, <1>3 DEF FamilyInv, ToldPast, ToldApart
<1> QED BY <1>2, <1>4, <1>5, <1>6 DEF FamilyInv

LEMMA FamilyUnchanged ==
  ASSUME FamilyInv, UNCHANGED <<treeVars, noticeVars>>
  PROVE  FamilyInv'
<1>1. UNCHANGED <<life, parent, links, owner, fresh, localBox, sharedBox, telling, told>>
  BY DEF treeVars, noticeVars
<1> QED BY <1>1 DEF FamilyInv, NoticesReal, FamilyRight, OwnerRight, OwnerKnows, Due, ToldPast,
                    ToldApart, Child, Above, Alive, Closed, Box

-----------------------------------------------------------------------------
(* The names                                                               *)

LEMMA NameTypes ==
  ASSUME LinksTypeOK
  PROVE  /\ tidByName \in [Names -> Tids \cup {TidInit}] /\ namesByTid \in [Tids -> Seq(Names)]
         /\ entry # NoEntry => entry.tid \in Tids /\ entry.name \in Names
BY DEF LinksTypeOK

\* A step that leaves the registry alone, and in which nobody dies.
LEMMA NamesUnchanged ==
  ASSUME LinksTypeOK, NamesInv, UNCHANGED nameVars,
         \A t \in Tids : life[t] # "dead" => life'[t] # "dead"
  PROVE  NamesInv'
<1>1. UNCHANGED <<tidByName, namesByTid, entry>>
  BY DEF nameVars
<1> QED BY <1>1, NameTypes DEF NamesInv, NoStaleName, EntryOpen

LEMMA TestEntryStep ==
  ASSUME LinksTypeOK, NamesInv, NEW t \in Tids, NEW n \in Names, NEW u \in Tids, TestEntry(t, n, u)
  PROVE  LinksTypeOK' /\ NamesInv'
<1>1. /\ tidByName[n] = TidInit /\ life[u] # "dead" /\ entry' = [by |-> t, name |-> n, tid |-> u]
      /\ UNCHANGED <<treeVars, noticeVars, tidByName, namesByTid>>
  BY DEF TestEntry, Closed
<1>2. LinksTypeOK'
  BY <1>1 DEF LinksTypeOK, treeVars, noticeVars
<1>3. NamesInv'
  BY <1>1 DEF NamesInv, NoStaleName, EntryOpen, treeVars
<1> QED BY <1>2, <1>3

LEMMA AddEntryStep ==
  ASSUME LinksTypeOK, NamesInv, AddEntry
  PROVE  LinksTypeOK' /\ NamesInv'
<1> DEFINE u == entry.tid
           m == entry.name
<1>1. /\ entry # NoEntry /\ entry' = NoEntry
      /\ namesByTid' = [namesByTid EXCEPT ![u] = Append(namesByTid[u], m)]
      /\ tidByName' = [tidByName EXCEPT ![m] = u]
      /\ UNCHANGED <<treeVars, noticeVars>>
  BY DEF AddEntry
<1>2. u \in Tids /\ m \in Names /\ namesByTid[u] \in Seq(Names) /\ life[u] # "dead"
  BY <1>1, NameTypes DEF NamesInv, EntryOpen
<1> HIDE DEF u, m
<1>3. /\ Append(namesByTid[u], m) \in Seq(Names)
      /\ ToSet(Append(namesByTid[u], m)) = ToSet(namesByTid[u]) \cup {m}
  BY <1>2, SetOfAppend
<1>4. /\ namesByTid' \in [Tids -> Seq(Names)]
      /\ \A t \in Tids : ToSet(namesByTid[t]) \subseteq ToSet(namesByTid'[t])
      /\ m \in ToSet(namesByTid'[u])
  BY <1>1, <1>2, <1>3, NameTypes
<1>5. /\ tidByName' \in [Names -> Tids \cup {TidInit}]
      /\ \A n \in Names : tidByName'[n] = IF n = m THEN u ELSE tidByName[n]
  BY <1>1, <1>2, NameTypes
<1>6. LinksTypeOK'
  BY <1>1, <1>4, <1>5 DEF LinksTypeOK, treeVars, noticeVars
<1>7. NoStaleName'
  BY <1>1, <1>2, <1>4, <1>5, NameTypes DEF NamesInv, NoStaleName, treeVars
<1>8. EntryOpen'
  BY <1>1 DEF EntryOpen
<1> QED BY <1>6, <1>7, <1>8 DEF NamesInv

LEMMA UnregisterNameStep ==
  ASSUME LinksTypeOK, NamesInv, NEW t \in Tids, NEW n \in Names, UnregisterName(t, n)
  PROVE  LinksTypeOK' /\ NamesInv'
<1> DEFINE u == tidByName[n]
<1>1. /\ entry = NoEntry /\ u # TidInit
      /\ tidByName' = [tidByName EXCEPT ![n] = TidInit]
      /\ UNCHANGED <<treeVars, noticeVars, entry>>
  BY DEF UnregisterName
<1>2. PICK pos \in FirstPos(namesByTid[u], n) :
        namesByTid' = [namesByTid EXCEPT ![u] = Overwrite(namesByTid[u], pos)]
  BY DEF UnregisterName
<1>3. u \in Tids /\ namesByTid[u] \in Seq(Names) /\ pos \in DOMAIN namesByTid[u] /\ namesByTid[u][pos] = n
  BY <1>1, <1>2, NameTypes DEF FirstPos
<1> HIDE DEF u
<1>4. /\ Overwrite(namesByTid[u], pos) \in Seq(Names)
      /\ ToSet(namesByTid[u]) \ {n} \subseteq ToSet(Overwrite(namesByTid[u], pos))
  BY <1>3, SetOfOverwritten
<1>5. /\ namesByTid' \in [Tids -> Seq(Names)]
      /\ \A x \in Tids : ToSet(namesByTid[x]) \ {n} \subseteq ToSet(namesByTid'[x])
  BY <1>2, <1>3, <1>4, NameTypes
<1>6. /\ tidByName' \in [Names -> Tids \cup {TidInit}]
      /\ \A m \in Names : tidByName'[m] = IF m = n THEN TidInit ELSE tidByName[m]
  BY <1>1, NameTypes
<1>7. LinksTypeOK'
  BY <1>1, <1>5, <1>6 DEF LinksTypeOK, treeVars, noticeVars
<1>8. NoStaleName'
  BY <1>1, <1>5, <1>6, NameTypes DEF NamesInv, NoStaleName, treeVars
<1>9. EntryOpen'
  BY <1>1 DEF EntryOpen
<1> QED BY <1>7, <1>8, <1>9 DEF NamesInv

\* Names that still lead to a thread are in its list, so that all of them go with it;
\* register() is in nobody's hands meanwhile.
LEMMA NamesLeave ==
  ASSUME LinksTypeOK, NamesInv, NEW t \in Tids, UnregisterMe(t)
  PROVE  NamesInv'
<1>1. /\ entry = NoEntry /\ entry' = NoEntry /\ life' = [life EXCEPT ![t] = "dead"]
      /\ tidByName' = [n \in Names |-> IF n \in ToSet(namesByTid[t]) THEN TidInit ELSE tidByName[n]]
      /\ namesByTid' = [namesByTid EXCEPT ![t] = <<>>]
  BY DEF UnregisterMe
<1>2. ASSUME NEW n \in Names, tidByName'[n] # TidInit
      PROVE  /\ tidByName'[n] = tidByName[n] /\ tidByName[n] # t /\ tidByName[n] \in Tids
  BY <1>1, <1>2, NameTypes DEF NamesInv, NoStaleName
<1>3. \A x \in Tids \ {t} : life'[x] = life[x] /\ namesByTid'[x] = namesByTid[x]
  BY <1>1, Types, NameTypes
<1> QED BY <1>1, <1>2, <1>3 DEF NamesInv, NoStaleName, EntryOpen

-----------------------------------------------------------------------------
(* The theorems                                                            *)

LEMMA ThreadStep ==
  ASSUME LinkInd, NEW t \in Tids,
         \/ \E c \in setting.spawned, linked \in BOOLEAN : c \in Tids /\ Spawn(t, c, linked)
         \/ AddLink(t) \/ Begin(t) \/ ReceiveNotice(t) \/ Close(t)
         \/ \E u \in Tids : TellLink(t, u)
         \/ TellOwner(t)
  PROVE  LinkInd'
<1>1. LinksTypeOK' /\ FamilyInv'
  BY SpawnStep, AddLinkStep, BeginStep, HearLocalStep, TakeNoticesStep, CloseStep, TellLinkStep,
     TellOwnerStep DEF LinkInd, ReceiveNotice
<1>2. UNCHANGED nameVars
  BY DEF Spawn, AddLink, Begin, ReceiveNotice, HearLocal, TakeNotices, Close, TellLink, TellOwner, nameVars
<1>3. \A x \in Tids : life[x] # "dead" => life'[x] # "dead"
  BY Types DEF LinkInd, Spawn, AddLink, Begin, ReceiveNotice, HearLocal, TakeNotices, Close, TellLink,
               TellOwner, treeVars
<1> QED BY <1>1, <1>2, <1>3, NamesUnchanged DEF LinkInd

LEMMA NameStep ==
  ASSUME LinkInd,
         \/ \E t \in Tids, n \in Names : UnregisterName(t, n) \/ \E u \in Tids : TestEntry(t, n, u)
         \/ AddEntry
  PROVE  LinkInd'
<1>1. LinksTypeOK' /\ NamesInv'
  BY UnregisterNameStep, TestEntryStep, AddEntryStep DEF LinkInd
<1>2. UNCHANGED <<treeVars, noticeVars>>
  BY DEF UnregisterName, TestEntry, AddEntry
<1> QED BY <1>1, <1>2, FamilyUnchanged DEF LinkInd

LEMMA NextInv ==
  ASSUME LinkInd, setting \in Settings, [LinksNext]_linkVars
  PROVE  LinkInd'
<1>1. setting.spawned \subseteq Tids /\ setting.names \subseteq Names
  BY SettingsOK DEF Tids
<1>2. CASE \E t \in Tids : \/ \E c \in setting.spawned, linked \in BOOLEAN : Spawn(t, c, linked)
                           \/ AddLink(t) \/ Begin(t) \/ ReceiveNotice(t) \/ Close(t)
                           \/ \E u \in Tids : TellLink(t, u)
                           \/ TellOwner(t)
  BY <1>1, <1>2, ThreadStep
<1>3. CASE \E t \in Tids : UnregisterMe(t)
  BY <1>3, UnregisterMeStep, NamesLeave DEF LinkInd
<1>4. CASE \/ \E t \in Tids : \E n \in setting.names :
                 UnregisterName(t, n) \/ \E u \in Tids : TestEntry(t, n, u)
           \/ AddEntry
  BY <1>1, <1>4, NameStep
<1>5. CASE UNCHANGED linkVars
  <2>1. /\ UNCHANGED <<treeVars, noticeVars, nameVars>> /\ UNCHANGED <<tidByName, namesByTid, entry>>
        /\ UNCHANGED <<life, parent, links, owner, fresh, localBox, sharedBox, telling, told>>
    BY <1>5 DEF linkVars, treeVars, noticeVars, nameVars
  <2>2. LinksTypeOK'
    BY <2>1 DEF LinkInd, LinksTypeOK
  <2> QED BY <2>1, <2>2, FamilyUnchanged, NamesUnchanged DEF LinkInd
<1> QED BY <1>2, <1>3, <1>4, <1>5 DEF LinksNext, CleanupStep

LEMMA SettingKept == setting \in Settings /\ [LinksNext]_linkVars => (setting \in Settings)'
BY DEF LinksNext, linkVars, Spawn, AddLink, Begin, ReceiveNotice, HearLocal, TakeNotices, Close, CleanupStep,
       TellLink, TellOwner, UnregisterMe, TestEntry, AddEntry, UnregisterName

LEMMA Invariance == LinksSpec => []LinkInd
<1>1. LinksInit => LinkInd /\ setting \in Settings
  BY LinkStart DEF LinksInit
<1>2. LinkInd /\ setting \in Settings /\ [LinksNext]_linkVars => (LinkInd /\ setting \in Settings)'
  BY NextInv, SettingKept
<1> QED BY <1>1, <1>2, PTL DEF LinksSpec

\* The tables of threads, links, notices and names keep their types.
THEOREM LinksTyped == LinksSpec => []LinksTypeOK
<1>1. LinkInd => LinksTypeOK
  BY DEF LinkInd
<1> QED BY <1>1, Invariance, PTL

\* The end of a thread is known to its owner and to those it spawned once it has told
\* everybody, in whatever order threads are started, linked and ended (_spawn(),
\* cleanup(), close()); and nobody gets an exception twice, too soon, or of the wrong kind.
THEOREM EndsKnown == LinksSpec => []NoticesInv
<1>1. ASSUME LinkInd PROVE NoticesInv
  <2>1. NoticeDue
    <3> SUFFICES ASSUME NEW t \in Tids, NEW u \in Tids, life[t] \in {"started", "running"},
                        life[u] \in {"unregistering", "dead"}, Concerns(t, u)
                 PROVE  u \in ToSet(localBox[t] \o sharedBox[t])
      BY DEF NoticeDue
    <3>1. Alive(t) /\ (Child(t, u) \/ Above(t, u))
      BY DEF Alive, Child, Above, Concerns
    <3> QED BY <1>1, <3>1, BoxIsBoth DEF LinkInd, FamilyInv, Due
  <2>2. ToldOnce
    <3> SUFFICES ASSUME NEW t \in Tids
                 PROVE  /\ \A i, j \in DOMAIN told[t] : told[t][i].tid = told[t][j].tid => i = j
                        /\ \A i \in DOMAIN told[t] : LET e == told[t][i] IN
                             /\ Closed(e.tid)
                             /\ e.kind = IF parent[t] = e.tid THEN "OwnerTerminated" ELSE "LinkTerminated"
                             /\ e.kind = "LinkTerminated" => parent[e.tid] = t
      BY DEF ToldOnce
    <3>1. \A i \in DOMAIN told[t] : told[t][i].tid \in Tids
      BY <1>1, ToldTyped DEF LinkInd
    <3> QED BY <1>1, <3>1 DEF LinkInd, FamilyInv, ToldPast, ToldApart
  <2> QED BY <2>1, <2>2 DEF NoticesInv
<1> QED BY <1>1, Invariance, PTL

\* A name never leads to a thread that has left the registry, although register()
\* looks at the mailbox of the thread only once, and before it adds the name.
THEOREM NamesFresh == LinksSpec => []NoStaleName
<1>1. LinkInd => NoStaleName
  BY DEF LinkInd, NamesInv
<1> QED BY <1>1, Invariance, PTL

\* Both: what is left of a thread that ended, with its owner, with those it spawned
\* and in the registry of names.
THEOREM LinksRight == LinksSpec => []LinksInv
<1>1. NoticesInv /\ NoStaleName => LinksInv
  BY DEF LinksInv
<1> QED BY <1>1, EndsKnown, NamesFresh, PTL
=============================================================================
