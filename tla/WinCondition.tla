---------------------------- MODULE WinCondition ----------------------------
(***************************************************************************)
(* core.sync.condition.Condition, the Windows version: a condition         *)
(* variable built from two semaphores and a critical section.  One action  *)
(* is one wait for, or release of, one of these, or one pass through the   *)
(* critical section m_unblockLock; a thread that blocks inside it holds    *)
(* it meanwhile.  The gate m_blockLock keeps new waiters out while the     *)
(* threads that a notification picked are being let out of m_blockQueue.   *)
(* A notification that finds nobody to wake changes nothing and is no      *)
(* action.                                                                 *)
(***************************************************************************)
EXTENDS Integers, FiniteSets

CONSTANTS Callers,
          None,      \* no thread: nobody holds the lock
          Uses,      \* the ways to use the condition: which threads may wait,
                     \* and which of them with a timeout; all may notify
          GoneLimit  \* int.max / 2: how many waiters may go before a purge

ASSUME NoneIsNoThread == None \notin Callers
ASSUME CallersFinite == IsFiniteSet(Callers)
ASSUME UsesOK == \A u \in Uses : u.timed \subseteq u.waiters /\ u.waiters \subseteq Callers
ASSUME LimitOK == GoneLimit \in Nat \ {0}

VARIABLES
  use,                    \* the one of Uses that is followed
  m_assocMutex,           \* its owner
  m_blockLock,            \* a semaphore with at most one permit: the gate
  m_blockQueue,           \* a semaphore
  m_unblockLock,          \* its owner, if that blocks while it holds it
  m_numWaitersGone,
  m_numWaitersBlocked,
  m_numWaitersToUnblock,
  stage,
  timed,                  \* the threads whose current wait has a timeout
  timedOut,               \* the threads whose current wait has timed out
  surplus                 \* the local numWaitersGone of each thread

locks == <<m_assocMutex, m_blockLock, m_blockQueue, m_unblockLock>>
counts == <<m_numWaitersGone, m_numWaitersBlocked, m_numWaitersToUnblock>>
locals == <<use, timed, timedOut, surplus>>
winVars == <<locks, counts, stage, locals>>

At(P) == {t \in Callers : stage[t] \in P}

WinInit == /\ use \in Uses
        /\ m_assocMutex = None /\ m_unblockLock = None
        /\ m_blockLock = 1 /\ m_blockQueue = 0
        /\ m_numWaitersGone = 0
        /\ m_numWaitersBlocked = 0
        /\ m_numWaitersToUnblock = 0
        /\ stage = [t \in Callers |-> "out"]
        /\ timed = {} /\ timedOut = {}
        /\ surplus = [t \in Callers |-> 0]

Goto(t, place) == stage' = [stage EXCEPT ![t] = place]

\* WaitForSingleObject(m_blockLock) and ReleaseSemaphore(m_blockLock, 1).
TakeGate == m_blockLock = 1 /\ m_blockLock' = 0
FreeGate == m_blockLock' = 1

-----------------------------------------------------------------------------
(* The users of the condition                                              *)

Lock(t) ==
  /\ stage[t] = "out"
  /\ m_assocMutex = None
  /\ m_assocMutex' = t
  /\ UNCHANGED <<m_blockLock, m_blockQueue, m_unblockLock, counts, stage, locals>>

Unlock(t) ==
  /\ stage[t] = "out"
  /\ m_assocMutex = t
  /\ m_assocMutex' = None
  /\ UNCHANGED <<m_blockLock, m_blockQueue, m_unblockLock, counts, stage, locals>>

Wait(t) ==
  /\ t \in use.waiters
  /\ stage[t] = "out"
  /\ m_assocMutex = t
  /\ timed' \in {timed} \cup {timed \cup {u} : u \in use.timed \cap {t}}
  /\ Goto(t, "gate")
  /\ UNCHANGED <<use, locks, counts, timedOut, surplus>>

-----------------------------------------------------------------------------
(* timedWait()                                                             *)

Block(t) ==
  /\ stage[t] = "gate"
  /\ TakeGate
  /\ m_numWaitersBlocked' = m_numWaitersBlocked + 1
  /\ Goto(t, "blocked")
  /\ UNCHANGED <<m_assocMutex, m_blockQueue, m_unblockLock, m_numWaitersGone,
                 m_numWaitersToUnblock, locals>>

Sleep(t) ==
  /\ stage[t] = "blocked"
  /\ FreeGate
  /\ m_assocMutex' = None
  /\ Goto(t, "queue")
  /\ UNCHANGED <<m_blockQueue, m_unblockLock, counts, locals>>

Wake(t) ==
  /\ stage[t] = "queue"
  /\ m_blockQueue > 0
  /\ m_blockQueue' = m_blockQueue - 1
  /\ Goto(t, "unblock")
  /\ UNCHANGED <<m_assocMutex, m_blockLock, m_unblockLock, counts, locals>>

TimeOut(t) ==
  /\ stage[t] = "queue"
  /\ t \in timed
  /\ timedOut' = timedOut \cup {t}
  /\ Goto(t, "unblock")
  /\ UNCHANGED <<use, locks, counts, timed, surplus>>

\* Inside m_unblockLock, with signals left: a waiter that has timed out gives
\* its place up, or leaves a surplus permit of m_blockQueue to be drained; the
\* last one to unblock opens the gate at once if others are blocked already.
GivesUp(t) == t \in timedOut /\ m_numWaitersBlocked # 0
BlockedAfter(t) == IF GivesUp(t) THEN m_numWaitersBlocked - 1 ELSE m_numWaitersBlocked

GoneAfter(t) == IF t \in timedOut /\ ~GivesUp(t) THEN 1 ELSE m_numWaitersGone

\* Wrong: the signal is not passed on to the next thread.
KeepsSignal(t) ==
  /\ m_numWaitersToUnblock > 1
  /\ m_numWaitersGone' = GoneAfter(t)
  /\ Goto(t, "relock")
  /\ UNCHANGED <<m_blockLock, surplus>>

UnblockMore(t) ==
  /\ m_numWaitersToUnblock > 1
  /\ m_numWaitersGone' = GoneAfter(t)
  /\ Goto(t, IF GivesUp(t) THEN "relock" ELSE "pass")
  /\ UNCHANGED <<m_blockLock, surplus>>

UnblockLastAndOpen(t) ==
  /\ m_numWaitersToUnblock = 1
  /\ BlockedAfter(t) # 0
  /\ m_numWaitersGone' = GoneAfter(t)
  /\ FreeGate
  /\ Goto(t, "relock")
  /\ UNCHANGED surplus

\* Wrong: numSignalsLeft is reset on this path too, so that nobody opens the
\* gate.
ForgetsGate(t) ==
  /\ m_numWaitersToUnblock = 1
  /\ BlockedAfter(t) = 0
  /\ m_numWaitersGone' = 0
  /\ Goto(t, "relock")
  /\ UNCHANGED <<m_blockLock, surplus>>

UnblockLast(t) ==
  /\ m_numWaitersToUnblock = 1
  /\ BlockedAfter(t) = 0
  /\ m_numWaitersGone' = 0
  /\ IF GivesUp(t) THEN Goto(t, "relock") /\ UNCHANGED surplus
     ELSE Goto(t, "drain") /\ surplus' = [surplus EXCEPT ![t] = GoneAfter(t)]
  /\ UNCHANGED <<m_blockLock>>

Unblock(t) ==
  /\ stage[t] = "unblock"
  /\ m_unblockLock = None
  /\ m_numWaitersBlocked' = BlockedAfter(t)
  /\ m_numWaitersToUnblock' = m_numWaitersToUnblock - 1
  /\ UnblockMore(t) \/ UnblockLastAndOpen(t) \/ UnblockLast(t)
  /\ UNCHANGED <<m_assocMutex, m_blockQueue, m_unblockLock, use, timed, timedOut>>

\* ... and without: count those who are gone until it is time for a purge.
Go(t) ==
  /\ stage[t] = "unblock"
  /\ m_unblockLock = None
  /\ m_numWaitersToUnblock = 0
  /\ m_numWaitersGone' = m_numWaitersGone + 1
  /\ IF m_numWaitersGone + 1 = GoneLimit
     THEN Goto(t, "purge") /\ m_unblockLock' = t
     ELSE Goto(t, "relock") /\ UNCHANGED m_unblockLock
  /\ UNCHANGED <<m_assocMutex, m_blockLock, m_blockQueue, m_numWaitersBlocked,
                 m_numWaitersToUnblock, locals>>

\* The gate is taken and freed.  The assert that follows is left out: it
\* compares the result of ReleaseSemaphore, TRUE, with WAIT_OBJECT_0, 0.
Purge(t) ==
  /\ stage[t] = "purge"
  /\ m_blockLock = 1
  /\ m_numWaitersBlocked' = m_numWaitersBlocked - m_numWaitersGone
  /\ m_numWaitersGone' = 0
  /\ m_unblockLock' = None
  /\ Goto(t, "relock")
  /\ UNCHANGED <<m_assocMutex, m_blockLock, m_blockQueue, m_numWaitersToUnblock, locals>>

\* Outside m_unblockLock again.
Drain(t) ==
  /\ stage[t] = "drain"
  /\ surplus[t] > 0 /\ m_blockQueue > 0
  /\ surplus' = [surplus EXCEPT ![t] = @ - 1]
  /\ m_blockQueue' = m_blockQueue - 1
  /\ UNCHANGED <<m_assocMutex, m_blockLock, m_unblockLock, counts, stage, use, timed, timedOut>>

OpenGate(t) ==
  /\ stage[t] = "drain"
  /\ surplus[t] = 0
  /\ FreeGate
  /\ Goto(t, "relock")
  /\ UNCHANGED <<m_assocMutex, m_blockQueue, m_unblockLock, counts, locals>>

PassOn(t) ==
  /\ stage[t] = "pass"
  /\ m_blockQueue' = m_blockQueue + 1
  /\ Goto(t, "relock")
  /\ UNCHANGED <<m_assocMutex, m_blockLock, m_unblockLock, counts, locals>>

Relock(t) ==
  /\ stage[t] = "relock"
  /\ m_assocMutex = None
  /\ m_assocMutex' = t
  /\ timed' = timed \ {t} /\ timedOut' = timedOut \ {t}
  /\ Goto(t, "out")
  /\ UNCHANGED <<m_blockLock, m_blockQueue, m_unblockLock, counts, use, surplus>>

-----------------------------------------------------------------------------
(* notify_(all)                                                            *)

\* Some are being unblocked, so the gate is closed: these are just more.
NotifyMore(t, all) ==
  /\ stage[t] = "out"
  /\ m_unblockLock = None
  /\ m_numWaitersToUnblock # 0 /\ m_numWaitersBlocked # 0
  /\ LET n == IF all THEN m_numWaitersBlocked ELSE 1
     IN  /\ m_numWaitersToUnblock' = m_numWaitersToUnblock + n
         /\ m_numWaitersBlocked' = m_numWaitersBlocked - n
  /\ UNCHANGED <<locks, m_numWaitersGone, stage, locals>>

\* Otherwise the gate has to be closed first, from inside m_unblockLock.
NotifyFirst(t, all) ==
  /\ stage[t] = "out"
  /\ m_unblockLock = None
  /\ m_numWaitersToUnblock = 0 /\ m_numWaitersBlocked > m_numWaitersGone
  /\ m_unblockLock' = t
  /\ Goto(t, IF all THEN "notifyAll" ELSE "notify")
  /\ UNCHANGED <<m_assocMutex, m_blockLock, m_blockQueue, counts, locals>>

\* Wrong: m_numWaitersGone is not reset.
KeepsGone(t) ==
  /\ stage[t] \in {"notify", "notifyAll"}
  /\ TakeGate
  /\ LET blocked == m_numWaitersBlocked - m_numWaitersGone
         n == IF stage[t] = "notifyAll" THEN blocked ELSE 1
     IN  /\ m_numWaitersToUnblock' = n
         /\ m_numWaitersBlocked' = blocked - n
  /\ m_unblockLock' = None
  /\ Goto(t, "signal")
  /\ UNCHANGED <<m_assocMutex, m_blockQueue, m_numWaitersGone, locals>>

CloseGate(t) ==
  /\ stage[t] \in {"notify", "notifyAll"}
  /\ TakeGate
  /\ LET blocked == m_numWaitersBlocked - m_numWaitersGone
         n == IF stage[t] = "notifyAll" THEN blocked ELSE 1
     IN  /\ m_numWaitersToUnblock' = n
         /\ m_numWaitersBlocked' = blocked - n
  /\ m_numWaitersGone' = 0
  /\ m_unblockLock' = None
  /\ Goto(t, "signal")
  /\ UNCHANGED <<m_assocMutex, m_blockQueue, locals>>

Signal(t) ==
  /\ stage[t] = "signal"
  /\ m_blockQueue' = m_blockQueue + 1
  /\ Goto(t, "out")
  /\ UNCHANGED <<m_assocMutex, m_blockLock, m_unblockLock, counts, locals>>

-----------------------------------------------------------------------------
Step(t) ==
  \/ Block(t) \/ Sleep(t) \/ Wake(t) \/ TimeOut(t) \/ Unblock(t) \/ Go(t)
  \/ Purge(t) \/ Drain(t) \/ OpenGate(t) \/ PassOn(t) \/ Relock(t)
  \/ CloseGate(t) \/ Signal(t)

Notify(t) == \E all \in BOOLEAN : NotifyMore(t, all) \/ NotifyFirst(t, all)

WinNext == \E t \in Callers : Lock(t) \/ Unlock(t) \/ Wait(t) \/ Step(t) \/ Notify(t)

WinSpec == WinInit /\ [][WinNext]_winVars

(***************************************************************************)
(* A thread in the middle of a call that again and again could go on does, *)
(* because the semaphores and locks of Windows queue the threads that wait *)
(* for them; and callers unlock the mutex in the end.                      *)
(***************************************************************************)
WinFairSpec == WinSpec /\ \A t \in Callers : SF_winVars(Step(t)) /\ WF_winVars(Unlock(t))

-----------------------------------------------------------------------------
(* Properties                                                              *)

WinTypeOK ==
  /\ use \in Uses
  /\ {m_assocMutex, m_unblockLock} \subseteq Callers \cup {None}
  /\ m_blockLock \in {0, 1}
  /\ {m_blockQueue, m_numWaitersGone, m_numWaitersBlocked,
      m_numWaitersToUnblock} \subseteq Nat
  /\ stage \in [Callers -> {"out", "gate", "blocked", "queue", "unblock", "purge",
                         "drain", "pass", "relock", "notify", "notifyAll", "signal"}]
  /\ timedOut \subseteq timed /\ timed \subseteq use.timed
  /\ surplus \in [Callers -> Nat]

\* The permits of m_blockQueue that exist or are about to.
Signals == m_blockQueue + Cardinality(At({"signal", "pass"}))
             + Cardinality({t \in At({"unblock"}) : t \notin timedOut})

\* While a thread is being let out the gate is closed, so nobody who starts to
\* wait after a notification can take it from those who were waiting.
NoStealing == Signals > 0 \/ m_numWaitersToUnblock > 0 => m_blockLock = 0

\* The gate is never left closed with nobody there to open it.
GateHasOpener ==
  m_blockLock = 0 => m_numWaitersToUnblock > 0 \/ At({"blocked", "drain"}) # {}

\* The counters account for every thread in the queue: those to unblock, and
\* those blocked, which include the ones that timed out and are gone.
CountersCover ==
  m_numWaitersBlocked + m_numWaitersToUnblock =
      m_numWaitersGone + Cardinality(At({"blocked", "queue", "unblock"}))

\* Without timeouts one permit is in flight while anybody is to be unblocked,
\* and none if not.
SignalsMatch ==
  use.timed = {} => Signals = IF m_numWaitersToUnblock > 0 THEN 1 ELSE 0

\* The gate opens again: all the threads a notification is for get out of
\* the queue, and new waiters may come in.
GateReopens == (m_blockLock = 0) ~> (m_blockLock = 1)

\* "Suspends the calling thread until a notification occurs or until the
\* supplied time period has elapsed" (condition.d:251): a wait with a timeout
\* returns.
TimedWaitReturns == \A t \in Callers : (t \in timed) ~> (t \notin timed)

\* What has to be true between the counters, the permits and the gate whenever
\* a thread takes m_unblockLock, on each of the ways out of a wait; and nobody
\* steals a notification.
GateInv == WinTypeOK /\ NoStealing /\ GateHasOpener /\ CountersCover /\ SignalsMatch

=============================================================================
