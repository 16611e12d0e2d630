----------------------------- MODULE MCBlocking -----------------------------
(***************************************************************************)
(* Small instances of the objects that threads block on: the event, and    *)
(* the waits, semaphores and futexes of libstdc++.  A behaviour is one of  *)
(* them, and the others stay as they began.                                *)
(***************************************************************************)
EXTENDS Event, AtomicWait, Semaphore, AtomicFutex

CONSTANTS t1, t2, t3, t4, x, y, z

MCWaiters == {t1, t2}
MCTimed == {t1}
MCStorers == {t3}
MCUsers == MCWaiters \cup MCStorers
MCThree == {t1, t2, t3}
MCPublishers == {t3, t4}
MCObjects == {x, y, z}
MCDirect == {x}
MCSole == {y}
MCValues == {0, 1}
MCUpdates == {1, 2}

VARIABLE part
allVars == <<part, vars, awVars, semVars, futexVars>>

EventAlone(A) == /\ part = "event" /\ A
                 /\ UNCHANGED <<part, awVars, semVars, futexVars>>
WaitAlone(A) == /\ part = "wait" /\ A
                /\ UNCHANGED <<part, vars, semVars, futexVars>>
SemAlone(A) == /\ part = "semaphore" /\ A
               /\ UNCHANGED <<part, vars, awVars, futexVars>>
FutexAlone(A) == /\ part = "futex" /\ A
                 /\ UNCHANGED <<part, vars, awVars, semVars>>

AnyInit == /\ part \in {"event", "wait", "semaphore", "futex"}
           /\ Init /\ AWInit /\ SemInit /\ FutexInit

AnyNext == \/ EventAlone(Next) \/ WaitAlone(AWNext) \/ SemAlone(SemNext)
           \/ FutexAlone(FutexNext)

\* The steps of a thread in a call: each specification is fair to them.
WaiterStep(t) == \/ EventAlone(Return(t) \/ Expire(t))
                 \/ WaitAlone(WaitStep(t) \/ TimeOut(t))
                 \/ SemAlone(AcquireStep(t) \/ DeadlinePasses(t) \/ NotifyBare(t))
                 \/ FutexAlone(LoadStep(t) \/ PassDeadline(t))
StorerStep(t) == \/ EventAlone(t \in MCThree /\ (Return(t) \/ Expire(t)))
                 \/ WaitAlone(t \in MCStorers /\ NotifyStep(t))
                 \/ SemAlone(t \in MCStorers /\ NotifyBare(t))
                 \/ FutexAlone(NotifySleepers(t))

AnyFairSpec == /\ AnyInit /\ [][AnyNext]_allVars
               /\ \A t \in MCWaiters : WF_allVars(WaiterStep(t))
               /\ \A t \in MCPublishers : WF_allVars(StorerStep(t))

=============================================================================
