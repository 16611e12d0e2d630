----------------------------- MODULE Semaphore ------------------------------
(***************************************************************************)
(* __atomic_semaphore of bits/semaphore_base.h, what a counting_semaphore  *)
(* is on Linux, over the bare waits of bits/atomic_wait.h and              *)
(* bits/atomic_timed_wait.h.  A step is one access to the counter or one   *)
(* system call.                                                            *)
(***************************************************************************)
EXTENDS Naturals, FiniteSets

CONSTANTS Acquirers,  \* threads that acquire
          Patient,    \* those that call acquire(), the others have a deadline
          Releasers,  \* threads that release
          Updates,    \* how much they release at once
          SemMax      \* the most that a program may let the counter hold

ASSUME PatientOK == Patient \subseteq Acquirers /\ IsFiniteSet(Acquirers)
ASSUME UpdatesOK == Updates \subseteq Nat \ {0}
ASSUME SemMaxOK == SemMax \in Nat

VARIABLES counter,  \* _M_counter
          local,    \* of each acquirer: __val, __old, and where a failed try leads
          place,    \* where each thread is
          issued    \* auxiliary: what was released, less what was used up

semVars == <<counter, local, place, issued>>
SemThreads == Acquirers \cup Releasers

SemInit == /\ counter = 0
           /\ local = [t \in Acquirers |-> [val |-> 0, old |-> 0, failed |-> "sleep"]]
           /\ place = [t \in SemThreads |-> "out"]
           /\ issued = 0

Go(t, to) == place' = [place EXCEPT ![t] = to]
Asleep == {t \in Acquirers : place[t] = "asleep"}
Holders == {t \in Acquirers : place[t] = "got"}

-----------------------------------------------------------------------------
(* _M_acquire(), and _M_try_acquire_until() for those with a deadline      *)

Acquire(t) ==
  /\ place[t] = "out"
  /\ Go(t, "load")
  /\ local' = [local EXCEPT ![t].failed = "sleep"]
  /\ UNCHANGED <<counter, issued>>

\* _S_do_spin(): the value that the counter is to hold during the sleep.
LoadValue(t) ==
  /\ place[t] = "load"
  /\ local' = [local EXCEPT ![t].val = counter]
  /\ Go(t, "try")
  /\ UNCHANGED <<counter, issued>>

Fail(t) ==
  /\ Go(t, local[t].failed)
  /\ local' = [local EXCEPT ![t].failed = "sleep", ![t].old = 0]

\* _S_do_try_acquire().  Of the attempts of a spin the last one counts: those
\* before it changed nothing.
LoadOld(t) ==
  /\ place[t] = "try"
  /\ IF counter = 0 THEN Fail(t)
     ELSE local' = [local EXCEPT ![t].old = counter] /\ Go(t, "cas")
  /\ UNCHANGED <<counter, issued>>

\* Wrong: the counter is written whatever it holds by now.
StoresBlindly(t) ==
  /\ place[t] = "cas"
  /\ counter' = local[t].old - 1
  /\ local' = [local EXCEPT ![t] = [val |-> 0, old |-> 0, failed |-> "sleep"]]
  /\ Go(t, "got")
  /\ UNCHANGED issued

CompareExchange(t) ==
  /\ place[t] = "cas"
  /\ IF counter = local[t].old
     THEN /\ counter' = counter - 1
          /\ local' = [local EXCEPT ![t] = [val |-> 0, old |-> 0, failed |-> "sleep"]]
          /\ Go(t, "got")
     ELSE Fail(t) /\ UNCHANGED counter
  /\ UNCHANGED issued

\* After a sleep one attempt precedes the next spin.
WakeUp(t) == [local EXCEPT ![t].failed = "load"]

\* __platform_wait(): EAGAIN if the counter has changed.
Sleep(t) ==
  /\ place[t] = "sleep"
  /\ IF counter = local[t].val THEN Go(t, "asleep") /\ UNCHANGED local
     ELSE Go(t, "try") /\ local' = WakeUp(t)
  /\ UNCHANGED <<counter, issued>>

\* EINTR
InterruptSleep(t) ==
  /\ place[t] = "asleep"
  /\ Go(t, "try") /\ local' = WakeUp(t)
  /\ UNCHANGED <<counter, issued>>

\* The deadline of _M_do_wait_until() passes, before the sleep or in it: then
\* (ETIMEDOUT) it spins once more.
DeadlinePasses(t) ==
  /\ t \notin Patient
  /\ \/ place[t] = "sleep" /\ Go(t, "out") /\ UNCHANGED local
     \/ /\ place[t] = "asleep" /\ Go(t, "try")
        /\ local' = [local EXCEPT ![t].failed = "out"]
  /\ UNCHANGED <<counter, issued>>

-----------------------------------------------------------------------------
(* _M_release()                                                            *)

\* An acquirer gives back what it got; releasers add to the semaphore.
MayRelease(t, update) ==
  IF t \in Acquirers THEN place[t] = "got" /\ update = 1
  ELSE place[t] = "out" /\ issued + update <= SemMax

FetchAdd(t, update) ==
  /\ MayRelease(t, update)
  /\ counter' = counter + update
  /\ issued' = IF t \in Acquirers THEN issued ELSE issued + update
  /\ Go(t, IF counter > 0 THEN "out" ELSE "notify")
  /\ UNCHANGED local

\* A consumer does not give back what it got.
UseUp(t) ==
  /\ place[t] = "got"
  /\ issued' = issued - 1
  /\ Go(t, "out")
  /\ UNCHANGED <<counter, local>>

\* Those that the notification wakes try again.
Notified(t, W) ==
  /\ place' = [u \in SemThreads |-> IF u = t THEN "out"
                                    ELSE IF u \in W THEN "try" ELSE place[u]]
  /\ local' = [u \in Acquirers |-> IF u \in W THEN WakeUp(u)[u] ELSE local[u]]
  /\ UNCHANGED <<counter, issued>>

\* Wrong: what would do for a release of one, by the comment in the source.
NotifiesSingle(t) ==
  /\ place[t] = "notify"
  /\ \E W \in SUBSET Asleep :
       Cardinality(W) = (IF Asleep = {} THEN 0 ELSE 1) /\ Notified(t, W)

\* __atomic_notify_address_bare(), for all whatever the update was.
NotifyBare(t) ==
  /\ place[t] = "notify"
  /\ Notified(t, Asleep)

AcquireStep(t) == LoadValue(t) \/ LoadOld(t) \/ CompareExchange(t) \/ Sleep(t)

SemNext ==
  \/ \E t \in Acquirers : \/ Acquire(t) \/ AcquireStep(t) \/ UseUp(t)
                          \/ InterruptSleep(t) \/ DeadlinePasses(t)
  \/ \E t \in SemThreads : (\E n \in Updates : FetchAdd(t, n)) \/ NotifyBare(t)

SemSpec == SemInit /\ [][SemNext]_semVars

\* Threads are scheduled and deadlines pass.  Nobody has to acquire or release.
SemFairSpec == /\ SemSpec
               /\ \A t \in Acquirers : WF_semVars(AcquireStep(t)) /\ WF_semVars(DeadlinePasses(t))
               /\ \A t \in SemThreads : WF_semVars(NotifyBare(t))

-----------------------------------------------------------------------------
(* Properties                                                              *)

SemTypeOK ==
  /\ counter \in 0 .. SemMax /\ issued \in 0 .. SemMax
  /\ local \in [Acquirers -> [val : 0 .. SemMax, old : 0 .. SemMax,
                             failed : {"sleep", "load", "out"}]]
  /\ place \in [SemThreads -> {"out", "load", "try", "cas", "sleep", "asleep", "got",
                              "notify"}]

\* No token is made or lost: those in the counter and those that acquirers hold
\* are those that were released and not used up.
TokensConserved == counter + Cardinality(Holders) = issued

\* Those that went to sleep on an empty semaphore do not sleep next to a token:
\* a notification is on its way.
EmptyWokenUp ==
  (counter > 0 /\ \E t \in Asleep : local[t].val = 0)
    => \E t \in SemThreads : place[t] = "notify"

\* An acquirer that sleeps on an empty semaphore wakes up after a release.
ReleaseWakes ==
  \A t \in Acquirers :
    (place[t] = "asleep" /\ local[t].val = 0 /\ counter > 0) ~> place[t] # "asleep"

=============================================================================
