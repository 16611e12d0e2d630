------------------------------- MODULE RWMutex ------------------------------
(***************************************************************************)
(* core.sync.rwmutex.ReadWriteMutex.  Every method of Reader and Writer    *)
(* runs inside synchronized(m_commonMutex), which it gives up only in a    *)
(* Condition.wait, so one action is one stretch of a method between taking *)
(* the common mutex and releasing it.  A waiter is "Asleep" in wait() and  *)
(* "Awake" once it has been notified, its deadline has passed or the       *)
(* condition variable woke it for no reason: it then competes for the      *)
(* common mutex with every other thread before it tests its condition.     *)
(* A thread holds at most one lock of the mutex at a time.                 *)
(***************************************************************************)
EXTENDS Integers, FiniteSets

CONSTANTS Threads,       \* the threads that use the mutex
          TimedReaders,  \* those that may call reader.tryLock(timeout)
          TimedWriters   \* those that may call writer.tryLock(timeout),
                         \* for each policy

ASSUME ThreadsFinite == IsFiniteSet(Threads)

VARIABLES
  m_policy,            \* set by the constructor
  pc,                  \* where each thread is
  timed,               \* the threads whose current wait has a deadline
  m_numQueuedReaders,
  m_numActiveReaders,
  m_numQueuedWriters,
  m_numActiveWriters

counters == <<m_numQueuedReaders, m_numActiveReaders,
              m_numQueuedWriters, m_numActiveWriters>>
vars == <<m_policy, pc, timed, counters>>

Policies == {"PREFER_READERS", "PREFER_WRITERS"}

Places == {"idle", "reading", "writing",
           "readerAsleep", "readerAwake", "writerAsleep", "writerAwake"}

\* The threads at one of the places P.
At(P) == {t \in Threads : pc[t] \in P}

Init == /\ m_policy \in Policies
        /\ pc = [t \in Threads |-> "idle"]
        /\ timed = {}
        /\ m_numQueuedReaders = 0 /\ m_numActiveReaders = 0
        /\ m_numQueuedWriters = 0 /\ m_numActiveWriters = 0

-----------------------------------------------------------------------------
\* Wrong: readers do not queue behind the writers that wait.
IgnoresQueuedWriters == m_numActiveWriters > 0

shouldQueueReader ==
  \/ m_numActiveWriters > 0
  \/ m_policy = "PREFER_WRITERS" /\ m_numQueuedWriters > 0

shouldQueueWriter ==
  \/ m_numActiveWriters > 0
  \/ m_numActiveReaders > 0
  \/ m_policy = "PREFER_READERS" /\ m_numQueuedReaders > 0

Move(t, place) == pc' = [pc EXCEPT ![t] = place]

\* notify(): some sleeper wakes, if there is one.  Thread t moves to idle.
MoveAndNotify(t, asleep, awake) ==
  IF At({asleep}) = {}
  THEN Move(t, "idle")
  ELSE \E w \in At({asleep}) : pc' = [pc EXCEPT ![t] = "idle", ![w] = awake]

\* notifyAll(): every sleeper wakes.  Thread t moves to idle.
MoveAndNotifyAll(t, asleep, awake) ==
  pc' = [u \in Threads |-> IF u = t THEN "idle"
                           ELSE IF pc[u] = asleep THEN awake ELSE pc[u]]

-----------------------------------------------------------------------------
(* Reader                                                                  *)

\* lock(), tryLock() and tryLock(timeout) that need not wait.  A tryLock()
\* that would have to wait returns false and leaves no trace.
ReaderEnter(t) ==
  /\ pc[t] = "idle"
  /\ ~shouldQueueReader
  /\ m_numActiveReaders' = m_numActiveReaders + 1
  /\ Move(t, "reading")
  /\ UNCHANGED <<m_policy, timed, m_numQueuedReaders, m_numQueuedWriters, m_numActiveWriters>>

\* lock() or tryLock(timeout) that has to wait, up to its first wait().
ReaderQueue(t) ==
  /\ pc[t] = "idle"
  /\ shouldQueueReader
  /\ m_numQueuedReaders' = m_numQueuedReaders + 1
  /\ timed' \in {timed} \cup {timed \cup {u} : u \in TimedReaders \cap {t}}
  /\ Move(t, "readerAsleep")
  /\ UNCHANGED <<m_policy, m_numActiveReaders, m_numQueuedWriters, m_numActiveWriters>>

\* The wait() is over and the loop ends: the queue is left, the lock taken.
ReaderAcquire(t) ==
  /\ pc[t] = "readerAwake"
  /\ ~shouldQueueReader
  /\ m_numActiveReaders' = m_numActiveReaders + 1
  /\ m_numQueuedReaders' = m_numQueuedReaders - 1
  /\ timed' = timed \ {t}
  /\ Move(t, "reading")
  /\ UNCHANGED <<m_policy, m_numQueuedWriters, m_numActiveWriters>>

\* The wait() is over and the loop goes round: wait again.
ReaderWaitAgain(t) ==
  /\ pc[t] = "readerAwake"
  /\ shouldQueueReader
  /\ Move(t, "readerAsleep")
  /\ UNCHANGED <<m_policy, timed, counters>>

\* Wrong: a reader that times out remains counted as queued.
StaysQueued(t) ==
  /\ pc[t] = "readerAwake"
  /\ t \in timed
  /\ shouldQueueReader
  /\ timed' = timed \ {t}
  /\ Move(t, "idle")
  /\ UNCHANGED <<m_policy, counters>>

\* tryLock(timeout) returns false: the scope guard leaves the queue.
ReaderTimeout(t) ==
  /\ pc[t] = "readerAwake"
  /\ t \in timed
  /\ shouldQueueReader
  /\ m_numQueuedReaders' = m_numQueuedReaders - 1
  /\ timed' = timed \ {t}
  /\ Move(t, "idle")
  /\ UNCHANGED <<m_policy, m_numActiveReaders, m_numQueuedWriters, m_numActiveWriters>>

ReaderUnlock(t) ==
  /\ pc[t] = "reading"
  /\ m_numActiveReaders' = m_numActiveReaders - 1
  /\ IF m_numActiveReaders - 1 < 1 /\ m_numQueuedWriters > 0
     THEN MoveAndNotify(t, "writerAsleep", "writerAwake")
     ELSE Move(t, "idle")
  /\ UNCHANGED <<m_policy, timed, m_numQueuedReaders, m_numQueuedWriters, m_numActiveWriters>>

-----------------------------------------------------------------------------
(* Writer                                                                  *)

WriterEnter(t) ==
  /\ pc[t] = "idle"
  /\ ~shouldQueueWriter
  /\ m_numActiveWriters' = m_numActiveWriters + 1
  /\ Move(t, "writing")
  /\ UNCHANGED <<m_policy, timed, m_numQueuedReaders, m_numActiveReaders, m_numQueuedWriters>>

WriterQueue(t) ==
  /\ pc[t] = "idle"
  /\ shouldQueueWriter
  /\ m_numQueuedWriters' = m_numQueuedWriters + 1
  /\ timed' \in {timed} \cup {timed \cup {u} : u \in TimedWriters[m_policy] \cap {t}}
  /\ Move(t, "writerAsleep")
  /\ UNCHANGED <<m_policy, m_numQueuedReaders, m_numActiveReaders, m_numActiveWriters>>

WriterAcquire(t) ==
  /\ pc[t] = "writerAwake"
  /\ ~shouldQueueWriter
  /\ m_numActiveWriters' = m_numActiveWriters + 1
  /\ m_numQueuedWriters' = m_numQueuedWriters - 1
  /\ timed' = timed \ {t}
  /\ Move(t, "writing")
  /\ UNCHANGED <<m_policy, m_numQueuedReaders, m_numActiveReaders>>

WriterWaitAgain(t) ==
  /\ pc[t] = "writerAwake"
  /\ shouldQueueWriter
  /\ Move(t, "writerAsleep")
  /\ UNCHANGED <<m_policy, timed, counters>>

WriterTimeout(t) ==
  /\ pc[t] = "writerAwake"
  /\ t \in timed
  /\ shouldQueueWriter
  /\ m_numQueuedWriters' = m_numQueuedWriters - 1
  /\ timed' = timed \ {t}
  /\ Move(t, "idle")
  /\ UNCHANGED <<m_policy, m_numQueuedReaders, m_numActiveReaders, m_numActiveWriters>>

\* Wrong: notify() where notifyAll() is needed.
NotifyOneReader(t) == MoveAndNotify(t, "readerAsleep", "readerAwake")

NotifyReaders(t) == MoveAndNotifyAll(t, "readerAsleep", "readerAwake")
NotifyWriter(t)  == MoveAndNotify(t, "writerAsleep", "writerAwake")

\* Wrong: the policies are swapped.
WakeByOtherPolicy(t) ==
  IF m_numQueuedReaders > 0 /\ (m_policy = "PREFER_WRITERS" \/ m_numQueuedWriters = 0)
  THEN NotifyReaders(t)
  ELSE IF m_numQueuedWriters > 0 THEN NotifyWriter(t) ELSE Move(t, "idle")

\* Whom the policy wakes first when a writer leaves.
WakeByPolicy(t) ==
  IF m_policy = "PREFER_WRITERS"
  THEN IF m_numQueuedWriters > 0 THEN NotifyWriter(t)
       ELSE IF m_numQueuedReaders > 0 THEN NotifyReaders(t)
       ELSE Move(t, "idle")
  ELSE IF m_numQueuedReaders > 0 THEN NotifyReaders(t)
       ELSE IF m_numQueuedWriters > 0 THEN NotifyWriter(t)
       ELSE Move(t, "idle")

WriterUnlock(t) ==
  /\ pc[t] = "writing"
  /\ m_numActiveWriters' = m_numActiveWriters - 1
  /\ IF m_numActiveWriters - 1 < 1 THEN WakeByPolicy(t) ELSE Move(t, "idle")
  /\ UNCHANGED <<m_policy, timed, m_numQueuedReaders, m_numActiveReaders, m_numQueuedWriters>>

-----------------------------------------------------------------------------
(* The condition variables                                                 *)

Wakes(t) ==
  \/ pc[t] = "readerAsleep" /\ Move(t, "readerAwake")
  \/ pc[t] = "writerAsleep" /\ Move(t, "writerAwake")

\* The deadline of a wait passes.
Expire(t) == t \in timed /\ Wakes(t) /\ UNCHANGED <<m_policy, timed, counters>>

\* A condition variable may wake a waiter for no reason at all.
SpuriousWakeup(t) == Wakes(t) /\ UNCHANGED <<m_policy, timed, counters>>

-----------------------------------------------------------------------------
\* A thread in the middle of a call carries on.
Resume(t) ==
  \/ ReaderAcquire(t) \/ ReaderWaitAgain(t) \/ ReaderTimeout(t)
  \/ WriterAcquire(t) \/ WriterWaitAgain(t) \/ WriterTimeout(t)

Unlock(t) == ReaderUnlock(t) \/ WriterUnlock(t)

Call(t) ==
  \/ ReaderEnter(t) \/ ReaderQueue(t)
  \/ WriterEnter(t) \/ WriterQueue(t)

Next == \E t \in Threads : \/ Call(t) \/ Resume(t) \/ Unlock(t)
                           \/ Expire(t) \/ SpuriousWakeup(t)

Spec == Init /\ [][Next]_vars

(***************************************************************************)
(* A thread that was woken gets the common mutex some day, deadlines pass, *)
(* and the callers are assumed to unlock what they lock.  Nothing is fair  *)
(* about spurious wakeups, nor does anyone have to call lock().            *)
(***************************************************************************)
Fairness == \A t \in Threads : /\ WF_vars(Resume(t))
                               /\ WF_vars(Unlock(t))
                               /\ WF_vars(Expire(t))

FairSpec == Spec /\ Fairness

-----------------------------------------------------------------------------
(* Properties                                                              *)

Waiting == {"readerAsleep", "readerAwake", "writerAsleep", "writerAwake"}

\* Every variable has its type, and a deadline belongs to a thread that waits.
TypeOK ==
  /\ m_policy \in Policies
  /\ pc \in [Threads -> Places]
  /\ timed \subseteq At(Waiting)
  /\ \A n \in {m_numQueuedReaders, m_numActiveReaders,
               m_numQueuedWriters, m_numActiveWriters} : n \in Nat

\* The four counters say how many threads hold and wait for the lock, on
\* every path in and out of every method, the scope guards included.
CountersMatch ==
  /\ m_numActiveReaders = Cardinality(At({"reading"}))
  /\ m_numActiveWriters = Cardinality(At({"writing"}))
  /\ m_numQueuedReaders = Cardinality(At({"readerAsleep", "readerAwake"}))
  /\ m_numQueuedWriters = Cardinality(At({"writerAsleep", "writerAwake"}))

\* Writers exclude each other and the readers, although the code compares
\* counters only and a woken thread can find the lock taken by another.
MutualExclusion ==
  \A t \in At({"writing"}) : At({"reading", "writing"}) = {t}

\* No wakeup is lost: while nobody holds the lock, a thread that waits for
\* it asleep can count on a thread that is already awake.
NoStrandedWaiter ==
  At({"readerAsleep", "writerAsleep"}) # {} =>
      At({"reading", "writing", "readerAwake", "writerAwake"}) # {}

\* "Once there are no writers present, all queued readers will be alerted"
\* (rwmutex.d:61): no reader sleeps when no writer holds or awaits the lock.
QueuedReadersAlerted ==
  At({"writing", "writerAsleep", "writerAwake"}) = {} =>
      At({"readerAsleep"}) = {}

\* Both together, for whichever side a wakeup was meant for.
WaitersInv == NoStrandedWaiter /\ QueuedReadersAlerted

\* The mutex implements the abstract lock with its policy: who may enter,
\* and that under either policy the preferred kind of caller is never
\* overtaken by the other kind once it is in the queue.
Lock == INSTANCE RWLock WITH
          policy    <- m_policy,
          readers   <- At({"reading"}),
          writers   <- At({"writing"}),
          wantRead  <- At({"readerAsleep", "readerAwake"}),
          wantWrite <- At({"writerAsleep", "writerAwake"})
ImplementsLock == Lock!Spec

\* PREFER_READERS does not starve a reader: each one that queues leaves the
\* queue, however many writers come and go.
ReaderServed ==
  \A t \in Threads :
    m_policy = "PREFER_READERS" /\ pc[t] \in {"readerAsleep", "readerAwake"}
      ~> pc[t] \notin {"readerAsleep", "readerAwake"}

\* PREFER_WRITERS does not starve the writers: while some are queued, one of
\* them gets the lock in the end.
WriterServed ==
  m_policy = "PREFER_WRITERS" /\ At({"writerAsleep", "writerAwake"}) # {}
    ~> At({"writing"}) # {}

\* Neither policy starves the side that it prefers.
PreferredServed == ReaderServed /\ WriterServed

=============================================================================
