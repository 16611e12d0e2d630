----------------------------- MODULE MCThreads ------------------------------
(***************************************************************************)
(* Small instances of the reader-writer mutex, and of the links and names  *)
(* of std.concurrency.  A behaviour is one of them, and the other stays as *)
(* it began.                                                               *)
(***************************************************************************)
EXTENDS RWMutex, Links

CONSTANTS t1, t2, t3, t4, n1, n2

MCThree == {t1, t2, t3}
MCFour == {t1, t2, t3, t4}
MCNobody == {}

\* Writers set deadlines unless the policy prefers them; and always.
MCTimedWriters == [p \in Policies |-> IF p = "PREFER_READERS" THEN Threads ELSE {}]
MCAllTimed == [p \in Policies |-> Threads]

MCSpawned == {t2, t3}
MCNames == {n1, n2}
\* A tree of three threads; or two threads and their names.
MCSettings == {[spawned |-> {t2, t3}, names |-> {}], [spawned |-> {t2}, names |-> {n1, n2}]}
MCOneName == {[spawned |-> {t2}, names |-> {n1}]}

VARIABLE part
threadVars == <<part, vars, linkVars>>

ThreadsInit == /\ part \in {"lock", "links"}
               /\ Init /\ LinksInit
               /\ part = "lock" => setting = CHOOSE s \in Settings : TRUE
               /\ part = "links" => m_policy = "PREFER_READERS"

LockAlone(A) == part = "lock" /\ A /\ UNCHANGED <<part, linkVars>>
LinksAlone(A) == part = "links" /\ A /\ UNCHANGED <<part, vars>>

\* All threads may have ended; but those that use the mutex never all wait.
AllEnded == LinksAlone((\A t \in Tids : life[t] \in {"unborn", "dead"}) /\ UNCHANGED linkVars)

ThreadsNext == LockAlone(Next) \/ LinksAlone(LinksNext) \/ AllEnded

\* The steps that a thread is sure to take.
StepOf(t) == \/ LockAlone(t \in Threads /\ Resume(t))
             \/ LinksAlone(t \in Tids /\ (AddLink(t) \/ Begin(t) \/ CleanupStep(t)))
ThreadsSpec == ThreadsInit /\ [][ThreadsNext]_threadVars
ThreadsFairSpec ==
  /\ ThreadsSpec
  /\ \A t \in MCFour : WF_threadVars(StepOf(t))
  /\ \A t \in Threads : /\ WF_threadVars(LockAlone(Unlock(t)))
                        /\ WF_threadVars(LockAlone(Expire(t)))
  /\ \A t \in Tids : WF_threadVars(LinksAlone(ReceiveNotice(t)))
  /\ WF_threadVars(LinksAlone(AddEntry))

LockSpec == part = "lock" /\ ThreadsSpec
NamesSpec == part = "links" /\ ThreadsSpec

=============================================================================
