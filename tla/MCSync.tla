------------------------------- MODULE MCSync --------------------------------
(***************************************************************************)
(* Small instances of the barrier and of the condition variable of         *)
(* Windows.  A behaviour is one of them, and the other stays as it began.  *)
(***************************************************************************)
EXTENDS Barrier, WinCondition

CONSTANTS t1, t2, t3, t4, t5

\* More threads than fit in a group: groups overlap.
MCFive == {t1, t2, t3, t4, t5}

MCThree == {t1, t2, t3}
MCFour == {t1, t2, t3, t4}
\* Everybody waits, without timeouts; or just one thread does, with them.
MCNoRace == {[waiters |-> MCFour, timed |-> {}], [waiters |-> {t1}, timed |-> {t1}]}
\* Two wait, one of them with timeouts.
MCRace == {[waiters |-> {t1, t2}, timed |-> {t1}]}

VARIABLE part
syncVars == <<part, vars, winVars>>

SyncInit == /\ part \in {"barrier", "gate"}
            /\ Init /\ WinInit
            /\ part = "barrier" => use = CHOOSE u \in Uses : TRUE

BarrierAlone(A) == part = "barrier" /\ A /\ UNCHANGED <<part, winVars>>
GateAlone(A) == part = "gate" /\ A /\ UNCHANGED <<part, vars>>

\* Threads may wait on a condition for ever; those at a barrier never all do.
SyncNext == \/ BarrierAlone(Next) \/ GateAlone(WinNext)
            \/ part = "gate" /\ UNCHANGED syncVars

\* Each part with its own fairness.
SyncFairSpec ==
  /\ SyncInit /\ [][SyncNext]_syncVars
  /\ \A t \in Threads : WF_syncVars(BarrierAlone(Leave(t) \/ WaitAgain(t)))
  /\ \A t \in Callers : /\ SF_syncVars(GateAlone(Step(t)))
                        /\ WF_syncVars(GateAlone(Unlock(t)))
GateFairSpec == part = "gate" /\ SyncFairSpec

=============================================================================
