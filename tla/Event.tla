-------------------------------- MODULE Event -------------------------------
(***************************************************************************)
(* core.sync.event.Event, the Posix version.  Every method but wait() is   *)
(* one critical section of m_mutex; wait() is one or two, before and after *)
(* pthread_cond_wait(), which may also return for no reason at all.        *)
(***************************************************************************)
CONSTANTS Threads

VARIABLES m_initalized,  \* spelled as in the source
          m_state, m_manualReset,
          pc,            \* outside wait(), or in it: asleep, woken, expired
          timed,         \* the waiters that have a timeout
          saw            \* auxiliary: the waiters during whose wait the event
                         \* was signaled

vars == <<m_initalized, m_state, m_manualReset, pc, timed, saw>>

Waiters == {t \in Threads : pc[t] # "outside"}

Init == /\ m_initalized = FALSE /\ m_state = FALSE /\ m_manualReset = FALSE
        /\ pc = [t \in Threads |-> "outside"]
        /\ timed = {} /\ saw = {}

-----------------------------------------------------------------------------
initialize(manualReset, initialState) ==
  /\ ~m_initalized
  /\ m_initalized' = TRUE
  /\ m_state' = initialState
  /\ m_manualReset' = manualReset
  /\ UNCHANGED <<pc, timed, saw>>

\* "There must not be threads currently waiting": that is up to the caller.
terminate ==
  /\ m_initalized
  /\ Waiters = {}
  /\ m_initalized' = FALSE
  /\ UNCHANGED <<m_state, m_manualReset, pc, timed, saw>>

\* Wrong: pthread_cond_signal() where a broadcast is needed.
SignalsOne ==
  /\ m_initalized
  /\ m_state' = TRUE
  /\ IF \E t \in Threads : pc[t] = "asleep"
     THEN \E t \in Threads : pc[t] = "asleep" /\ pc' = [pc EXCEPT ![t] = "woken"]
     ELSE UNCHANGED pc
  /\ saw' = Waiters
  /\ UNCHANGED <<m_initalized, m_manualReset, timed>>

setIfInitialized ==
  /\ m_initalized
  /\ m_state' = TRUE
  /\ pc' = [t \in Threads |-> IF pc[t] = "asleep" THEN "woken" ELSE pc[t]]
  /\ saw' = Waiters
  /\ UNCHANGED <<m_initalized, m_manualReset, timed>>

reset ==
  /\ m_initalized
  /\ m_state' = FALSE
  /\ UNCHANGED <<m_initalized, m_manualReset, pc, timed, saw>>

\* The end of wait() with result 0.
Consume == m_state' = (m_state /\ m_manualReset)

\* wait() on a signaled event returns true at once.
WaitSignaled(t) ==
  /\ pc[t] = "outside"
  /\ m_initalized /\ m_state
  /\ Consume
  /\ UNCHANGED <<m_initalized, m_manualReset, pc, timed, saw>>

\* wait(), with a timeout or without.
WaitUnsignaled(t) ==
  /\ pc[t] = "outside"
  /\ m_initalized /\ ~m_state
  /\ pc' = [pc EXCEPT ![t] = "asleep"]
  /\ timed' \in {timed, timed \cup {t}}
  /\ UNCHANGED <<m_initalized, m_state, m_manualReset, saw>>

SpuriousWakeup(t) ==
  /\ pc[t] = "asleep"
  /\ pc' = [pc EXCEPT ![t] = "woken"]
  /\ UNCHANGED <<m_initalized, m_state, m_manualReset, timed, saw>>

Expire(t) ==
  /\ pc[t] = "asleep"
  /\ t \in timed
  /\ pc' = [pc EXCEPT ![t] = "expired"]
  /\ UNCHANGED <<m_initalized, m_state, m_manualReset, timed, saw>>

Leave(t) == /\ pc' = [pc EXCEPT ![t] = "outside"]
            /\ timed' = timed \ {t}
            /\ saw' = saw \ {t}
            /\ UNCHANGED <<m_initalized, m_manualReset>>

\* Wrong: a waiter returns only if the event is still signaled when it runs.
ReturnsIfSignaled(t) == pc[t] = "woken" /\ m_state /\ Consume /\ Leave(t)

\* pthread_cond_wait() returned 0: whatever woke the waiter, it returns true.
ReturnTrue(t) ==
  /\ pc[t] = "woken"
  /\ Consume
  /\ Leave(t)

\* pthread_cond_timedwait() returned ETIMEDOUT.
ReturnFalse(t) ==
  /\ pc[t] = "expired"
  /\ UNCHANGED m_state
  /\ Leave(t)

Return(t) == ReturnTrue(t) \/ ReturnFalse(t)

Next ==
  \/ \E manualReset, initialState \in BOOLEAN : initialize(manualReset, initialState)
  \/ terminate \/ setIfInitialized \/ reset
  \/ \E t \in Threads : \/ WaitSignaled(t) \/ WaitUnsignaled(t)
                        \/ SpuriousWakeup(t) \/ Expire(t) \/ Return(t)

Spec == Init /\ [][Next]_vars

\* A waiter that was woken gets m_mutex some day, and timeouts pass.
FairSpec == Spec /\ \A t \in Threads : WF_vars(Return(t)) /\ WF_vars(Expire(t))

-----------------------------------------------------------------------------
(* Properties                                                              *)

TypeOK ==
  /\ m_initalized \in BOOLEAN /\ m_state \in BOOLEAN /\ m_manualReset \in BOOLEAN
  /\ pc \in [Threads -> {"outside", "asleep", "woken", "expired"}]
  /\ timed \subseteq Waiters /\ saw \subseteq Waiters

\* Nobody sleeps while the event is signaled, and whoever was waiting when it
\* was signaled is on the way out even if it has been reset since.
SignaledAwake ==
  /\ m_state => \A t \in Threads : pc[t] # "asleep"
  /\ \A t \in saw : pc[t] # "asleep"

\* A waiter during whose wait the event was signaled returns, even if the
\* event is reset, or consumed by another waiter, before it runs.
SignaledLeaves == \A t \in Threads : (t \in saw) ~> (t \notin saw)

=============================================================================
