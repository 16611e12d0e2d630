---------------------------- MODULE AtomicFutex -----------------------------
(***************************************************************************)
(* __atomic_futex_unsigned of bits/atomic_futex.h on Linux: a number that  *)
(* threads wait for to be, or not to be, some value.  Its highest bit says *)
(* that somebody may be asleep; a store that finds it clear wakes nobody.  *)
(***************************************************************************)
EXTENDS Naturals, FiniteSets

CONSTANTS Loaders,    \* threads that wait
          Limited,    \* those whose waits have a deadline
          Publishers, \* threads that store
          Numbers     \* what is stored, without the bit

ASSUME LimitedOK == Limited \subseteq Loaders
ASSUME NumbersOK == 0 \in Numbers

VARIABLES data,     \* _M_data without the bit
          bit,      \* _Waiter_bit
          wait,     \* the wait of each loader
          storing   \* the publishers between their exchange and the wakeup

futexVars == <<data, bit, wait, storing>>

NoWait == [at |-> "out", operand |-> 0, equal |-> FALSE, assumed |-> 0]

FutexInit == /\ data = 0 /\ bit = FALSE
             /\ wait = [t \in Loaders |-> NoWait]
             /\ storing = {}

Move(t, to) == wait' = [wait EXCEPT ![t].at = to]
Satisfied(t, v) == (wait[t].operand = v) = wait[t].equal

-----------------------------------------------------------------------------
\* _M_load_when_equal(), _M_load_when_not_equal() and the timed ones.
Load(t, operand, equal) ==
  /\ wait[t].at = "out"
  /\ (operand = data) # equal
  /\ wait' = [wait EXCEPT ![t] = [at |-> "announce", operand |-> operand,
                                  equal |-> equal, assumed |-> data]]
  /\ UNCHANGED <<data, bit, storing>>

\* _M_load_and_test_until(): the bit is set, whatever the value is by now.
Announce(t) ==
  /\ wait[t].at = "announce"
  /\ bit' = TRUE
  /\ Move(t, "sleep")
  /\ UNCHANGED <<data, storing>>

\* _M_futex_wait_until() with __assumed | _Waiter_bit
SleepOn(t) ==
  /\ wait[t].at = "sleep"
  /\ Move(t, IF bit /\ data = wait[t].assumed THEN "asleep" ELSE "woken")
  /\ UNCHANGED <<data, bit, storing>>

\* Back from the futex: load and test again.
Reload(t) ==
  /\ wait[t].at = "woken"
  /\ wait' = [wait EXCEPT ![t] = IF Satisfied(t, data) THEN NoWait
                                 ELSE [@ EXCEPT !.at = "announce", !.assumed = data]]
  /\ UNCHANGED <<data, bit, storing>>

\* The deadline: the wait ends whatever is stored.
PassDeadline(t) ==
  /\ wait[t].at = "asleep" /\ t \in Limited
  /\ wait' = [wait EXCEPT ![t] = NoWait]
  /\ UNCHANGED <<data, bit, storing>>

WakeForNothing(t) ==
  /\ wait[t].at = "asleep"
  /\ Move(t, "woken")
  /\ UNCHANGED <<data, bit, storing>>

\* Wrong: what the exchange returns is not looked at.
ForgetsBit(p, v) ==
  /\ p \notin storing
  /\ data' = v /\ bit' = FALSE
  /\ UNCHANGED <<wait, storing>>

\* _M_store_notify_all(): the exchange clears the bit ...
Exchange(p, v) ==
  /\ p \notin storing
  /\ data' = v /\ bit' = FALSE
  /\ storing' = IF bit THEN storing \cup {p} ELSE storing
  /\ UNCHANGED wait

\* ... and _M_futex_notify_all() follows if it was set.
NotifySleepers(p) ==
  /\ p \in storing
  /\ storing' = storing \ {p}
  /\ wait' = [t \in Loaders |-> IF wait[t].at = "asleep"
                                THEN [wait[t] EXCEPT !.at = "woken"] ELSE wait[t]]
  /\ UNCHANGED <<data, bit>>

LoadStep(t) == Announce(t) \/ SleepOn(t) \/ Reload(t)

FutexNext ==
  \/ \E t \in Loaders :
        \/ \E operand \in Numbers, equal \in BOOLEAN : Load(t, operand, equal)
        \/ LoadStep(t) \/ PassDeadline(t) \/ WakeForNothing(t)
  \/ \E p \in Publishers : (\E v \in Numbers : Exchange(p, v)) \/ NotifySleepers(p)

FutexSpec == FutexInit /\ [][FutexNext]_futexVars

FutexFairSpec == /\ FutexSpec
                 /\ \A t \in Loaders : WF_futexVars(LoadStep(t)) /\ WF_futexVars(PassDeadline(t))
                 /\ \A p \in Publishers : WF_futexVars(NotifySleepers(p))

-----------------------------------------------------------------------------
(* Properties                                                              *)

FutexTypeOK ==
  /\ data \in Numbers /\ bit \in BOOLEAN /\ storing \subseteq Publishers
  /\ wait \in [Loaders -> [at : {"out", "announce", "sleep", "asleep", "woken"},
                           operand : Numbers \cup {0}, equal : BOOLEAN,
                           assumed : Numbers \cup {0}]]
  /\ \A t \in Loaders : wait[t].at = "out" => wait[t] = NoWait

\* Whoever is asleep sleeps on the value that is stored, with the bit set, or a
\* publisher that cleared the bit is about to wake everybody: so it is enough
\* for a store to look at the bit.
SleeperCovered ==
  \A t \in Loaders :
    wait[t].at = "asleep" => (bit /\ data = wait[t].assumed) \/ storing # {}

\* A wait without a deadline ends only with what it waits for.
EndsSatisfied ==
  [][\A t \in Loaders \ Limited :
       (wait[t].at # "out" /\ wait'[t].at = "out") => Satisfied(t, data)]_futexVars

\* A wait ends once the condition holds, unless it is made false again.
SatisfiedReturns ==
  \A t \in Loaders :
    (wait[t].at # "out" /\ Satisfied(t, data)) ~> (wait[t].at = "out" \/ ~Satisfied(t, data))

=============================================================================
