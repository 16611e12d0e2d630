----------------------------- MODULE AtomicWait -----------------------------
(***************************************************************************)
(* bits/atomic_wait.h and bits/atomic_timed_wait.h of libstdc++, built for *)
(* Linux: wait() and notify on atomic objects.  An object that has the     *)
(* size of a futex word is waited for on its own address; all the others   *)
(* that hash to one waiter pool share the pool's version word.  A step is  *)
(* one atomic access or one system call.  Objects are those of one pool.   *)
(***************************************************************************)
EXTENDS Naturals, FiniteSets

CONSTANTS Users,       \* the threads
          Storers,     \* those that store and notify; the others wait
          Timed,       \* those that wait with a timeout
          Objects,     \* the atomic objects
          Direct,      \* those that are futex words themselves
          Sole,        \* those that one thread at most waits for
          Values,
          MaxVersion   \* bound on the notifications that bump the version

ASSUME ObjectsOK == Direct \subseteq Objects /\ Sole \subseteq Objects /\ "version" \notin Objects
ASSUME UsersOK == IsFiniteSet(Users) /\ Storers \subseteq Users /\ Timed \subseteq Users \ Storers
ASSUME ValuesOK == 0 \in Values /\ Values \subseteq Nat
ASSUME MaxVersionOK == MaxVersion \in Nat

VARIABLES word,     \* what is stored in each object
          version,  \* __waiter_pool_base._M_ver
          waiting,  \* __waiter_pool_base._M_wait
          call      \* what each thread is doing

awVars == <<word, version, waiting, call>>

Address == Direct \cup {"version"}
Pool == "version"

\* _S_wait_addr()
WaitAddress(o) == IF o \in Direct THEN o ELSE Pool
Content(a) == IF a = Pool THEN version ELSE word[a]

\* old and val are the operands of wait(); all is that of a notification.
Idle == [at |-> "out", obj |-> Pool, old |-> 0, val |-> 0, all |-> FALSE]

AWInit == /\ word = [o \in Objects |-> CHOOSE v \in Values : \A u \in Values : v <= u]
          /\ version = 0
          /\ waiting = 0
          /\ call = [t \in Users |-> Idle]

At(t, places) == call[t].at \in places
Enter(t, place) == call' = [call EXCEPT ![t].at = place]
Sleepers(a) == {t \in Users : At(t, {"asleep"}) /\ WaitAddress(call[t].obj) = a}
WaitPlaces == {"load", "check", "sleep", "asleep", "awake", "leave"}

-----------------------------------------------------------------------------
(* wait()                                                                  *)

\* The constructor of __waiter: _M_enter_wait().
EnterWait(t, o, old) ==
  /\ At(t, {"out"}) /\ t \notin Storers
  /\ o \in Sole => \A u \in Users \ {t} : ~(At(u, WaitPlaces) /\ call[u].obj = o)
  /\ waiting' = waiting + 1
  /\ call' = [call EXCEPT ![t] = [at |-> "load", obj |-> o, old |-> old, val |-> 0,
                                  all |-> FALSE]]
  /\ UNCHANGED <<word, version>>

\* _S_do_spin_v(): what the futex word is expected to hold ...
LoadExpected(t) ==
  /\ At(t, {"load"})
  /\ call' = [call EXCEPT ![t].at = "check",
                          ![t].val = IF call[t].obj \in Direct THEN call[t].old
                                     ELSE version]
  /\ UNCHANGED <<word, version, waiting>>

\* ... and then __atomic_spin(), whose last comparison counts.
Spin(t) ==
  /\ At(t, {"check"})
  /\ Enter(t, IF word[call[t].obj] # call[t].old THEN "leave" ELSE "sleep")
  /\ UNCHANGED <<word, version, waiting>>

\* Wrong: the version is read in the system call, after the comparison.
ExpectsAnything(t) ==
  /\ At(t, {"sleep"})
  /\ Enter(t, "asleep")
  /\ UNCHANGED <<word, version, waiting>>

\* futex(FUTEX_WAIT): EAGAIN unless the word still holds what is expected.
FutexWait(t) ==
  /\ At(t, {"sleep"})
  /\ Enter(t, IF Content(WaitAddress(call[t].obj)) = call[t].val THEN "asleep"
              ELSE "awake")
  /\ UNCHANGED <<word, version, waiting>>

\* EINTR
Interrupt(t) ==
  /\ At(t, {"asleep"})
  /\ Enter(t, "awake")
  /\ UNCHANGED <<word, version, waiting>>

\* A timed wait does not look at the object again, the others do.
Resume(t) ==
  /\ At(t, {"awake"})
  /\ Enter(t, IF t \notin Timed /\ word[call[t].obj] = call[t].old THEN "load"
              ELSE "leave")
  /\ UNCHANGED <<word, version, waiting>>

\* ETIMEDOUT
TimeOut(t) ==
  /\ At(t, {"asleep"}) /\ t \in Timed
  /\ Enter(t, "leave")
  /\ UNCHANGED <<word, version, waiting>>

\* The destructor of __waiter: _M_leave_wait().
LeaveWait(t) ==
  /\ At(t, {"leave"})
  /\ waiting' = waiting - 1
  /\ call' = [call EXCEPT ![t] = Idle]
  /\ UNCHANGED <<word, version>>

-----------------------------------------------------------------------------
(* A store, and the notification a program sends after it                  *)

Store(t, o, v, all) ==
  /\ At(t, {"out"}) /\ t \in Storers
  /\ all \/ o \in Sole
  /\ o \notin Direct => version < MaxVersion
  /\ word' = [word EXCEPT ![o] = v]
  /\ call' = [call EXCEPT ![t] = [Idle EXCEPT !.at = "notify", !.obj = o, !.all = all]]
  /\ UNCHANGED <<version, waiting>>

\* Wrong: the version word is notified as if it had one kind of waiter.
BumpsForOne(t) ==
  /\ At(t, {"notify"})
  /\ version' = IF call[t].obj \in Direct THEN version ELSE version + 1
  /\ Enter(t, "look")
  /\ UNCHANGED <<word, waiting>>

\* __waiter_pool_base::_M_notify(): those who wait for the version are woken
\* together, since they wait for different objects ...
Bump(t) ==
  /\ At(t, {"notify"})
  /\ version' = IF call[t].obj \in Direct THEN version ELSE version + 1
  /\ call' = [call EXCEPT ![t].at = "look", ![t].all = @ \/ call[t].obj \notin Direct]
  /\ UNCHANGED <<word, waiting>>

\* ... unless _M_waiting() finds nobody.
Look(t) ==
  /\ At(t, {"look"})
  /\ call' = [call EXCEPT ![t] = IF waiting = 0 THEN Idle ELSE [@ EXCEPT !.at = "wake"]]
  /\ UNCHANGED <<word, version, waiting>>

\* futex(FUTEX_WAKE)
FutexWake(t) ==
  /\ At(t, {"wake"})
  /\ LET S == Sleepers(WaitAddress(call[t].obj))
     IN  \E W \in SUBSET S :
           /\ IF call[t].all THEN W = S ELSE Cardinality(W) = IF S = {} THEN 0 ELSE 1
           /\ call' = [u \in Users |-> IF u = t THEN Idle
                                       ELSE IF u \in W THEN [call[u] EXCEPT !.at = "awake"]
                                       ELSE call[u]]
  /\ UNCHANGED <<word, version, waiting>>

WaitStep(t) == LoadExpected(t) \/ Spin(t) \/ FutexWait(t) \/ Resume(t) \/ LeaveWait(t)
NotifyStep(t) == Bump(t) \/ Look(t) \/ FutexWake(t)

AWNext ==
  \E t \in Users :
     \/ \E o \in Objects, old \in Values : EnterWait(t, o, old)
     \/ \E o \in Objects, v \in Values, all \in BOOLEAN : Store(t, o, v, all)
     \/ WaitStep(t) \/ NotifyStep(t) \/ Interrupt(t) \/ TimeOut(t)

AWSpec == AWInit /\ [][AWNext]_awVars

\* Threads are scheduled, and the time of a timed wait passes.
AWFairSpec == AWSpec /\ \A t \in Users : /\ WF_awVars(WaitStep(t)) /\ WF_awVars(TimeOut(t))
                                         /\ WF_awVars(NotifyStep(t))

-----------------------------------------------------------------------------
(* Properties                                                              *)

AWTypeOK ==
  /\ word \in [Objects -> Values]
  /\ version \in 0 .. MaxVersion + Cardinality(Users)
  /\ waiting \in 0 .. Cardinality(Users)
  /\ call \in [Users -> [at : WaitPlaces \cup {"out", "notify", "look", "wake"},
                         obj : Objects \cup {Pool}, old : Values, val : Nat,
                         all : BOOLEAN]]

\* _M_wait counts those between _M_enter_wait() and _M_leave_wait(): a
\* notification that is skipped because nobody is counted misses nobody.
WaitersCounted == waiting = Cardinality({t \in Users : At(t, WaitPlaces)})

\* Whoever sleeps although the object no longer holds what it waits on is about
\* to be woken: a thread that stored has not finished its notification, or an
\* expected version will not be found any more.
NoMissedNotify ==
  \A t \in Users :
    (At(t, {"asleep"}) /\ word[call[t].obj] # call[t].old) =>
      \E u \in Users : /\ At(u, {"notify", "look", "wake"})
                       /\ WaitAddress(call[u].obj) = WaitAddress(call[t].obj)

\* A wait for a change that has happened ends, unless the change is undone.
ChangeEndsWait ==
  \A t \in Users \ Storers :
    (At(t, WaitPlaces) /\ word[call[t].obj] # call[t].old)
      ~> (At(t, {"out"}) \/ word[call[t].obj] = call[t].old)

\* The count of waiters, the version and the futex words together: no notification
\* is skipped or sent before a thread that needs it goes to sleep.
WaitersMissNothing == AWTypeOK /\ WaitersCounted /\ NoMissedNotify

=============================================================================
