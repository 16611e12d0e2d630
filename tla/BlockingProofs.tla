---------------------------- MODULE BlockingProofs --------------------------
(***************************************************************************)
(* For any number of threads: nobody sleeps through what he waits for.     *)
(* Event: while it is signaled nobody sleeps.  The futex of a future: it   *)
(* is enough for a store to look at the bit.  Waits on atomic objects: the *)
(* count, the version and the words miss no notification.  Semaphore: no   *)
(* token is made or lost, and nobody who went to sleep on an empty one     *)
(* sleeps next to a token without a notification under way.                *)
(***************************************************************************)
EXTENDS Event, AtomicFutex, AtomicWait, Semaphore, FiniteSetTheorems, TLAPS

-----------------------------------------------------------------------------
(* Event                                                                   *)

\* An event that was terminated, or never initialized, has no waiters: else
\* initialize() could signal it behind their backs.
NoWaiters == ~m_initalized => Waiters = {}

EventInv == TypeOK /\ SignaledAwake /\ NoWaiters

LEMMA EventInitInv == Init => EventInv
BY DEF Init, EventInv, TypeOK, SignaledAwake, NoWaiters, Waiters

LEMMA EventInvStep == EventInv /\ [Next]_vars => EventInv'
<1> SUFFICES ASSUME EventInv, [Next]_vars PROVE EventInv'
  OBVIOUS
<1> USE DEF EventInv, TypeOK, SignaledAwake, NoWaiters, Waiters
<1>1. ASSUME NEW manualReset \in BOOLEAN, NEW initialState \in BOOLEAN,
             initialize(manualReset, initialState)
      PROVE  EventInv'
  <2>1. m_state' \in BOOLEAN /\ m_manualReset' \in BOOLEAN /\ m_initalized' \in BOOLEAN
    BY <1>1 DEF initialize
  <2>2. UNCHANGED <<pc, timed, saw>>
    BY <1>1 DEF initialize
  <2>3. \A t \in Threads : pc[t] = "outside"
    BY <1>1 DEF initialize
  <2>4. saw = {}
    BY <2>3
  <2> QED BY <1>1, <2>1, <2>2, <2>3, <2>4 DEF initialize
<1>2. CASE terminate
  BY <1>2 DEF terminate
<1>3. CASE setIfInitialized
  BY <1>3 DEF setIfInitialized
<1>4. CASE reset
  BY <1>4 DEF reset
<1>5. ASSUME NEW t \in Threads, WaitSignaled(t) PROVE EventInv'
  BY <1>5 DEF WaitSignaled, Consume
<1>6. ASSUME NEW t \in Threads, WaitUnsignaled(t) PROVE EventInv'
  BY <1>6 DEF WaitUnsignaled
<1>7. ASSUME NEW t \in Threads, SpuriousWakeup(t) PROVE EventInv'
  BY <1>7 DEF SpuriousWakeup
<1>8. ASSUME NEW t \in Threads, Expire(t) PROVE EventInv'
  BY <1>8 DEF Expire
<1>9. ASSUME NEW t \in Threads, ReturnTrue(t) PROVE EventInv'
  BY <1>9 DEF ReturnTrue, Consume, Leave
<1>10. ASSUME NEW t \in Threads, ReturnFalse(t) PROVE EventInv'
  BY <1>10 DEF ReturnFalse, Leave
<1>11. CASE UNCHANGED vars
  BY <1>11 DEF vars
<1> QED
  BY <1>1, <1>2, <1>3, <1>4, <1>5, <1>6, <1>7, <1>8, <1>9, <1>10, <1>11
     DEF Next, Return

\* While the event is signaled nobody sleeps, and nobody who was waiting when
\* it was signaled is still asleep, whatever resets and consumptions follow.
THEOREM NobodySleepsThrough == Spec => []SignaledAwake
<1>1. EventInv => SignaledAwake
  BY DEF EventInv
<1> QED BY <1>1, EventInitInv, EventInvStep, PTL DEF Spec

-----------------------------------------------------------------------------
(* AtomicFutex                                                             *)

\* The inductive invariant.  A sleeper is covered by the bit until a publisher
\* clears it, and by that publisher from then on.
FutexInv == FutexTypeOK /\ SleeperCovered

Waits == [at : {"out", "announce", "sleep", "asleep", "woken"},
          operand : Numbers \cup {0}, equal : BOOLEAN, assumed : Numbers \cup {0}]

LEMMA FutexInitInv == FutexInit => FutexInv
<1> SUFFICES ASSUME FutexInit PROVE FutexInv
  OBVIOUS
<1>1. NoWait \in Waits /\ NoWait.at = "out"
  BY DEF NoWait, Waits
<1>2. wait \in [Loaders -> Waits] /\ \A t \in Loaders : wait[t] = NoWait
  BY <1>1 DEF FutexInit
<1>3. FutexTypeOK
  BY <1>2, NumbersOK DEF FutexInit, FutexTypeOK, Waits
<1> QED BY <1>1, <1>2, <1>3 DEF FutexInv, SleeperCovered

-----------------------------------------------------------------------------
(* Steps of one loader leave the others as they are                        *)

LEMMA LoaderStep ==
  ASSUME FutexInv, NEW t \in Loaders, NEW w \in Waits,
         wait' = [wait EXCEPT ![t] = w], w.at = "out" => w = NoWait,
         UNCHANGED <<data, storing>>, bit' \in BOOLEAN, bit => bit',
         w.at = "asleep" => (bit' /\ data = w.assumed) \/ storing # {}
  PROVE  FutexInv'
<1>1. wait' \in [Loaders -> Waits] /\ wait'[t] = w
  BY DEF FutexInv, FutexTypeOK, Waits
<1>2. \A u \in Loaders \ {t} : wait'[u] = wait[u]
  BY DEF FutexInv, FutexTypeOK
<1>3. FutexTypeOK'
  BY <1>1, <1>2 DEF FutexInv, FutexTypeOK, Waits
<1>4. SleeperCovered'
  BY <1>1, <1>2 DEF FutexInv, SleeperCovered
<1> QED BY <1>3, <1>4 DEF FutexInv

LEMMA MoveStep ==
  ASSUME FutexInv, NEW t \in Loaders, NEW to \in {"sleep", "asleep", "woken"}, Move(t, to),
         UNCHANGED <<data, storing>>, bit' \in BOOLEAN, bit => bit',
         to = "asleep" => bit' /\ data = wait[t].assumed
  PROVE  FutexInv'
<1> DEFINE w == [wait[t] EXCEPT !.at = to]
<1>1. wait[t] \in Waits
  BY DEF FutexInv, FutexTypeOK, Waits
<1>2. w \in Waits /\ w.at = to /\ w.assumed = wait[t].assumed
  BY <1>1 DEF Waits
<1>3. wait' = [wait EXCEPT ![t] = w]
  BY DEF Move
<1> HIDE DEF w
<1> QED BY <1>2, <1>3, LoaderStep

LEMMA FutexInvStep == FutexInv /\ [FutexNext]_futexVars => FutexInv'
<1> SUFFICES ASSUME FutexInv, [FutexNext]_futexVars PROVE FutexInv'
  OBVIOUS
<1>0. /\ \A t \in Loaders : wait[t] \in Waits
      /\ wait \in [Loaders -> Waits] /\ data \in Numbers /\ bit \in BOOLEAN
      /\ NoWait \in Waits /\ NoWait.at = "out"
  BY DEF FutexInv, FutexTypeOK, Waits, NoWait
<1>1. ASSUME NEW t \in Loaders, NEW operand \in Numbers, NEW equal \in BOOLEAN,
             Load(t, operand, equal)
      PROVE  FutexInv'
  <2> DEFINE w == [at |-> "announce", operand |-> operand, equal |-> equal, assumed |-> data]
  <2>1. w \in Waits /\ w.at = "announce"
    BY <1>0 DEF Waits
  <2>2. wait' = [wait EXCEPT ![t] = w] /\ UNCHANGED <<data, bit, storing>>
    BY <1>1 DEF Load
  <2> HIDE DEF w
  <2> QED BY <1>0, <2>1, <2>2, LoaderStep
<1>2. ASSUME NEW t \in Loaders, Announce(t) PROVE FutexInv'
  BY <1>2, <1>0, MoveStep DEF Announce
<1>3. ASSUME NEW t \in Loaders, SleepOn(t) PROVE FutexInv'
  BY <1>3, <1>0, MoveStep DEF SleepOn
<1>4. ASSUME NEW t \in Loaders, Reload(t) PROVE FutexInv'
  <2> DEFINE w == [wait[t] EXCEPT !.at = "announce", !.assumed = data]
  <2>1. w \in Waits /\ w.at = "announce"
    BY <1>0 DEF Waits
  <2>2. wait' = [wait EXCEPT ![t] = NoWait] \/ wait' = [wait EXCEPT ![t] = w]
    BY <1>4 DEF Reload
  <2>3. UNCHANGED <<data, bit, storing>>
    BY <1>4 DEF Reload
  <2> HIDE DEF w
  <2> QED BY <1>0, <2>1, <2>2, <2>3, LoaderStep
<1>5. ASSUME NEW t \in Loaders, PassDeadline(t) PROVE FutexInv'
  BY <1>5, <1>0, LoaderStep DEF PassDeadline
<1>6. ASSUME NEW t \in Loaders, WakeForNothing(t) PROVE FutexInv'
  BY <1>6, <1>0, MoveStep DEF WakeForNothing
<1>7. ASSUME NEW p \in Publishers, NEW v \in Numbers, Exchange(p, v) PROVE FutexInv'
  <2>1. FutexTypeOK'
    BY <1>7 DEF Exchange, FutexInv, FutexTypeOK
  <2>2. bit => storing' # {}
    BY <1>7 DEF Exchange
  <2>3. storing # {} => storing' # {}
    BY <1>7 DEF Exchange
  <2>4. SleeperCovered'
    BY <1>7, <2>2, <2>3 DEF Exchange, FutexInv, SleeperCovered
  <2> QED BY <2>1, <2>4 DEF FutexInv
<1>8. ASSUME NEW p \in Publishers, NotifySleepers(p) PROVE FutexInv'
  <2>1. \A t \in Loaders : wait'[t] \in Waits /\ wait'[t].at # "asleep"
                           /\ (wait'[t].at = "out" => wait'[t] = wait[t])
    BY <1>8, <1>0 DEF NotifySleepers, Waits
  <2>2. FutexTypeOK'
    BY <1>8, <2>1 DEF NotifySleepers, FutexInv, FutexTypeOK, Waits
  <2> QED BY <2>1, <2>2 DEF FutexInv, SleeperCovered
<1>9. CASE UNCHANGED futexVars
  BY <1>9 DEF futexVars, FutexInv, FutexTypeOK, SleeperCovered
<1> QED
  BY <1>1, <1>2, <1>3, <1>4, <1>5, <1>6, <1>7, <1>8, <1>9 DEF FutexNext, LoadStep

-----------------------------------------------------------------------------

\* Whoever sleeps while the word is not what it assumed, or the bit is not set,
\* is about to be woken by a publisher that found the bit in its exchange.
THEOREM BitCovers == FutexSpec => []SleeperCovered
<1>1. FutexInv => SleeperCovered
  BY DEF FutexInv
<1> QED BY <1>1, FutexInitInv, FutexInvStep, PTL DEF FutexSpec

LEMMA EndStep ==
  ASSUME FutexInv, [FutexNext]_futexVars, NEW t \in Loaders \ Limited,
         wait[t].at # "out", wait'[t].at = "out"
  PROVE  Satisfied(t, data)
<1>0. wait \in [Loaders -> Waits]
  BY DEF FutexInv, FutexTypeOK, Waits
<1>1. ASSUME NEW u \in Loaders, NEW to \in {"sleep", "asleep", "woken"}, Move(u, to)
      PROVE  FALSE
  <2>1. wait'[t].at = IF u = t THEN to ELSE wait[t].at
    BY <1>0, <1>1 DEF Move, Waits
  <2> QED BY <2>1
<1>2. ASSUME NEW u \in Loaders, NEW operand \in Numbers, NEW equal \in BOOLEAN,
             Load(u, operand, equal)
      PROVE  FALSE
  BY <1>0, <1>2 DEF Load
<1>3. ASSUME NEW u \in Loaders, Announce(u) \/ SleepOn(u) \/ WakeForNothing(u)
      PROVE  FALSE
  BY <1>1, <1>3 DEF Announce, SleepOn, WakeForNothing
<1>4. ASSUME NEW u \in Loaders, Reload(u) PROVE Satisfied(t, data)
  <2>1. CASE u # t
    BY <1>0, <1>4, <2>1 DEF Reload
  <2>2. CASE u = t
    <3>1. [wait[t] EXCEPT !.at = "announce", !.assumed = data].at = "announce"
      BY <1>0 DEF Waits
    <3> QED BY <1>0, <1>4, <2>2, <3>1 DEF Reload
  <2> QED BY <2>1, <2>2
<1>5. ASSUME NEW u \in Loaders, PassDeadline(u) PROVE FALSE
  BY <1>0, <1>5 DEF PassDeadline
<1>6. ASSUME NEW p \in Publishers, NEW v \in Numbers, Exchange(p, v) PROVE FALSE
  BY <1>6 DEF Exchange
<1>7. ASSUME NEW p \in Publishers, NotifySleepers(p) PROVE FALSE
  BY <1>0, <1>7 DEF NotifySleepers, Waits
<1>8. CASE UNCHANGED futexVars
  BY <1>8 DEF futexVars
<1> QED BY <1>2, <1>3, <1>4, <1>5, <1>6, <1>7, <1>8 DEF FutexNext, LoadStep

\* A wait without a deadline ends in a step in which the value is what it waits
\* for, whatever woke it.
THEOREM EndsRight == FutexSpec => EndsSatisfied
<1>1. FutexInv /\ [FutexNext]_futexVars =>
        [\A t \in Loaders \ Limited :
           (wait[t].at # "out" /\ wait'[t].at = "out") => Satisfied(t, data)]_futexVars
  BY EndStep
<1> QED BY <1>1, FutexInitInv, FutexInvStep, PTL DEF FutexSpec, EndsSatisfied

-----------------------------------------------------------------------------
(* AtomicWait                                                              *)

Places == WaitPlaces \cup {"out", "notify", "look", "wake"}
Calls == [at : Places, obj : Objects \cup {Pool}, old : Values, val : Nat, all : BOOLEAN]
Counted == {t \in Users : At(t, WaitPlaces)}

\* The notifications that have yet to bump the version.
Bumpers == {t \in Users : At(t, {"notify"}) /\ call[t].obj \notin Direct}
VersionBounded == version + Cardinality(Bumpers) <= MaxVersion + Cardinality(Users)

InCall == \A t \in Users : ~At(t, {"out"}) => call[t].obj \in Objects

\* The promise of those that notify one thread.
SoleKept ==
  \A t, u \in Users :
    (t # u /\ At(t, WaitPlaces) /\ At(u, WaitPlaces) /\ call[t].obj = call[u].obj)
      => call[t].obj \notin Sole

\* Only one that waits for a word of its own is woken alone.
OneIsEnough ==
  \A t \in Users :
    /\ At(t, {"notify"}) => call[t].all \/ call[t].obj \in Sole
    /\ At(t, {"look", "wake"}) => call[t].all \/ call[t].obj \in Sole \cap Direct

\* What the futex word is expected to hold.
Expects(c) == c.at \in {"check", "sleep", "asleep"} =>
                IF c.obj \in Direct THEN c.val = c.old ELSE c.val <= version
Expecting == \A t \in Users : Expects(call[t])

\* Whoever goes to sleep on the version although the object has changed will not
\* find the version it expects, or whoever changed it has yet to bump it.
ExpectationStale ==
  \A t \in Users :
    (/\ At(t, {"sleep"}) /\ call[t].obj \notin Direct
     /\ word[call[t].obj] # call[t].old /\ call[t].val = version) => Bumpers # {}

\* The inductive invariant.  A change is covered first by the version that has
\* still to be bumped, then by the notification that will look at the count.
AWInv == /\ AWTypeOK /\ WaitersCounted /\ NoMissedNotify
         /\ VersionBounded /\ InCall /\ SoleKept /\ OneIsEnough
         /\ Expecting /\ ExpectationStale

LEMMA AWTypeFacts ==
  ASSUME AWTypeOK
  PROVE  /\ call \in [Users -> Calls] /\ \A t \in Users : call[t] \in Calls
         /\ word \in [Objects -> Values]
         /\ version \in Nat /\ waiting \in Nat
         /\ Cardinality(Users) \in Nat
         /\ Counted \subseteq Users /\ IsFiniteSet(Counted)
         /\ Bumpers \subseteq Users /\ IsFiniteSet(Bumpers)
         /\ Cardinality(Bumpers) \in Nat
<1>1. Cardinality(Users) \in Nat
  BY UsersOK, FS_CardinalityType
<1>2. Counted \subseteq Users /\ Bumpers \subseteq Users
  BY DEF Counted, Bumpers
<1>3. IsFiniteSet(Counted) /\ IsFiniteSet(Bumpers)
  BY <1>2, UsersOK, FS_Subset
<1>4. Cardinality(Bumpers) \in Nat
  BY <1>3, FS_CardinalityType
<1> QED BY <1>1, <1>2, <1>3, <1>4, MaxVersionOK DEF AWTypeOK, Calls, Places

\* A word is the address of one object, the version of all the others.
LEMMA WaitAddresses ==
  ASSUME NEW o \in Objects, NEW p \in Objects
  PROVE  /\ (WaitAddress(o) = WaitAddress(p)) <=> (o = p \/ (o \notin Direct /\ p \notin Direct))
         /\ o \in Direct => WaitAddress(o) = o /\ Content(WaitAddress(o)) = word[o]
         /\ o \notin Direct => WaitAddress(o) = Pool /\ Content(WaitAddress(o)) = version
BY ObjectsOK DEF WaitAddress, Pool, Content

LEMMA AWInitInv == AWInit => AWInv
<1> SUFFICES ASSUME AWInit PROVE AWInv
  OBVIOUS
<1>1. Idle \in Calls /\ Idle.at = "out"
  BY ValuesOK DEF Idle, Calls, Places
<1>2. call \in [Users -> Calls] /\ \A t \in Users : call[t].at = "out"
  BY <1>1 DEF AWInit
<1>3. Counted = {} /\ Bumpers = {}
  BY <1>2 DEF Counted, Bumpers, At, WaitPlaces
<1>4. Cardinality(Counted) = 0 /\ Cardinality(Bumpers) = 0
  BY <1>3, FS_EmptySet
<1>5. Cardinality(Users) \in Nat
  BY UsersOK, FS_CardinalityType
<1>6. (CHOOSE v \in Values : \A u \in Values : v <= u) \in Values
  <2>1. \A u \in Values : 0 <= u
    BY ValuesOK
  <2>2. \E v \in Values : \A u \in Values : v <= u
    BY <2>1, ValuesOK
  <2> QED BY <2>2
<1>7. word \in [Objects -> Values]
  BY <1>6 DEF AWInit
<1>8. AWTypeOK
  BY <1>2, <1>5, <1>7, MaxVersionOK DEF AWInit, AWTypeOK, Calls, Places
<1>9. WaitersCounted /\ VersionBounded
  BY <1>4, <1>5, MaxVersionOK DEF AWInit, WaitersCounted, VersionBounded, Counted
<1> QED
  BY <1>2, <1>8, <1>9
     DEF AWInv, NoMissedNotify, InCall, SoleKept, OneIsEnough, Expecting, Expects,
         ExpectationStale, At, WaitPlaces

-----------------------------------------------------------------------------
(* The steps of a waiter                                                   *)

\* The count follows a thread into a wait and out of it.
LEMMA CountStep ==
  ASSUME AWInv, NEW t \in Users, NEW w \in Calls, call' = [call EXCEPT ![t] = w],
         \/ ~At(t, WaitPlaces) /\ w.at \in WaitPlaces /\ waiting' = waiting + 1
         \/ (At(t, WaitPlaces) <=> w.at \in WaitPlaces) /\ waiting' = waiting
         \/ At(t, WaitPlaces) /\ w.at \notin WaitPlaces /\ waiting' = waiting - 1
  PROVE  WaitersCounted' /\ waiting' \in 0 .. Cardinality(Users)
<1>0. AWTypeOK /\ waiting = Cardinality(Counted)
  BY DEF AWInv, WaitersCounted, Counted
<1>1. /\ call \in [Users -> Calls] /\ IsFiniteSet(Counted) /\ waiting \in Nat
      /\ Cardinality(Users) \in Nat
  BY <1>0, AWTypeFacts
<1>2. Counted' = IF w.at \in WaitPlaces THEN Counted \cup {t} ELSE Counted \ {t}
  BY <1>1 DEF Counted, At
<1>3. t \in Counted <=> At(t, WaitPlaces)
  BY DEF Counted
<1>4. Cardinality(Counted') = waiting'
  <2>1. CASE ~At(t, WaitPlaces) /\ w.at \in WaitPlaces /\ waiting' = waiting + 1
    BY <2>1, <1>0, <1>1, <1>2, <1>3, FS_AddElement
  <2>2. CASE (At(t, WaitPlaces) <=> w.at \in WaitPlaces) /\ waiting' = waiting
    <3>1. Counted' = Counted
      BY <2>2, <1>2, <1>3
    <3> QED BY <3>1, <2>2, <1>0
  <2>3. CASE At(t, WaitPlaces) /\ w.at \notin WaitPlaces /\ waiting' = waiting - 1
    BY <2>3, <1>0, <1>1, <1>2, <1>3, FS_RemoveElement
  <2> QED BY <2>1, <2>2, <2>3
<1>5. IsFiniteSet(Counted') /\ Cardinality(Counted') <= Cardinality(Users)
      /\ Cardinality(Counted') \in Nat
  <2>1. Counted' \subseteq Users
    BY DEF Counted
  <2> QED BY <2>1, UsersOK, FS_Subset, FS_CardinalityType
<1> QED BY <1>1, <1>4, <1>5 DEF WaitersCounted, Counted

\* Nothing but the record of the waiter changes: the notifications stay.
LEMMA WaiterStep ==
  ASSUME AWInv, NEW t \in Users, NEW w \in Calls, call' = [call EXCEPT ![t] = w],
         UNCHANGED <<word, version>>,
         At(t, WaitPlaces \cup {"out"}), w.at \in WaitPlaces \cup {"out"},
         \/ /\ At(t, {"out"}) /\ w.at \in WaitPlaces /\ waiting' = waiting + 1
            /\ w.obj \in Objects
            /\ w.obj \in Sole => \A u \in Users \ {t} : ~(At(u, WaitPlaces) /\ call[u].obj = w.obj)
         \/ /\ At(t, WaitPlaces) /\ w.at \in WaitPlaces /\ waiting' = waiting
            /\ w.obj = call[t].obj
         \/ At(t, WaitPlaces) /\ w.at = "out" /\ waiting' = waiting - 1,
         Expects(w),
         w.at = "sleep" => word[w.obj] = w.old,
         (w.at = "asleep" /\ word[w.obj] # w.old) =>
           \E u \in Users : At(u, {"notify"}) /\ WaitAddress(call[u].obj) = WaitAddress(w.obj)
  PROVE  AWInv'
<1>0. AWTypeOK
  BY DEF AWInv
<1>1. /\ call \in [Users -> Calls] /\ word \in [Objects -> Values]
      /\ version \in Nat
  BY <1>0, AWTypeFacts
<1>2. call' \in [Users -> Calls] /\ call'[t] = w /\ \A u \in Users \ {t} : call'[u] = call[u]
  BY <1>1
<1>3. "out" \notin WaitPlaces /\ "notify" \notin WaitPlaces /\ "look" \notin WaitPlaces
      /\ "wake" \notin WaitPlaces
  BY DEF WaitPlaces
<1>4. WaitersCounted' /\ waiting' \in 0 .. Cardinality(Users)
  <2>1. \/ ~At(t, WaitPlaces) /\ w.at \in WaitPlaces /\ waiting' = waiting + 1
        \/ (At(t, WaitPlaces) <=> w.at \in WaitPlaces) /\ waiting' = waiting
        \/ At(t, WaitPlaces) /\ w.at \notin WaitPlaces /\ waiting' = waiting - 1
    BY <1>3 DEF At
  <2> QED BY <2>1, CountStep
<1>5. AWTypeOK'
  BY <1>0, <1>2, <1>4 DEF AWTypeOK, Calls, Places
<1>6. Bumpers' = Bumpers
  BY <1>2, <1>3 DEF Bumpers, At
<1>7. VersionBounded' /\ ExpectationStale'
  <2>1. VersionBounded'
    BY <1>6 DEF AWInv, VersionBounded
  <2>2. ExpectationStale'
    BY <1>2, <1>6 DEF AWInv, ExpectationStale, At
  <2> QED BY <2>1, <2>2
<1>8. InCall' /\ OneIsEnough' /\ Expecting'
  <2>1. w.at # "out" => w.obj \in Objects
    BY <1>3 DEF AWInv, InCall, At
  <2>2. InCall'
    BY <1>2, <2>1 DEF AWInv, InCall, At
  <2>3. OneIsEnough'
    BY <1>2, <1>3 DEF AWInv, OneIsEnough, At
  <2>4. Expecting'
    BY <1>2 DEF AWInv, Expecting, Expects
  <2> QED BY <2>2, <2>3, <2>4
<1>9. SoleKept'
  BY <1>2, <1>3 DEF AWInv, SoleKept, At
<1>10. NoMissedNotify'
  <2> SUFFICES ASSUME NEW r \in Users, call'[r].at = "asleep", word[call'[r].obj] # call'[r].old
               PROVE  \E u \in Users : /\ call'[u].at \in {"notify", "look", "wake"}
                                       /\ WaitAddress(call'[u].obj) = WaitAddress(call'[r].obj)
    BY DEF NoMissedNotify, At, WaitAddress
  <2>1. PICK u \in Users : /\ call[u].at \in {"notify", "look", "wake"}
                           /\ WaitAddress(call[u].obj) = WaitAddress(call'[r].obj)
    <3>1. CASE r = t
      BY <3>1, <1>2 DEF At
    <3>2. CASE r # t
      BY <3>2, <1>2 DEF AWInv, NoMissedNotify, At
    <3> QED BY <3>1, <3>2
  <2>2. u # t
    BY <2>1, <1>3 DEF At
  <2> QED BY <2>1, <2>2, <1>2
<1> QED BY <1>4, <1>5, <1>7, <1>8, <1>9, <1>10 DEF AWInv

\* A waiter goes from place to place; all but the place and the expectation stays.
LEMMA PlaceStep ==
  ASSUME AWInv, NEW t \in Users, At(t, WaitPlaces), NEW to \in WaitPlaces, NEW v \in Nat,
         call' = [call EXCEPT ![t] = [call[t] EXCEPT !.at = to, !.val = v]],
         UNCHANGED <<word, version, waiting>>,
         to \in {"check", "sleep", "asleep"} =>
           IF call[t].obj \in Direct THEN v = call[t].old ELSE v <= version,
         to = "sleep" => word[call[t].obj] = call[t].old,
         (to = "asleep" /\ word[call[t].obj] # call[t].old) =>
           \E u \in Users : At(u, {"notify"}) /\ WaitAddress(call[u].obj) = WaitAddress(call[t].obj)
  PROVE  AWInv'
<1> DEFINE w == [call[t] EXCEPT !.at = to, !.val = v]
<1>0. call[t] \in Calls
  BY AWTypeFacts DEF AWInv
<1>1. w \in Calls /\ w.at = to /\ w.val = v /\ w.obj = call[t].obj /\ w.old = call[t].old
  BY <1>0 DEF Calls, Places
<1>2. Expects(w)
  BY <1>1 DEF Expects
<1>3. call' = [call EXCEPT ![t] = w]
  OBVIOUS
<1>4. At(t, WaitPlaces \cup {"out"})
  BY DEF At
<1> HIDE DEF w
<1> QED BY <1>1, <1>2, <1>3, <1>4, WaiterStep

\* The same for a step that keeps the expectation.
LEMMA GoStep ==
  ASSUME AWInv, NEW t \in Users, At(t, WaitPlaces), NEW to \in WaitPlaces, Enter(t, to),
         UNCHANGED <<word, version, waiting>>,
         to \in {"check", "sleep", "asleep"} => At(t, {"check", "sleep", "asleep"}),
         to = "sleep" => word[call[t].obj] = call[t].old,
         (to = "asleep" /\ word[call[t].obj] # call[t].old) =>
           \E u \in Users : At(u, {"notify"}) /\ WaitAddress(call[u].obj) = WaitAddress(call[t].obj)
  PROVE  AWInv'
<1>1. call[t] \in Calls
  BY AWTypeFacts DEF AWInv
<1>2. [call[t] EXCEPT !.at = to] = [call[t] EXCEPT !.at = to, !.val = call[t].val]
      /\ call[t].val \in Nat
  BY <1>1 DEF Calls
<1>3. call' = [call EXCEPT ![t] = [call[t] EXCEPT !.at = to, !.val = call[t].val]]
  BY <1>2 DEF Enter
<1>4. to \in {"check", "sleep", "asleep"} =>
        IF call[t].obj \in Direct THEN call[t].val = call[t].old ELSE call[t].val <= version
  BY DEF AWInv, Expecting, Expects, At
<1> QED BY <1>2, <1>3, <1>4, PlaceStep

LEMMA WaiterInv ==
  ASSUME AWInv, NEW t \in Users,
         \/ \E o \in Objects, old \in Values : EnterWait(t, o, old)
         \/ WaitStep(t) \/ Interrupt(t) \/ TimeOut(t)
  PROVE  AWInv'
<1>0. /\ call[t] \in Calls /\ call \in [Users -> Calls] /\ version \in Nat
      /\ call[t].old \in Nat /\ call[t].val \in Nat
  <2>1. AWTypeOK
    BY DEF AWInv
  <2>2. call[t].old \in Values /\ call[t].val \in Nat
    BY <2>1, AWTypeFacts DEF Calls
  <2> QED BY <2>1, <2>2, ValuesOK, AWTypeFacts
<1>1. ASSUME NEW o \in Objects, NEW old \in Values, EnterWait(t, o, old) PROVE AWInv'
  <2> DEFINE w == [at |-> "load", obj |-> o, old |-> old, val |-> 0, all |-> FALSE]
  <2>1. w \in Calls /\ w.at = "load" /\ w.obj = o
    BY DEF Calls, Places, WaitPlaces
  <2>2. /\ call' = [call EXCEPT ![t] = w] /\ At(t, {"out"}) /\ waiting' = waiting + 1
        /\ UNCHANGED <<word, version>>
        /\ o \in Sole => \A u \in Users \ {t} : ~(At(u, WaitPlaces) /\ call[u].obj = o)
    BY <1>1 DEF EnterWait
  <2>3. Expects(w) /\ "load" \in WaitPlaces
    BY <2>1 DEF Expects, WaitPlaces
  <2>4. At(t, WaitPlaces \cup {"out"})
    BY <2>2 DEF At
  <2> HIDE DEF w
  <2> QED BY <2>1, <2>2, <2>3, <2>4, WaiterStep
<1>2. CASE LoadExpected(t)
  <2> DEFINE v == IF call[t].obj \in Direct THEN call[t].old ELSE version
  <2>1. v \in Nat /\ (IF call[t].obj \in Direct THEN v = call[t].old ELSE v <= version)
    BY <1>0
  <2>2. call' = [call EXCEPT ![t] = [call[t] EXCEPT !.at = "check", !.val = v]]
    BY <1>2 DEF LoadExpected
  <2>3. At(t, WaitPlaces) /\ "check" \in WaitPlaces /\ UNCHANGED <<word, version, waiting>>
    BY <1>2 DEF LoadExpected, At, WaitPlaces
  <2> HIDE DEF v
  <2> QED BY <2>1, <2>2, <2>3, PlaceStep
<1>3. CASE Spin(t)
  <2>1. At(t, WaitPlaces) /\ At(t, {"check", "sleep", "asleep"})
        /\ UNCHANGED <<word, version, waiting>>
    BY <1>3 DEF Spin, At, WaitPlaces
  <2>2. CASE word[call[t].obj] # call[t].old
    <3>1. Enter(t, "leave") /\ "leave" \in WaitPlaces
      BY <1>3, <2>2 DEF Spin, WaitPlaces
    <3> QED BY <2>1, <3>1, GoStep
  <2>3. CASE word[call[t].obj] = call[t].old
    <3>1. Enter(t, "sleep") /\ "sleep" \in WaitPlaces
      BY <1>3, <2>3 DEF Spin, WaitPlaces
    <3> QED BY <2>1, <2>3, <3>1, GoStep
  <2> QED BY <2>2, <2>3
<1>4. CASE FutexWait(t)
  <2>1. At(t, WaitPlaces) /\ At(t, {"sleep"}) /\ At(t, {"check", "sleep", "asleep"})
        /\ UNCHANGED <<word, version, waiting>>
    BY <1>4 DEF FutexWait, At, WaitPlaces
  <2>2. CASE Content(WaitAddress(call[t].obj)) # call[t].val
    <3>1. Enter(t, "awake") /\ "awake" \in WaitPlaces
      BY <1>4, <2>2 DEF FutexWait, WaitPlaces
    <3> QED BY <2>1, <3>1, GoStep
  <2>3. CASE Content(WaitAddress(call[t].obj)) = call[t].val
    <3>1. Enter(t, "asleep") /\ "asleep" \in WaitPlaces
      BY <1>4, <2>3 DEF FutexWait, WaitPlaces
    <3>2. call[t].obj \in Objects
      BY <2>1 DEF AWInv, InCall, At
    <3>3. ASSUME word[call[t].obj] # call[t].old
          PROVE  \E u \in Users : /\ At(u, {"notify"})
                                  /\ WaitAddress(call[u].obj) = WaitAddress(call[t].obj)
      <4>1. call[t].obj \notin Direct
        BY <3>2, <3>3, <2>1, <2>3, WaitAddresses DEF AWInv, Expecting, Expects, At
      <4>2. call[t].val = version
        BY <4>1, <3>2, <2>3, WaitAddresses
      <4>3. PICK u \in Users : At(u, {"notify"}) /\ call[u].obj \notin Direct
        BY <4>1, <4>2, <2>1, <3>3 DEF AWInv, ExpectationStale, Bumpers
      <4>4. call[u].obj \in Objects
        BY <4>3 DEF AWInv, InCall, At
      <4> QED BY <3>2, <4>1, <4>3, <4>4, WaitAddresses
    <3> QED BY <2>1, <3>1, <3>3, GoStep
  <2> QED BY <2>2, <2>3
<1>5. CASE Interrupt(t)
  <2>1. At(t, WaitPlaces) /\ "awake" \in WaitPlaces /\ Enter(t, "awake")
        /\ UNCHANGED <<word, version, waiting>>
    BY <1>5 DEF Interrupt, At, WaitPlaces
  <2> QED BY <2>1, GoStep
<1>6. CASE Resume(t)
  <2>1. At(t, WaitPlaces) /\ UNCHANGED <<word, version, waiting>>
    BY <1>6 DEF Resume, At, WaitPlaces
  <2>2. PICK to \in {"load", "leave"} : Enter(t, to)
    BY <1>6 DEF Resume
  <2>3. to \in WaitPlaces
    BY DEF WaitPlaces
  <2> QED BY <2>1, <2>2, <2>3, GoStep
<1>7. CASE TimeOut(t)
  <2>1. At(t, WaitPlaces) /\ "leave" \in WaitPlaces /\ Enter(t, "leave")
        /\ UNCHANGED <<word, version, waiting>>
    BY <1>7 DEF TimeOut, At, WaitPlaces
  <2> QED BY <2>1, GoStep
<1>8. CASE LeaveWait(t)
  <2>1. Idle \in Calls /\ Idle.at = "out" /\ Expects(Idle)
    BY ValuesOK DEF Idle, Calls, Places, Expects
  <2>2. /\ At(t, WaitPlaces) /\ At(t, WaitPlaces \cup {"out"})
        /\ call' = [call EXCEPT ![t] = Idle] /\ waiting' = waiting - 1
        /\ UNCHANGED <<word, version>>
    BY <1>8 DEF LeaveWait, At, WaitPlaces
  <2> QED BY <2>1, <2>2, WaiterStep
<1> QED BY <1>1, <1>2, <1>3, <1>4, <1>5, <1>6, <1>7, <1>8 DEF WaitStep

-----------------------------------------------------------------------------
(* The steps of a notification                                             *)

\* A thread that notifies is none of those that wait.
LEMMA NotifierStep ==
  ASSUME AWInv, NEW t \in Users, NEW w \in Calls, call' = [call EXCEPT ![t] = w],
         UNCHANGED waiting, ~At(t, WaitPlaces), w.at \notin WaitPlaces
  PROVE  /\ call' \in [Users -> Calls] /\ call'[t] = w
         /\ \A u \in Users \ {t} : call'[u] = call[u]
         /\ \A u \in Users : At(u, WaitPlaces)' <=> At(u, WaitPlaces)
         /\ \A u \in Users : At(u, WaitPlaces) => call'[u] = call[u]
         /\ WaitersCounted' /\ waiting' \in 0 .. Cardinality(Users)
         /\ SoleKept'
<1>0. call \in [Users -> Calls]
  BY AWTypeFacts DEF AWInv
<1>1. call' \in [Users -> Calls] /\ call'[t] = w /\ \A u \in Users \ {t} : call'[u] = call[u]
  BY <1>0
<1>2. \A u \in Users : At(u, WaitPlaces)' <=> At(u, WaitPlaces)
  BY <1>1 DEF At
<1>3. \A u \in Users : At(u, WaitPlaces) => call'[u] = call[u]
  BY <1>1
<1>4. WaitersCounted' /\ waiting' \in 0 .. Cardinality(Users)
  BY CountStep
<1>5. SoleKept'
  BY <1>2, <1>3 DEF AWInv, SoleKept
<1> QED BY <1>1, <1>2, <1>3, <1>4, <1>5

LEMMA StoreInv ==
  ASSUME AWInv, NEW t \in Users, NEW o \in Objects, NEW v \in Values, NEW all \in BOOLEAN,
         Store(t, o, v, all)
  PROVE  AWInv'
<1> DEFINE w == [Idle EXCEPT !.at = "notify", !.obj = o, !.all = all]
<1>0. AWTypeOK /\ call \in [Users -> Calls] /\ word \in [Objects -> Values] /\ version \in Nat
  BY AWTypeFacts DEF AWInv
<1>1. w \in Calls /\ w.at = "notify" /\ w.obj = o /\ w.all = all
  BY ValuesOK DEF Idle, Calls, Places
<1>2. /\ At(t, {"out"}) /\ call' = [call EXCEPT ![t] = w] /\ UNCHANGED <<version, waiting>>
      /\ word' = [word EXCEPT ![o] = v] /\ (all \/ o \in Sole)
      /\ o \notin Direct => version < MaxVersion
  BY <1>1 DEF Store
<1> HIDE DEF w
<1>3. ~At(t, WaitPlaces) /\ w.at \notin WaitPlaces
  BY <1>1, <1>2 DEF At, WaitPlaces
<1>4. /\ call' \in [Users -> Calls] /\ call'[t] = w
      /\ \A u \in Users \ {t} : call'[u] = call[u]
      /\ \A u \in Users : At(u, WaitPlaces)' <=> At(u, WaitPlaces)
      /\ \A u \in Users : At(u, WaitPlaces) => call'[u] = call[u]
      /\ WaitersCounted' /\ waiting' \in 0 .. Cardinality(Users)
      /\ SoleKept'
  BY <1>1, <1>2, <1>3, NotifierStep
<1>5. Bumpers' = IF o \in Direct THEN Bumpers ELSE Bumpers \cup {t}
  BY <1>1, <1>2, <1>4 DEF Bumpers, At
<1>6. VersionBounded'
  <2>1. CASE o \in Direct
    BY <2>1, <1>2, <1>5 DEF AWInv, VersionBounded
  <2>2. CASE o \notin Direct
    <3>1. /\ Bumpers' \subseteq Users /\ IsFiniteSet(Bumpers')
          /\ Cardinality(Bumpers') <= Cardinality(Users)
          /\ Cardinality(Bumpers') \in Nat /\ Cardinality(Users) \in Nat
      <4>1. Bumpers' \subseteq Users
        BY DEF Bumpers
      <4> QED BY <4>1, UsersOK, FS_Subset, FS_CardinalityType
    <3> QED BY <3>1, <2>2, <1>0, <1>2, MaxVersionOK DEF VersionBounded
  <2> QED BY <2>1, <2>2
<1>7. AWTypeOK'
  <2>1. word' \in [Objects -> Values]
    BY <1>0, <1>2
  <2> QED BY <2>1, <1>0, <1>2, <1>4 DEF AWTypeOK, Calls, Places
<1>8. InCall' /\ OneIsEnough' /\ Expecting'
  <2>1. InCall'
    BY <1>1, <1>4 DEF AWInv, InCall, At
  <2>2. OneIsEnough'
    BY <1>1, <1>2, <1>4 DEF AWInv, OneIsEnough, At
  <2>3. Expecting'
    BY <1>1, <1>2, <1>4 DEF AWInv, Expecting, Expects
  <2> QED BY <2>1, <2>2, <2>3
<1>9. ASSUME NEW r \in Users, At(r, WaitPlaces), call[r].obj # o
      PROVE  word'[call'[r].obj] = word[call[r].obj]
  BY <1>0, <1>2, <1>4, <1>9
<1>10. ExpectationStale'
  <2> SUFFICES ASSUME NEW r \in Users, At(r, {"sleep"})', call'[r].obj \notin Direct,
                      word'[call'[r].obj] # call'[r].old, call'[r].val = version'
               PROVE  Bumpers' # {}
    BY DEF ExpectationStale
  <2>1. At(r, WaitPlaces) /\ call'[r] = call[r]
    <3>1. At(r, WaitPlaces)'
      BY DEF At, WaitPlaces
    <3> QED BY <3>1, <1>4
  <2>2. CASE call[r].obj = o
    BY <2>1, <2>2, <1>5
  <2>3. CASE call[r].obj # o
    <3>1. word[call[r].obj] # call[r].old
      BY <1>9, <2>1, <2>3
    <3>2. Bumpers # {}
      BY <3>1, <2>1, <1>2 DEF AWInv, ExpectationStale, At
    <3> QED BY <3>2, <1>5
  <2> QED BY <2>2, <2>3
<1>11. NoMissedNotify'
  <2> SUFFICES ASSUME NEW r \in Users, call'[r].at = "asleep", word'[call'[r].obj] # call'[r].old
               PROVE  \E u \in Users : /\ call'[u].at \in {"notify", "look", "wake"}
                                       /\ WaitAddress(call'[u].obj) = WaitAddress(call'[r].obj)
    BY DEF NoMissedNotify, At, WaitAddress
  <2>1. At(r, WaitPlaces) /\ call'[r] = call[r]
    <3>1. At(r, WaitPlaces)'
      BY DEF At, WaitPlaces
    <3> QED BY <3>1, <1>4
  <2>2. CASE call[r].obj = o
    BY <2>1, <2>2, <1>1, <1>4
  <2>3. CASE call[r].obj # o
    <3>1. word[call[r].obj] # call[r].old
      BY <1>9, <2>1, <2>3
    <3>2. PICK u \in Users : /\ At(u, {"notify", "look", "wake"})
                             /\ WaitAddress(call[u].obj) = WaitAddress(call[r].obj)
      BY <3>1, <2>1 DEF AWInv, NoMissedNotify, At
    <3>3. u # t
      BY <3>2, <1>2 DEF At
    <3> QED BY <3>2, <3>3, <2>1, <1>4 DEF At
  <2> QED BY <2>2, <2>3
<1> QED BY <1>4, <1>6, <1>7, <1>8, <1>10, <1>11 DEF AWInv

LEMMA BumpInv ==
  ASSUME AWInv, NEW t \in Users, Bump(t)
  PROVE  AWInv'
<1> DEFINE direct == call[t].obj \in Direct
           w == [call[t] EXCEPT !.at = "look", !.all = @ \/ ~direct]
<1>0. /\ AWTypeOK /\ call \in [Users -> Calls] /\ call[t] \in Calls /\ version \in Nat
      /\ word \in [Objects -> Values]
  BY AWTypeFacts DEF AWInv
<1>1. /\ w \in Calls /\ w.at = "look" /\ w.obj = call[t].obj
      /\ w.all \in BOOLEAN /\ (w.all <=> call[t].all \/ ~direct)
  <2>1. call[t].all \in BOOLEAN
    BY <1>0 DEF Calls
  <2>2. (call[t].all \/ ~direct) \in BOOLEAN
    BY <2>1
  <2> QED BY <1>0, <2>2 DEF Calls, Places
<1>2. /\ At(t, {"notify"}) /\ call' = [call EXCEPT ![t] = w] /\ UNCHANGED <<word, waiting>>
      /\ version' = IF direct THEN version ELSE version + 1
  BY DEF Bump
<1> HIDE DEF w
<1>3. ~At(t, WaitPlaces) /\ w.at \notin WaitPlaces
  BY <1>1, <1>2 DEF At, WaitPlaces
<1>4. /\ call' \in [Users -> Calls] /\ call'[t] = w
      /\ \A u \in Users \ {t} : call'[u] = call[u]
      /\ \A u \in Users : At(u, WaitPlaces)' <=> At(u, WaitPlaces)
      /\ \A u \in Users : At(u, WaitPlaces) => call'[u] = call[u]
      /\ WaitersCounted' /\ waiting' \in 0 .. Cardinality(Users)
      /\ SoleKept'
  BY <1>1, <1>2, <1>3, NotifierStep
<1>5. Bumpers' = Bumpers \ {t} /\ (t \in Bumpers <=> ~direct)
  BY <1>1, <1>2, <1>4 DEF Bumpers, At
<1>6. VersionBounded' /\ version' \in 0 .. MaxVersion + Cardinality(Users)
  <2>1. /\ IsFiniteSet(Bumpers) /\ Cardinality(Bumpers) \in Nat /\ Cardinality(Users) \in Nat
        /\ version + Cardinality(Bumpers) <= MaxVersion + Cardinality(Users)
    BY <1>0, AWTypeFacts DEF AWInv, VersionBounded
  <2>2. CASE direct
    <3>1. Bumpers' = Bumpers
      BY <1>5, <2>2
    <3> QED BY <3>1, <2>1, <2>2, <1>0, <1>2, MaxVersionOK DEF VersionBounded
  <2>3. CASE ~direct
    <3>1. Cardinality(Bumpers') = Cardinality(Bumpers) - 1 /\ Cardinality(Bumpers') \in Nat
      <4>1. IsFiniteSet(Bumpers')
        BY <1>5, <2>1, FS_Subset
      <4> QED BY <4>1, <1>5, <2>1, <2>3, FS_RemoveElement, FS_CardinalityType
    <3> QED BY <3>1, <2>1, <2>3, <1>0, <1>2, MaxVersionOK DEF VersionBounded
  <2> QED BY <2>2, <2>3
<1>7. AWTypeOK'
  BY <1>0, <1>2, <1>4, <1>6 DEF AWTypeOK, Calls, Places
<1>8. InCall' /\ OneIsEnough' /\ Expecting'
  <2>0. call[t].obj \in Objects /\ (call[t].all \/ call[t].obj \in Sole)
    BY <1>2 DEF AWInv, InCall, OneIsEnough, At
  <2>1. InCall'
    BY <2>0, <1>1, <1>4 DEF AWInv, InCall, At
  <2>2. w.all \/ w.obj \in Sole \cap Direct
    BY <2>0, <1>1
  <2>3. OneIsEnough'
    BY <2>2, <1>1, <1>4 DEF AWInv, OneIsEnough, At
  <2>4. version <= version'
    BY <1>0, <1>2
  <2>5. Expecting'
    <3> SUFFICES ASSUME NEW r \in Users PROVE Expects(call[r])'
      BY DEF Expecting
    <3>1. CASE r = t
      BY <3>1, <1>1, <1>4 DEF Expects
    <3>2. CASE r # t
      <4>1. call'[r] = call[r] /\ Expects(call[r]) /\ call[r].val \in Nat /\ version' \in Nat
        BY <3>2, <1>0, <1>2, <1>4 DEF AWInv, Expecting, Calls
      <4> QED BY <4>1, <2>4, <1>0 DEF Expects
    <3> QED BY <3>1, <3>2
  <2> QED BY <2>1, <2>3, <2>5
<1>9. ExpectationStale'
  <2> SUFFICES ASSUME NEW r \in Users, At(r, {"sleep"})', call'[r].obj \notin Direct,
                      word'[call'[r].obj] # call'[r].old, call'[r].val = version'
               PROVE  Bumpers' # {}
    BY DEF ExpectationStale
  <2>1. At(r, WaitPlaces) /\ call'[r] = call[r]
    <3>1. At(r, WaitPlaces)'
      BY DEF At, WaitPlaces
    <3> QED BY <3>1, <1>4
  <2>2. call[r].val <= version /\ call[r].val \in Nat
    BY <2>1, <1>0 DEF AWInv, Expecting, Expects, At, Calls
  <2>3. direct
    BY <2>1, <2>2, <1>0, <1>2
  <2>4. Bumpers' = Bumpers
    BY <2>3, <1>5
  <2> QED BY <2>1, <2>3, <2>4, <1>2 DEF AWInv, ExpectationStale, At
<1>10. NoMissedNotify'
  <2> SUFFICES ASSUME NEW r \in Users, call'[r].at = "asleep", word'[call'[r].obj] # call'[r].old
               PROVE  \E u \in Users : /\ call'[u].at \in {"notify", "look", "wake"}
                                       /\ WaitAddress(call'[u].obj) = WaitAddress(call'[r].obj)
    BY DEF NoMissedNotify, At, WaitAddress
  <2>1. At(r, WaitPlaces) /\ call'[r] = call[r]
    <3>1. At(r, WaitPlaces)'
      BY DEF At, WaitPlaces
    <3> QED BY <3>1, <1>4
  <2>2. PICK u \in Users : /\ At(u, {"notify", "look", "wake"})
                           /\ WaitAddress(call[u].obj) = WaitAddress(call[r].obj)
    BY <2>1, <1>2 DEF AWInv, NoMissedNotify, At
  <2>3. CASE u = t
    BY <2>1, <2>2, <2>3, <1>1, <1>4
  <2>4. CASE u # t
    BY <2>1, <2>2, <2>4, <1>4 DEF At
  <2> QED BY <2>3, <2>4
<1> QED BY <1>4, <1>6, <1>7, <1>8, <1>9, <1>10 DEF AWInv

LEMMA LookInv ==
  ASSUME AWInv, NEW t \in Users, Look(t)
  PROVE  AWInv'
<1> DEFINE w == IF waiting = 0 THEN Idle ELSE [call[t] EXCEPT !.at = "wake"]
<1>0. /\ AWTypeOK /\ call \in [Users -> Calls] /\ call[t] \in Calls /\ version \in Nat
  BY AWTypeFacts DEF AWInv
<1>1. /\ w \in Calls
      /\ waiting = 0 => w.at = "out"
      /\ waiting # 0 => w.at = "wake" /\ w.obj = call[t].obj /\ w.all = call[t].all
  BY <1>0, ValuesOK DEF Idle, Calls, Places
<1>2. /\ At(t, {"look"}) /\ call' = [call EXCEPT ![t] = w] /\ UNCHANGED <<word, version, waiting>>
  BY DEF Look
<1> HIDE DEF w
<1>3. ~At(t, WaitPlaces) /\ w.at \notin WaitPlaces
  BY <1>1, <1>2 DEF At, WaitPlaces
<1>4. /\ call' \in [Users -> Calls] /\ call'[t] = w
      /\ \A u \in Users \ {t} : call'[u] = call[u]
      /\ \A u \in Users : At(u, WaitPlaces)' <=> At(u, WaitPlaces)
      /\ \A u \in Users : At(u, WaitPlaces) => call'[u] = call[u]
      /\ WaitersCounted' /\ waiting' \in 0 .. Cardinality(Users)
      /\ SoleKept'
  BY <1>1, <1>2, <1>3, NotifierStep
<1>5. Bumpers' = Bumpers
  BY <1>1, <1>2, <1>4 DEF Bumpers, At
<1>6. VersionBounded' /\ AWTypeOK'
  BY <1>0, <1>2, <1>4, <1>5 DEF AWInv, VersionBounded, AWTypeOK, Calls, Places
<1>7. InCall' /\ OneIsEnough' /\ Expecting' /\ ExpectationStale'
  <2>0. call[t].obj \in Objects /\ (call[t].all \/ call[t].obj \in Sole \cap Direct)
    BY <1>2 DEF AWInv, InCall, OneIsEnough, At
  <2>1. InCall'
    BY <2>0, <1>1, <1>4 DEF AWInv, InCall, At
  <2>2. OneIsEnough'
    BY <2>0, <1>1, <1>4 DEF AWInv, OneIsEnough, At
  <2>3. Expecting'
    BY <1>1, <1>2, <1>4 DEF AWInv, Expecting, Expects
  <2>4. ExpectationStale'
    BY <1>1, <1>2, <1>4, <1>5 DEF AWInv, ExpectationStale, At
  <2> QED BY <2>1, <2>2, <2>3, <2>4
\* Who is asleep is counted: a notification that finds nobody misses nobody.
<1>8. NoMissedNotify'
  <2> SUFFICES ASSUME NEW r \in Users, call'[r].at = "asleep", word'[call'[r].obj] # call'[r].old
               PROVE  \E u \in Users : /\ call'[u].at \in {"notify", "look", "wake"}
                                       /\ WaitAddress(call'[u].obj) = WaitAddress(call'[r].obj)
    BY DEF NoMissedNotify, At, WaitAddress
  <2>1. At(r, WaitPlaces) /\ call'[r] = call[r]
    <3>1. At(r, WaitPlaces)'
      BY DEF At, WaitPlaces
    <3> QED BY <3>1, <1>4
  <2>2. PICK u \in Users : /\ At(u, {"notify", "look", "wake"})
                           /\ WaitAddress(call[u].obj) = WaitAddress(call[r].obj)
    BY <2>1, <1>2 DEF AWInv, NoMissedNotify, At
  <2>3. waiting # 0
    <3>1. r \in Counted /\ IsFiniteSet(Counted) /\ waiting = Cardinality(Counted)
      BY <2>1, <1>0, AWTypeFacts DEF AWInv, WaitersCounted, Counted
    <3> QED BY <3>1, FS_EmptySet
  <2>4. CASE u = t
    BY <2>1, <2>2, <2>3, <2>4, <1>1, <1>4
  <2>5. CASE u # t
    BY <2>1, <2>2, <2>5, <1>4 DEF At
  <2> QED BY <2>4, <2>5
<1> QED BY <1>4, <1>6, <1>7, <1>8 DEF AWInv

LEMMA WakeInv ==
  ASSUME AWInv, NEW t \in Users, FutexWake(t)
  PROVE  AWInv'
<1> DEFINE S == Sleepers(WaitAddress(call[t].obj))
<1>0. /\ AWTypeOK /\ call \in [Users -> Calls] /\ call[t] \in Calls /\ version \in Nat
  BY AWTypeFacts DEF AWInv
<1>1. PICK W \in SUBSET S :
        /\ IF call[t].all THEN W = S ELSE Cardinality(W) = IF S = {} THEN 0 ELSE 1
        /\ call' = [u \in Users |-> IF u = t THEN Idle
                                    ELSE IF u \in W THEN [call[u] EXCEPT !.at = "awake"]
                                    ELSE call[u]]
  BY DEF FutexWake
<1>2. At(t, {"wake"}) /\ UNCHANGED <<word, version, waiting>>
  BY DEF FutexWake
<1>3. S \subseteq Users /\ \A u \in S : call[u].at = "asleep"
  BY DEF Sleepers, At
<1>4. t \notin S
  BY <1>2, <1>3 DEF At
<1>5. Idle \in Calls /\ Idle.at = "out"
  BY ValuesOK DEF Idle, Calls, Places
<1>6. \A u \in W : LET c == [call[u] EXCEPT !.at = "awake"]
                   IN  /\ c \in Calls /\ c.at = "awake" /\ c.obj = call[u].obj
                       /\ c.all = call[u].all
  <2> TAKE u \in W
  <2>1. call[u] \in Calls
    BY <1>0, <1>3
  <2> QED BY <2>1 DEF Calls, Places, WaitPlaces
<1>7. /\ call'[t] = Idle
      /\ \A u \in W : call'[u].at = "awake" /\ call'[u].obj = call[u].obj /\ u # t
      /\ \A u \in Users \ (W \cup {t}) : call'[u] = call[u]
  <2>1. \A u \in W : u \in Users /\ u # t
    BY <1>3, <1>4
  <2> QED BY <1>1, <1>6, <2>1
<1>8. call' \in [Users -> Calls]
  <2>1. \A u \in Users : call'[u] \in Calls
    BY <1>0, <1>1, <1>5, <1>6
  <2> QED BY <1>1, <2>1
<1>9. \A u \in Users : u # t => call'[u].obj = call[u].obj
  BY <1>7
<1>10. \A u \in Users : At(u, WaitPlaces)' <=> At(u, WaitPlaces)
  <2>1. "awake" \in WaitPlaces /\ "asleep" \in WaitPlaces /\ "wake" \notin WaitPlaces
        /\ "out" \notin WaitPlaces
    BY DEF WaitPlaces
  <2> QED BY <2>1, <1>2, <1>3, <1>5, <1>7 DEF At
<1>11. AWTypeOK' /\ WaitersCounted' /\ SoleKept'
  <2>1. AWTypeOK'
    BY <1>0, <1>2, <1>8 DEF AWTypeOK, Calls, Places
  <2>2. Counted' = Counted
    BY <1>10 DEF Counted
  <2>3. WaitersCounted'
    BY <2>2, <1>2 DEF AWInv, WaitersCounted, Counted
  <2>4. ~At(t, WaitPlaces)
    BY <1>2 DEF At, WaitPlaces
  <2>5. SoleKept'
    BY <2>4, <1>9, <1>10 DEF AWInv, SoleKept
  <2> QED BY <2>1, <2>3, <2>5
<1>12. Bumpers' = Bumpers
  BY <1>2, <1>3, <1>5, <1>7, <1>9 DEF Bumpers, At
<1>13. VersionBounded' /\ InCall' /\ OneIsEnough' /\ Expecting' /\ ExpectationStale'
  <2>1. VersionBounded'
    BY <1>2, <1>12 DEF AWInv, VersionBounded
  <2>2. InCall'
    BY <1>3, <1>5, <1>7 DEF AWInv, InCall, At
  <2>3. OneIsEnough'
    BY <1>5, <1>7 DEF AWInv, OneIsEnough, At
  <2>4. Expecting'
    BY <1>2, <1>5, <1>7 DEF AWInv, Expecting, Expects
  <2>5. ExpectationStale'
    BY <1>2, <1>5, <1>7, <1>12 DEF AWInv, ExpectationStale, At
  <2> QED BY <2>1, <2>2, <2>3, <2>4, <2>5
\* One is woken alone only when it is the only one asleep.
<1>14. W = S
  <2>1. CASE call[t].all
    BY <2>1, <1>1
  <2>2. CASE ~call[t].all
    <3>1. call[t].obj \in Sole \cap Direct /\ call[t].obj \in Objects
      BY <2>2, <1>2 DEF AWInv, OneIsEnough, InCall, At
    <3>2. \A r \in S : call[r].obj = call[t].obj
      <4> TAKE r \in S
      <4>1. call[r].obj \in Objects /\ WaitAddress(call[r].obj) = WaitAddress(call[t].obj)
        BY DEF Sleepers, AWInv, InCall, At
      <4> QED BY <3>1, <4>1, WaitAddresses
    <3>3. \A r, u \in S : r = u
      BY <3>1, <3>2, <1>3 DEF AWInv, SoleKept, At, WaitPlaces
    <3>4. S # {} => W # {}
      BY <2>2, <1>1, FS_EmptySet
    <3> QED BY <3>3, <3>4
  <2> QED BY <2>1, <2>2
<1>15. NoMissedNotify'
  <2> SUFFICES ASSUME NEW r \in Users, call'[r].at = "asleep", word'[call'[r].obj] # call'[r].old
               PROVE  \E u \in Users : /\ call'[u].at \in {"notify", "look", "wake"}
                                       /\ WaitAddress(call'[u].obj) = WaitAddress(call'[r].obj)
    BY DEF NoMissedNotify, At, WaitAddress
  <2>1. r # t /\ r \notin S /\ call'[r] = call[r]
    BY <1>5, <1>7, <1>14
  <2>2. WaitAddress(call[r].obj) # WaitAddress(call[t].obj)
    BY <2>1 DEF Sleepers, At
  <2>3. PICK u \in Users : /\ At(u, {"notify", "look", "wake"})
                           /\ WaitAddress(call[u].obj) = WaitAddress(call[r].obj)
    BY <2>1, <1>2 DEF AWInv, NoMissedNotify, At
  <2>4. u # t /\ u \notin W
    BY <2>2, <2>3, <1>3 DEF At
  <2> QED BY <2>1, <2>3, <2>4, <1>7 DEF At
<1> QED BY <1>11, <1>13, <1>15 DEF AWInv

LEMMA AWInvStep == AWInv /\ [AWNext]_awVars => AWInv'
<1> SUFFICES ASSUME AWInv, [AWNext]_awVars PROVE AWInv'
  OBVIOUS
<1>1. ASSUME NEW t \in Users, NEW o \in Objects, NEW v \in Values, NEW all \in BOOLEAN,
             Store(t, o, v, all)
      PROVE  AWInv'
  BY <1>1, StoreInv
<1>2. ASSUME NEW t \in Users,
             \/ \E o \in Objects, old \in Values : EnterWait(t, o, old)
             \/ WaitStep(t) \/ Interrupt(t) \/ TimeOut(t)
      PROVE  AWInv'
  BY <1>2, WaiterInv
<1>3. ASSUME NEW t \in Users, NotifyStep(t) PROVE AWInv'
  BY <1>3, BumpInv, LookInv, WakeInv DEF NotifyStep
<1>4. CASE UNCHANGED awVars
  BY <1>4 DEF awVars, AWInv, AWTypeOK, WaitersCounted, NoMissedNotify, VersionBounded, Bumpers,
              InCall, SoleKept, OneIsEnough, Expecting, Expects, ExpectationStale, At
<1> QED BY <1>1, <1>2, <1>3, <1>4 DEF AWNext

\* The waiters are counted, the version stays in its bound, and nobody sleeps on
\* although the object has changed, unless the wakeup is still on its way: for any
\* number of threads and objects, of either kind.
THEOREM NotificationsArrive == AWSpec => []WaitersMissNothing
<1>1. AWInv => WaitersMissNothing
  BY DEF AWInv, WaitersMissNothing
<1> QED BY <1>1, AWInitInv, AWInvStep, PTL DEF AWSpec

-----------------------------------------------------------------------------
(* Semaphore                                                               *)

SemPlaces == {"out", "load", "try", "cas", "sleep", "asleep", "got", "notify"}
SemLocals == [val : 0 .. SemMax, old : 0 .. SemMax, failed : {"sleep", "load", "out"}]

\* Who is about to compare and exchange has seen a token.
SawToken == \A t \in Acquirers : place[t] = "cas" => local[t].old > 0

\* The inductive invariant.  The counter keeps its upper bound because it is part
\* of what was released and not used up, and its lower one by SawToken.
SemIInv == SemTypeOK /\ TokensConserved /\ EmptyWokenUp /\ SawToken

LEMMA SemTypes ==
  ASSUME SemIInv
  PROVE  /\ counter \in Nat /\ counter <= SemMax /\ issued \in Nat /\ issued <= SemMax
         /\ local \in [Acquirers -> SemLocals] /\ place \in [SemThreads -> SemPlaces]
         /\ Acquirers \subseteq SemThreads
BY SemMaxOK DEF SemIInv, SemTypeOK, SemLocals, SemPlaces, SemThreads

LEMMA HoldersCounted ==
  /\ IsFiniteSet(Holders) /\ Cardinality(Holders) \in Nat
  /\ \A t \in Acquirers : Cardinality(Holders \cup {t}) =
       IF t \in Holders THEN Cardinality(Holders) ELSE Cardinality(Holders) + 1
  /\ \A t \in Acquirers : Cardinality(Holders \ {t}) =
       IF t \in Holders THEN Cardinality(Holders) - 1 ELSE Cardinality(Holders)
<1>1. IsFiniteSet(Holders)
  BY PatientOK, FS_Subset DEF Holders
<1> QED BY <1>1, FS_CardinalityType, FS_AddElement, FS_RemoveElement

LEMMA SemInitInv == SemInit => SemIInv
<1> SUFFICES ASSUME SemInit PROVE SemIInv
  OBVIOUS
<1>1. Holders = {}
  BY DEF SemInit, Holders, SemThreads
<1>2. Cardinality(Holders) = 0
  BY <1>1, FS_EmptySet
<1>3. SemTypeOK
  BY SemMaxOK DEF SemInit, SemTypeOK
<1> QED BY <1>2, <1>3 DEF SemInit, SemIInv, TokensConserved, EmptyWokenUp, SawToken, SemThreads

-----------------------------------------------------------------------------
(* Steps of an acquirer that take and give back nothing                    *)

\* It may go to sleep while the counter holds what it expects, and it never
\* changes what another one does.
LEMMA SemQuietStep ==
  ASSUME SemIInv, NEW t \in Acquirers, NEW to \in {"out", "load", "try", "cas", "sleep", "asleep"},
         Go(t, to), place[t] # "got", place[t] # "notify", NEW l \in SemLocals, local' = [local EXCEPT ![t] = l],
         UNCHANGED <<counter, issued>>, to = "asleep" => l.val = counter,
         to = "cas" => l.old > 0
  PROVE  SemIInv'
<1>1. place' \in [SemThreads -> SemPlaces] /\ local' \in [Acquirers -> SemLocals]
  BY SemTypes DEF Go, SemPlaces
<1>2. SemTypeOK'
  BY <1>1 DEF SemIInv, SemTypeOK, SemPlaces, SemLocals
<1>3. /\ place'[t] = to /\ local'[t] = l
      /\ \A u \in SemThreads \ {t} : place'[u] = place[u]
      /\ \A u \in Acquirers \ {t} : local'[u] = local[u]
  BY SemTypes DEF Go
<1>4. Holders' = Holders
  BY <1>3, SemTypes DEF Holders
<1>5. TokensConserved'
  BY <1>4 DEF SemIInv, TokensConserved
<1>6. ASSUME counter > 0, NEW u \in Asleep', local'[u].val = 0
      PROVE  \E v \in SemThreads : place'[v] = "notify"
  <2>1. u # t
    BY <1>3, <1>6 DEF Asleep
  <2>2. u \in Asleep /\ local[u].val = 0
    BY <1>3, <1>6, <2>1, SemTypes DEF Asleep
  <2>3. PICK v \in SemThreads : place[v] = "notify"
    BY <1>6, <2>2 DEF SemIInv, EmptyWokenUp
  <2> QED BY <1>3, <2>3
<1>7. EmptyWokenUp'
  BY <1>6 DEF EmptyWokenUp
<1>8. SawToken'
  BY <1>3, SemTypes DEF SemIInv, SawToken
<1> QED BY <1>2, <1>5, <1>7, <1>8 DEF SemIInv

LEMMA FailedStep ==
  ASSUME SemIInv, NEW t \in Acquirers, Fail(t), place[t] \in {"try", "cas"},
         UNCHANGED <<counter, issued>>
  PROVE  SemIInv'
<1> DEFINE l == [local[t] EXCEPT !.failed = "sleep", !.old = 0]
<1>1. local[t] \in SemLocals
  BY SemTypes
<1>2. l \in SemLocals /\ local[t].failed \in {"sleep", "load", "out"}
  <2>1. 0 \in 0 .. SemMax
    BY SemMaxOK
  <2> QED BY <1>1, <2>1 DEF SemLocals
<1>3. local' = [local EXCEPT ![t] = l]
  BY DEF Fail
<1>4. Go(t, local[t].failed)
  BY DEF Fail
<1> HIDE DEF l
<1> QED BY <1>2, <1>3, <1>4, SemQuietStep

LEMMA AcquirerStep ==
  ASSUME SemIInv, NEW t \in Acquirers,
         \/ Acquire(t) \/ LoadValue(t) \/ LoadOld(t) \/ Sleep(t)
         \/ InterruptSleep(t) \/ DeadlinePasses(t)
  PROVE  SemIInv'
<1>0. /\ local[t] \in SemLocals /\ counter \in 0 .. SemMax
      /\ local = [local EXCEPT ![t] = local[t]]
  BY SemTypes, SemMaxOK
<1>1. CASE Acquire(t)
  <2> DEFINE l == [local[t] EXCEPT !.failed = "sleep"]
  <2>1. l \in SemLocals
    BY <1>0 DEF SemLocals
  <2>2. local' = [local EXCEPT ![t] = l] /\ Go(t, "load") /\ place[t] = "out"
    BY <1>1 DEF Acquire
  <2> HIDE DEF l
  <2> QED BY <1>1, <2>1, <2>2, SemQuietStep DEF Acquire
<1>2. CASE LoadValue(t)
  <2> DEFINE l == [local[t] EXCEPT !.val = counter]
  <2>1. l \in SemLocals
    BY <1>0 DEF SemLocals
  <2>2. local' = [local EXCEPT ![t] = l] /\ Go(t, "try") /\ place[t] = "load"
    BY <1>2 DEF LoadValue
  <2> HIDE DEF l
  <2> QED BY <1>2, <2>1, <2>2, SemQuietStep DEF LoadValue
<1>3. CASE LoadOld(t)
  <2>1. CASE counter = 0
    BY <1>3, <2>1, FailedStep DEF LoadOld
  <2>2. CASE counter # 0
    <3> DEFINE l == [local[t] EXCEPT !.old = counter]
    <3>1. l \in SemLocals /\ l.old > 0
      BY <1>0, <2>2, SemTypes DEF SemLocals
    <3>2. local' = [local EXCEPT ![t] = l] /\ Go(t, "cas") /\ place[t] = "try"
      BY <1>3, <2>2 DEF LoadOld
    <3> HIDE DEF l
    <3> QED BY <1>3, <3>1, <3>2, SemQuietStep DEF LoadOld
  <2> QED BY <2>1, <2>2
<1> DEFINE w == [local[t] EXCEPT !.failed = "load"]
<1>4. w \in SemLocals /\ WakeUp(t) = [local EXCEPT ![t] = w]
  BY <1>0 DEF WakeUp, SemLocals
<1>5. CASE Sleep(t)
  <2>1. CASE counter = local[t].val
    BY <1>0, <1>5, <2>1, SemQuietStep DEF Sleep
  <2>2. CASE counter # local[t].val
    <3> HIDE DEF w
    <3> QED BY <1>4, <1>5, <2>2, SemQuietStep DEF Sleep
  <2> QED BY <2>1, <2>2
<1>6. CASE InterruptSleep(t)
  <2> HIDE DEF w
  <2> QED BY <1>4, <1>6, SemQuietStep DEF InterruptSleep
<1>7. CASE DeadlinePasses(t)
  <2> DEFINE l == [local[t] EXCEPT !.failed = "out"]
  <2>1. l \in SemLocals
    BY <1>0 DEF SemLocals
  <2>2. CASE place[t] = "sleep" /\ Go(t, "out") /\ UNCHANGED local
    BY <1>0, <1>7, <2>2, SemQuietStep DEF DeadlinePasses
  <2>3. CASE place[t] = "asleep" /\ Go(t, "try") /\ local' = [local EXCEPT ![t] = l]
    <3> HIDE DEF l
    <3> QED BY <1>7, <2>1, <2>3, SemQuietStep DEF DeadlinePasses
  <2> QED BY <1>7, <2>2, <2>3 DEF DeadlinePasses
<1> QED BY <1>1, <1>2, <1>3, <1>5, <1>6, <1>7

-----------------------------------------------------------------------------
(* Steps that move tokens, and the notification                            *)

\* What a step of t that tokens or a notification are involved in comes down to:
\* W are the sleepers that it wakes.
LEMMA TokenStep ==
  ASSUME SemIInv, NEW t \in SemThreads, NEW to \in {"out", "got", "notify"},
         NEW W \in SUBSET Asleep, t \notin W,
         place' \in [SemThreads -> SemPlaces], local' \in [Acquirers -> SemLocals],
         place'[t] = to, \A u \in W : place'[u] = "try",
         \A u \in SemThreads \ (W \cup {t}) : place'[u] = place[u],
         \A u \in Acquirers \ (W \cup {t}) : local'[u] = local[u],
         counter' \in Nat, issued' \in Nat, issued' <= SemMax,
         counter' - counter - (issued' - issued)
           = (IF place[t] = "got" THEN 1 ELSE 0) - (IF to = "got" THEN 1 ELSE 0),
         place[t] = "got" \/ to = "got" => t \in Acquirers,
         \/ to = "notify" \/ W = Asleep
         \/ place[t] # "notify" /\ (counter' > 0 => counter > 0)
  PROVE  SemIInv'
<1>1. /\ counter \in Nat /\ issued \in Nat /\ W \subseteq Acquirers
      /\ \A u \in W : place[u] = "asleep"
  BY SemTypes DEF Asleep
<1>2. Holders' = IF to = "got" THEN Holders \cup {t} ELSE Holders \ {t}
  BY <1>1, SemTypes DEF Holders
<1>3. t \in Holders <=> place[t] = "got"
  BY DEF Holders
<1>4. Cardinality(Holders') = Cardinality(Holders) + (IF to = "got" THEN 1 ELSE 0)
                                - (IF place[t] = "got" THEN 1 ELSE 0)
  <2>1. CASE t \in Acquirers
    BY <1>2, <1>3, <2>1, HoldersCounted
  <2>2. CASE t \notin Acquirers
    <3>1. Holders' = Holders
      BY <1>2, <2>2 DEF Holders
    <3> QED BY <3>1, <2>2, HoldersCounted
  <2> QED BY <2>1, <2>2
<1>5. Cardinality(Holders') \in Nat /\ Cardinality(Holders) \in Nat
  <2>1. IsFiniteSet(Holders')
    BY PatientOK, FS_Subset DEF Holders
  <2> QED BY <2>1, FS_CardinalityType, HoldersCounted
<1>6. counter' + Cardinality(Holders') = issued' /\ counter' <= SemMax
  <2>1. PICK a \in Nat : a = IF place[t] = "got" THEN 1 ELSE 0
    OBVIOUS
  <2>2. PICK b \in Nat : b = IF to = "got" THEN 1 ELSE 0
    OBVIOUS
  <2>3. PICK h \in Nat : h = Cardinality(Holders)
    BY <1>5
  <2>4. PICK k \in Nat : k = Cardinality(Holders')
    BY <1>5
  <2>5. counter' - counter - (issued' - issued) = a - b
    BY <2>1, <2>2
  <2>6. k = h + b - a
    BY <1>4, <2>1, <2>2, <2>3, <2>4
  <2>7. counter + h = issued
    BY <2>3 DEF SemIInv, TokensConserved
  <2>8. PICK c \in Nat, d \in Nat, i \in Nat, j \in Nat, m \in Nat :
          c = counter /\ d = counter' /\ i = issued /\ j = issued' /\ m = SemMax
    BY <1>1, SemMaxOK
  <2>9. d - c - (j - i) = a - b /\ c + h = i /\ j <= m
    BY <2>5, <2>7, <2>8
  <2>10. d + k = j /\ d <= m
    BY ONLY <2>6, <2>9
  <2> QED BY <2>4, <2>8, <2>10
<1>7. SemTypeOK'
  BY <1>6, SemMaxOK DEF SemTypeOK, SemPlaces, SemLocals
<1>8. TokensConserved'
  BY <1>6 DEF TokensConserved
<1>9. ASSUME counter' > 0, NEW u \in Asleep', local'[u].val = 0
      PROVE  \E v \in SemThreads : place'[v] = "notify"
  <2>1. CASE to = "notify"
    BY <2>1
  <2>2. CASE to # "notify"
    <3>1. u \in SemThreads /\ u \in Acquirers /\ u # t /\ u \notin W
      BY <1>9, SemTypes DEF Asleep
    <3>2. u \in Asleep /\ local[u].val = 0
      BY <1>9, <3>1 DEF Asleep
    <3>3. place[t] # "notify" /\ counter > 0
      BY <1>9, <2>2, <3>1, <3>2
    <3>4. PICK v \in SemThreads : place[v] = "notify"
      BY <3>2, <3>3 DEF SemIInv, EmptyWokenUp
    <3>5. v # t /\ v \notin W
      BY <1>1, <3>3, <3>4
    <3> QED BY <3>4, <3>5
  <2> QED BY <2>1, <2>2
<1>10. EmptyWokenUp'
  BY <1>9 DEF EmptyWokenUp
<1>11. ASSUME NEW u \in Acquirers, place'[u] = "cas" PROVE local'[u].old > 0
  <2>1. u # t /\ u \notin W /\ u \in SemThreads
    BY <1>11, SemTypes
  <2> QED BY <1>11, <2>1 DEF SemIInv, SawToken
<1>12. SawToken'
  BY <1>11 DEF SawToken
<1> QED BY <1>7, <1>10, <1>12, <1>8 DEF SemIInv

LEMMA TakeStep ==
  ASSUME SemIInv, NEW t \in Acquirers, CompareExchange(t)
  PROVE  SemIInv'
<1> DEFINE l == [val |-> 0, old |-> 0, failed |-> "sleep"]
<1>1. CASE counter # local[t].old
  BY <1>1, FailedStep DEF CompareExchange
<1>2. CASE counter = local[t].old
  <2>1. place[t] = "cas" /\ counter > 0 /\ t \in SemThreads
    BY <1>2, SemTypes DEF CompareExchange, SemIInv, SawToken
  <2>2. /\ counter' = counter - 1 /\ UNCHANGED issued
        /\ local' = [local EXCEPT ![t] = l] /\ place' = [place EXCEPT ![t] = "got"]
    BY <1>2 DEF CompareExchange, Go
  <2>3. l \in SemLocals
    BY SemMaxOK DEF SemLocals
  <2> HIDE DEF l
  <2>4. place' \in [SemThreads -> SemPlaces] /\ local' \in [Acquirers -> SemLocals]
    BY <2>2, <2>3, SemTypes DEF SemPlaces
  <2>5. /\ place'[t] = "got" /\ \A u \in SemThreads \ {t} : place'[u] = place[u]
        /\ \A u \in Acquirers \ {t} : local'[u] = local[u]
    BY <2>1, <2>2, SemTypes
  <2>6. counter' \in Nat /\ counter' - counter - (issued' - issued) = 0 - 1
    BY <2>1, <2>2, SemTypes
  <2> DEFINE to == "got"  W == {}
  <2>7. /\ to \in {"out", "got", "notify"} /\ W \in SUBSET Asleep /\ t \notin W
        /\ SemThreads \ (W \cup {t}) = SemThreads \ {t}
        /\ Acquirers \ (W \cup {t}) = Acquirers \ {t}
    OBVIOUS
  <2>8. counter' - counter - (issued' - issued)
          = (IF place[t] = "got" THEN 1 ELSE 0) - (IF to = "got" THEN 1 ELSE 0)
    BY <2>1, <2>6
  <2>9. /\ place[t] = "got" \/ to = "got" => t \in Acquirers
        /\ place[t] # "notify" /\ (counter' > 0 => counter > 0)
        /\ place'[t] = to /\ \A u \in W : place'[u] = "try"
        /\ issued' \in Nat /\ issued' <= SemMax
    BY <2>1, <2>2, <2>5, SemTypes
  <2> HIDE DEF to, W
  <2> QED BY <2>1, <2>4, <2>5, <2>6, <2>7, <2>8, <2>9, TokenStep
<1> QED BY <1>1, <1>2

LEMMA ReleaseStep ==
  ASSUME SemIInv, NEW t \in SemThreads, NEW n \in Updates, FetchAdd(t, n)
  PROVE  SemIInv'
<1> DEFINE to == IF counter > 0 THEN "out" ELSE "notify"
           W == {}
<1>1. /\ to \in {"out", "notify"} /\ to \in {"out", "got", "notify"} /\ to # "got"
      /\ W \in SUBSET Asleep /\ t \notin W
      /\ SemThreads \ (W \cup {t}) = SemThreads \ {t}
      /\ Acquirers \ (W \cup {t}) = Acquirers \ {t}
      /\ to = "notify" \/ counter > 0
  BY SemTypes
<1>2. /\ place' = [place EXCEPT ![t] = to] /\ UNCHANGED local
      /\ counter' = counter + n /\ n \in Nat
      /\ issued' = IF t \in Acquirers THEN issued ELSE issued + n
      /\ IF t \in Acquirers THEN place[t] = "got" /\ n = 1
         ELSE place[t] = "out" /\ issued + n <= SemMax
  BY UpdatesOK DEF FetchAdd, Go, MayRelease
<1> HIDE DEF to
<1>3. /\ place' \in [SemThreads -> SemPlaces] /\ local' \in [Acquirers -> SemLocals]
      /\ place'[t] = to /\ \A u \in SemThreads \ {t} : place'[u] = place[u]
      /\ \A u \in Acquirers \ {t} : local'[u] = local[u]
  BY <1>1, <1>2, SemTypes DEF SemPlaces
<1>4. /\ counter' \in Nat /\ issued' \in Nat /\ issued' <= SemMax
      /\ counter' - counter - (issued' - issued) = IF place[t] = "got" THEN 1 ELSE 0
      /\ place[t] = "got" => t \in Acquirers
      /\ place[t] # "notify"
  BY <1>2, SemTypes
<1>5. counter' - counter - (issued' - issued)
        = (IF place[t] = "got" THEN 1 ELSE 0) - (IF to = "got" THEN 1 ELSE 0)
  BY <1>1, <1>4
<1> QED BY <1>1, <1>3, <1>4, <1>5, TokenStep

LEMMA UseUpStep ==
  ASSUME SemIInv, NEW t \in Acquirers, UseUp(t)
  PROVE  SemIInv'
<1> DEFINE to == "out"  W == {}
<1>1. /\ t \in SemThreads /\ place[t] = "got" /\ counter' = counter /\ issued' = issued - 1
      /\ UNCHANGED local /\ place' = [place EXCEPT ![t] = "out"] /\ t \in Holders
  BY SemTypes DEF UseUp, Go, Holders
<1>2. Holders # {} /\ Cardinality(Holders) > 0
  BY <1>1, HoldersCounted, FS_EmptySet
<1>3. issued' \in Nat /\ issued' <= SemMax /\ counter' \in Nat
  BY <1>1, <1>2, HoldersCounted, SemTypes, SemMaxOK DEF SemIInv, TokensConserved
<1>4. counter' - counter - (issued' - issued) = 1
  BY <1>1, SemTypes
<1>5. /\ place' \in [SemThreads -> SemPlaces] /\ local' \in [Acquirers -> SemLocals]
      /\ place'[t] = to /\ \A u \in SemThreads \ {t} : place'[u] = place[u]
      /\ \A u \in Acquirers \ {t} : local'[u] = local[u]
  BY <1>1, SemTypes DEF SemPlaces
<1>6. /\ to \in {"out", "got", "notify"} /\ W \in SUBSET Asleep /\ t \notin W
      /\ SemThreads \ (W \cup {t}) = SemThreads \ {t}
      /\ Acquirers \ (W \cup {t}) = Acquirers \ {t}
      /\ \A u \in W : place'[u] = "try"
  OBVIOUS
<1>7. counter' - counter - (issued' - issued)
        = (IF place[t] = "got" THEN 1 ELSE 0) - (IF to = "got" THEN 1 ELSE 0)
  BY <1>1, <1>4
<1>8. place[t] = "got" \/ to = "got" => t \in Acquirers
  OBVIOUS
<1>9. place[t] # "notify" /\ (counter' > 0 => counter > 0)
  BY <1>1
<1> HIDE DEF to, W
<1> QED BY <1>1, <1>3, <1>5, <1>6, <1>7, <1>8, <1>9, TokenStep

LEMMA SemNotifyStep ==
  ASSUME SemIInv, NEW t \in SemThreads, NotifyBare(t)
  PROVE  SemIInv'
<1> DEFINE to == "out"
<1>1. /\ place[t] = "notify" /\ UNCHANGED <<counter, issued>>
      /\ place' = [u \in SemThreads |-> IF u = t THEN "out"
                                        ELSE IF u \in Asleep THEN "try" ELSE place[u]]
      /\ local' = [u \in Acquirers |-> IF u \in Asleep THEN WakeUp(u)[u] ELSE local[u]]
  BY DEF NotifyBare, Notified
<1>2. t \notin Asleep /\ \A u \in Asleep : u # t /\ u \in SemThreads
  BY <1>1, SemTypes DEF Asleep
<1>3. ASSUME NEW u \in Acquirers PROVE WakeUp(u)[u] \in SemLocals
  <2> DEFINE w == [local[u] EXCEPT !.failed = "load"]
  <2>1. local[u] \in SemLocals
    BY SemTypes
  <2>2. w \in SemLocals
    BY <2>1 DEF SemLocals
  <2>3. WakeUp(u) = [local EXCEPT ![u] = w]
    BY DEF WakeUp
  <2> HIDE DEF w
  <2> QED BY <2>2, <2>3, SemTypes
<1>4. local' \in [Acquirers -> SemLocals]
  BY <1>1, <1>3, SemTypes
<1>5. ASSUME NEW u \in SemThreads
      PROVE  place'[u] = IF u = t THEN "out" ELSE IF u \in Asleep THEN "try" ELSE place[u]
  BY <1>1
<1>6. place' \in [SemThreads -> SemPlaces]
  <2>1. DOMAIN place' = SemThreads /\ place' = [u \in SemThreads |-> place'[u]]
    BY <1>1
  <2>2. \A u \in SemThreads : place'[u] \in SemPlaces
    BY <1>5, SemTypes DEF SemPlaces
  <2> QED BY <2>1, <2>2
<1>7. /\ place'[t] = to /\ \A u \in Asleep : place'[u] = "try"
      /\ \A u \in SemThreads \ (Asleep \cup {t}) : place'[u] = place[u]
      /\ \A u \in Acquirers \ (Asleep \cup {t}) : local'[u] = local[u]
  BY <1>1, <1>2, <1>5
<1>8. counter' - counter - (issued' - issued) = 0 /\ counter' \in Nat /\ issued' \in Nat
      /\ issued' <= SemMax
  BY <1>1, SemTypes
<1> DEFINE W == Asleep
<1>9. to \in {"out", "got", "notify"} /\ W \in SUBSET Asleep /\ W = Asleep
  OBVIOUS
<1> HIDE DEF W
<1> QED BY <1>1, <1>2, <1>4, <1>6, <1>7, <1>8, <1>9, TokenStep

LEMMA SemInvStep == SemIInv /\ [SemNext]_semVars => SemIInv'
<1> SUFFICES ASSUME SemIInv, [SemNext]_semVars PROVE SemIInv'
  OBVIOUS
<1>1. CASE UNCHANGED semVars
  BY <1>1 DEF semVars, SemIInv, SemTypeOK, TokensConserved, EmptyWokenUp, SawToken, Holders, Asleep
<1>2. ASSUME NEW t \in Acquirers, UseUp(t) PROVE SemIInv'
  BY <1>2, UseUpStep
<1>3. ASSUME NEW t \in Acquirers, CompareExchange(t) PROVE SemIInv'
  BY <1>3, TakeStep
<1>4. ASSUME NEW t \in Acquirers,
             \/ Acquire(t) \/ LoadValue(t) \/ LoadOld(t) \/ Sleep(t)
             \/ InterruptSleep(t) \/ DeadlinePasses(t)
      PROVE  SemIInv'
  BY <1>4, AcquirerStep
<1>5. ASSUME NEW t \in SemThreads, NEW n \in Updates, FetchAdd(t, n) PROVE SemIInv'
  BY <1>5, ReleaseStep
<1>6. ASSUME NEW t \in SemThreads, NotifyBare(t) PROVE SemIInv'
  BY <1>6, SemNotifyStep
<1> QED BY <1>1, <1>2, <1>3, <1>4, <1>5, <1>6 DEF SemNext, AcquireStep

-----------------------------------------------------------------------------
\* No token is made or lost whatever the threads interleave: the compare and
\* exchange of _S_do_try_acquire() takes one from a counter that still is what
\* was read, and a deadline that passes takes none.
THEOREM TokensKept == SemSpec => []TokensConserved
<1>1. SemIInv => TokensConserved
  BY DEF SemIInv
<1> QED BY <1>1, SemInitInv, SemInvStep, PTL DEF SemSpec

\* Nobody who went to sleep when the counter was 0 is left asleep with a token in
\* it, unless the notification of _M_release() is still to come: it is skipped
\* only by a release that found the counter above 0.
THEOREM NoTokenMissed == SemSpec => []EmptyWokenUp
<1>1. SemIInv => EmptyWokenUp
  BY DEF SemIInv
<1> QED BY <1>1, SemInitInv, SemInvStep, PTL DEF SemSpec

=============================================================================
