---------------------------- MODULE SharedCount -----------------------------
(***************************************************************************)
(* _Sp_counted_base of bits/shared_ptr_base.h with the __shared_count and  *)
(* __weak_count objects that refer to it: one managed object, and all that *)
(* threads may do with pointers to it at the same time.  A pointer is used *)
(* by one thread at a time, except that several may copy it.  A step is    *)
(* one atomic access to a counter.                                         *)
(***************************************************************************)
EXTENDS Naturals, FiniteSets

CONSTANTS Strong,  \* places for shared_ptr objects
          Weak     \* places for weak_ptr objects

ASSUME PlacesOK == IsFiniteSet(Strong) /\ IsFiniteSet(Weak) /\ Strong # {}

VARIABLES lockPolicy,  \* _S_atomic or _S_mutex
          fromThis,    \* whether the object has a weak_ptr to itself
          useCount,    \* _M_use_count
          weakCount,   \* _M_weak_count
          strong,      \* what each shared_ptr is doing
          seen,        \* __count in _M_add_ref_lock_nothrow()
          weak,        \* what each weak_ptr is doing
          object       \* auxiliary: whole, disposed of, or destroyed with its counters

spVars == <<lockPolicy, fromThis, useCount, weakCount, strong, seen, weak, object>>

SpInit == /\ lockPolicy \in {"atomic", "mutex"} /\ fromThis \in BOOLEAN
          /\ useCount = 1 /\ weakCount = IF fromThis THEN 2 ELSE 1
          /\ \E s \in Strong : strong = [r \in Strong |-> IF r = s THEN "held" ELSE "none"]
          /\ seen = [s \in Strong |-> 0]
          /\ weak = [w \in Weak |-> "none"]
          /\ object = "whole"

\* The pointers in one of the given states.
StrongIn(S) == {s \in Strong : strong[s] \in S}
WeakIn(S) == {w \in Weak : weak[w] \in S}

\* A shared_ptr is made, assigned or destroyed while no other thread uses it.
Enters(s, to) == strong' = [strong EXCEPT ![s] = to]

-----------------------------------------------------------------------------
(* shared_ptr                                                              *)

\* Copy construction: _M_add_ref_copy()
CopyStrong(s) ==
  /\ strong[s] = "none" /\ StrongIn({"held"}) # {}
  /\ useCount' = useCount + 1
  /\ Enters(s, "held")
  /\ UNCHANGED <<lockPolicy, fromThis, weakCount, seen, weak, object>>

\* _M_release(): the last one goes on to dispose of the object.
ReleaseStrong(s) ==
  /\ strong[s] = "held"
  /\ useCount' = useCount - 1
  /\ Enters(s, IF useCount = 1 THEN "dispose" ELSE "none")
  /\ UNCHANGED <<lockPolicy, fromThis, weakCount, seen, weak, object>>

\* _M_dispose(), and with the object goes its own weak_ptr.
Dispose(s) ==
  /\ strong[s] = "dispose"
  /\ object' = "disposed"
  /\ weakCount' = IF fromThis THEN weakCount - 1 ELSE weakCount
  /\ Enters(s, "drop")
  /\ UNCHANGED <<lockPolicy, fromThis, useCount, seen, weak>>

\* All the shared_ptr together count as one weak reference.
DropWeak(s) ==
  /\ strong[s] = "drop"
  /\ weakCount' = weakCount - 1
  /\ Enters(s, IF weakCount = 1 THEN "destroy" ELSE "none")
  /\ UNCHANGED <<lockPolicy, fromThis, useCount, seen, weak, object>>

Destroy(s) ==
  /\ strong[s] = "destroy"
  /\ object' = "destroyed"
  /\ Enters(s, "none")
  /\ UNCHANGED <<lockPolicy, fromThis, useCount, weakCount, seen, weak>>

-----------------------------------------------------------------------------
(* weak_ptr                                                                *)

\* Construction from a shared_ptr or from another weak_ptr.
CopyWeak(w) ==
  /\ weak[w] = "none" /\ StrongIn({"held"}) \cup WeakIn({"held"}) # {}
  /\ weakCount' = weakCount + 1
  /\ weak' = [weak EXCEPT ![w] = "held"]
  /\ UNCHANGED <<lockPolicy, fromThis, useCount, strong, seen, object>>

Locking == StrongIn({"load", "cas", "undo"}) # {}

\* Wrong: a weak_ptr that is not the last one stays counted.
LeavesCount(w) ==
  /\ weak[w] = "held"
  /\ Locking => WeakIn({"held"}) # {w}
  /\ weakCount' = IF weakCount = 1 THEN 0 ELSE weakCount
  /\ weak' = [weak EXCEPT ![w] = IF weakCount = 1 THEN "destroy" ELSE "none"]
  /\ UNCHANGED <<lockPolicy, fromThis, useCount, strong, seen, object>>

\* _M_weak_release().  One weak_ptr stays while threads lock it.
ReleaseWeak(w) ==
  /\ weak[w] = "held"
  /\ Locking => WeakIn({"held"}) # {w}
  /\ weakCount' = weakCount - 1
  /\ weak' = [weak EXCEPT ![w] = IF weakCount = 1 THEN "destroy" ELSE "none"]
  /\ UNCHANGED <<lockPolicy, fromThis, useCount, strong, seen, object>>

DestroyWeak(w) ==
  /\ weak[w] = "destroy"
  /\ object' = "destroyed"
  /\ weak' = [weak EXCEPT ![w] = "none"]
  /\ UNCHANGED <<lockPolicy, fromThis, useCount, weakCount, strong, seen>>

\* lock(), or a shared_ptr made of a weak_ptr: _M_add_ref_lock_nothrow().
LockWeak(s) ==
  /\ strong[s] = "none" /\ WeakIn({"held"}) # {}
  /\ Enters(s, "load")
  /\ UNCHANGED <<lockPolicy, fromThis, useCount, weakCount, seen, weak, object>>

LoadCount(s) ==
  /\ strong[s] = "load" /\ lockPolicy = "atomic"
  /\ seen' = [seen EXCEPT ![s] = useCount]
  /\ Enters(s, IF useCount = 0 THEN "none" ELSE "cas")
  /\ UNCHANGED <<lockPolicy, fromThis, useCount, weakCount, weak, object>>

\* Wrong: the counter is incremented whatever it is by now.
AddsBlindly(s) ==
  /\ strong[s] = "cas"
  /\ useCount' = useCount + 1 /\ seen' = [seen EXCEPT ![s] = 0]
  /\ Enters(s, "held")
  /\ UNCHANGED <<lockPolicy, fromThis, weakCount, weak, object>>

\* The compare-and-exchange, which is weak: it may fail for no reason.
ExchangeCount(s) ==
  /\ strong[s] = "cas"
  /\ \/ /\ useCount = seen[s]
        /\ useCount' = useCount + 1 /\ seen' = [seen EXCEPT ![s] = 0]
        /\ Enters(s, "held")
     \/ /\ UNCHANGED useCount
        /\ seen' = [seen EXCEPT ![s] = useCount]
        /\ Enters(s, IF useCount = 0 THEN "none" ELSE "cas")
  /\ UNCHANGED <<lockPolicy, fromThis, weakCount, weak, object>>

\* With a mutex, the counter goes up first ...
AddLocked(s) ==
  /\ strong[s] = "load" /\ lockPolicy = "mutex"
  /\ StrongIn({"undo"}) = {}
  /\ useCount' = useCount + 1
  /\ Enters(s, IF useCount = 0 THEN "undo" ELSE "held")
  /\ UNCHANGED <<lockPolicy, fromThis, weakCount, seen, weak, object>>

\* ... and is put back if it was 0.
UndoAdd(s) ==
  /\ strong[s] = "undo"
  /\ useCount' = 0
  /\ Enters(s, "none")
  /\ UNCHANGED <<lockPolicy, fromThis, weakCount, seen, weak, object>>

StrongStep(s) == \/ Dispose(s) \/ DropWeak(s) \/ Destroy(s)
                 \/ LoadCount(s) \/ ExchangeCount(s) \/ AddLocked(s) \/ UndoAdd(s)

SpNext == \/ \E s \in Strong : \/ CopyStrong(s) \/ ReleaseStrong(s) \/ LockWeak(s)
                               \/ StrongStep(s)
          \/ \E w \in Weak : CopyWeak(w) \/ ReleaseWeak(w) \/ DestroyWeak(w)

SpSpec == SpInit /\ [][SpNext]_spVars

\* Threads finish what they have begun; nobody has to let go of a pointer.
SpFairSpec == /\ SpSpec /\ \A s \in Strong : WF_spVars(StrongStep(s))
              /\ \A w \in Weak : WF_spVars(DestroyWeak(w))

-----------------------------------------------------------------------------
(* Properties                                                              *)

\* Both counters are the numbers of those that count on them: the shared_ptr
\* objects (and, for a moment, a failing lock() under a mutex), and the weak
\* ones, the object's own one, and one for all that are shared.
UseCountRight ==
  useCount = Cardinality(StrongIn({"held"})) + Cardinality(StrongIn({"undo"}))
WeakCountRight ==
  weakCount = Cardinality(WeakIn({"held"}))
              + (IF object = "whole" THEN IF fromThis THEN 2 ELSE 1
                 ELSE Cardinality(StrongIn({"drop"})))

\* The object is whole as long as there is a shared_ptr: lock() does not bring
\* back what is being disposed of; and one pointer disposes of it.
NoResurrection ==
  /\ StrongIn({"held"}) # {} => object = "whole" /\ StrongIn({"dispose"}) = {}
  /\ \A s, r \in StrongIn({"dispose", "drop"}) : s = r
  /\ StrongIn({"dispose"}) # {} => object = "whole"

\* The counters are there as long as anybody refers to them, and are destroyed
\* once and after the object.
CountersOutlive ==
  object = "destroyed" =>
     /\ StrongIn({"held", "dispose", "drop", "destroy", "load", "cas", "undo"}) = {}
     /\ WeakIn({"held", "destroy"}) = {}

\* When the last pointer has been let go, everything is destroyed.
NoLeak == (StrongIn({"held", "load", "cas", "undo"}) \cup WeakIn({"held"}) = {}) ~> object = "destroyed"

\* The counters, the pointers and the object together.
CountersInv == UseCountRight /\ WeakCountRight /\ NoResurrection /\ CountersOutlive

=============================================================================
