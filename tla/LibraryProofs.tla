--------------------------- MODULE LibraryProofs ----------------------------
(***************************************************************************)
(* Three parts of libstdc++.  The counters of shared pointers: for any     *)
(* number of pointers, with and without a mutex, both count, nothing that  *)
(* is being disposed of is brought back, and the counters outlive all who  *)
(* refer to them.  The tasks of the parallel sort and merge: for any range *)
(* and cut offs, however tasks are split and run, and wherever memory runs *)
(* out.  And the parallel searches: the blocks of a search lose no hit and *)
(* find what the serial search finds.                                      *)
(***************************************************************************)
EXTENDS SharedCount, ParallelSort, ParallelFind, RecursiveDefinitions,
        FiniteSetTheorems, SequenceTheorems, WellFoundedInduction, TLAPS

-----------------------------------------------------------------------------
(* SharedCount                                                             *)

StrongPlaces == {"none", "held", "dispose", "drop", "destroy", "load", "cas", "undo"}
WeakPlaces == {"none", "held", "destroy"}

SpTypeOK ==
  /\ lockPolicy \in {"atomic", "mutex"} /\ fromThis \in BOOLEAN
  /\ useCount \in Nat /\ weakCount \in Nat
  /\ strong \in [Strong -> StrongPlaces] /\ seen \in [Strong -> Nat]
  /\ weak \in [Weak -> WeakPlaces]
  /\ object \in {"whole", "disposed", "destroyed"}

-----------------------------------------------------------------------------
(* The inductive invariant                                                 *)

\* A lock() is covered by a weak_ptr; one that has seen the counter above 0
\* is under no mutex, and one that fails under a mutex is alone with it.
LockingCovered ==
  \A s \in Strong :
    /\ strong[s] \in {"load", "cas", "undo"} => \E w \in Weak : weak[w] = "held"
    /\ strong[s] = "cas" => seen[s] > 0 /\ lockPolicy = "atomic"
    /\ strong[s] = "undo" =>
         /\ lockPolicy = "mutex"
         /\ \A r \in Strong : strong[r] # "held" /\ (strong[r] = "undo" => r = s)

\* Who gives up the weak reference of all shared_ptr has disposed of the object.
DropsDisposed == \A s \in Strong : strong[s] = "drop" => object = "disposed"

\* Who destroys the counters is the only one left.
DestroyerAlone ==
  /\ \A s \in Strong : strong[s] = "destroy" =>
       /\ object = "disposed"
       /\ \A r \in Strong : r # s => strong[r] = "none"
       /\ \A w \in Weak : weak[w] = "none"
  /\ \A w \in Weak : weak[w] = "destroy" =>
       /\ object = "disposed"
       /\ \A r \in Strong : strong[r] = "none"
       /\ \A v \in Weak : v # w => weak[v] = "none"

Rest == NoResurrection /\ CountersOutlive /\ LockingCovered /\ DropsDisposed /\ DestroyerAlone
IInv == SpTypeOK /\ UseCountRight /\ WeakCountRight /\ Rest

-----------------------------------------------------------------------------
(* Counting pointers                                                       *)

LEMMA Finite ==
  ASSUME NEW P
  PROVE  /\ IsFiniteSet(StrongIn(P)) /\ IsFiniteSet(WeakIn(P))
         /\ Cardinality(StrongIn(P)) \in Nat /\ Cardinality(WeakIn(P)) \in Nat
<1>1. IsFiniteSet(StrongIn(P)) /\ IsFiniteSet(WeakIn(P))
  BY PlacesOK, FS_Subset DEF StrongIn, WeakIn
<1> QED BY <1>1, FS_CardinalityType

LEMMA Sizes ==
  ASSUME NEW S, IsFiniteSet(S)
  PROVE  /\ Cardinality(S) \in Nat
         /\ Cardinality(S) = 0 <=> S = {}
         /\ \A x \in S : Cardinality(S) >= 1
         /\ Cardinality(S) = 1 => \A x, y \in S : x = y
<1>1. Cardinality(S) \in Nat
  BY FS_CardinalityType
<1>2. Cardinality(S) = 0 <=> S = {}
  BY FS_EmptySet
<1>3. Cardinality(S) = 1 => \A x, y \in S : x = y
  BY FS_Singleton
<1> QED BY <1>1, <1>2, <1>3

\* A pointer that goes from one place to another.
LEMMA StrongMoves ==
  ASSUME SpTypeOK, NEW s \in Strong, NEW to, Enters(s, to), NEW p
  PROVE  /\ strong[s] = p /\ to = p =>
              Cardinality(StrongIn({p}))' = Cardinality(StrongIn({p}))
         /\ strong[s] = p /\ to # p =>
              Cardinality(StrongIn({p}))' = Cardinality(StrongIn({p})) - 1
         /\ strong[s] # p /\ to = p =>
              Cardinality(StrongIn({p}))' = Cardinality(StrongIn({p})) + 1
         /\ strong[s] # p /\ to # p =>
              Cardinality(StrongIn({p}))' = Cardinality(StrongIn({p}))
<1>1. IsFiniteSet(StrongIn({p}))
  BY Finite
<1>2. StrongIn({p})' = IF to = p THEN StrongIn({p}) \cup {s} ELSE StrongIn({p}) \ {s}
  BY DEF StrongIn, Enters, SpTypeOK
<1>3. s \in StrongIn({p}) <=> strong[s] = p
  BY DEF StrongIn
<1>4. /\ Cardinality(StrongIn({p}) \cup {s}) =
           IF s \in StrongIn({p}) THEN Cardinality(StrongIn({p}))
           ELSE Cardinality(StrongIn({p})) + 1
      /\ Cardinality(StrongIn({p}) \ {s}) =
           IF s \in StrongIn({p}) THEN Cardinality(StrongIn({p})) - 1
           ELSE Cardinality(StrongIn({p}))
  BY <1>1, FS_AddElement, FS_RemoveElement
<1> QED BY <1>2, <1>3, <1>4

LEMMA WeakMoves ==
  ASSUME SpTypeOK, NEW w \in Weak, NEW to, weak' = [weak EXCEPT ![w] = to]
  PROVE  /\ weak[w] = "held" /\ to # "held" =>
              Cardinality(WeakIn({"held"}))' = Cardinality(WeakIn({"held"})) - 1
         /\ weak[w] # "held" /\ to = "held" =>
              Cardinality(WeakIn({"held"}))' = Cardinality(WeakIn({"held"})) + 1
         /\ weak[w] # "held" /\ to # "held" =>
              Cardinality(WeakIn({"held"}))' = Cardinality(WeakIn({"held"}))
<1>1. IsFiniteSet(WeakIn({"held"}))
  BY Finite
<1>2. WeakIn({"held"})' = IF to = "held" THEN WeakIn({"held"}) \cup {w} ELSE WeakIn({"held"}) \ {w}
  BY DEF WeakIn, SpTypeOK
<1>3. w \in WeakIn({"held"}) <=> weak[w] = "held"
  BY DEF WeakIn
<1>4. /\ Cardinality(WeakIn({"held"}) \cup {w}) =
           IF w \in WeakIn({"held"}) THEN Cardinality(WeakIn({"held"}))
           ELSE Cardinality(WeakIn({"held"})) + 1
      /\ Cardinality(WeakIn({"held"}) \ {w}) =
           IF w \in WeakIn({"held"}) THEN Cardinality(WeakIn({"held"})) - 1
           ELSE Cardinality(WeakIn({"held"}))
  BY <1>1, FS_AddElement, FS_RemoveElement
<1> QED BY <1>2, <1>3, <1>4

\* The same for the places that the counters are made of.
One(b) == IF b THEN 1 ELSE 0

LEMMA Counted ==
  ASSUME SpTypeOK, NEW s \in Strong, NEW from, strong[s] = from, NEW to, Enters(s, to)
  PROVE  /\ Cardinality(StrongIn({"held"}))' =
              Cardinality(StrongIn({"held"})) + One(to = "held") - One(from = "held")
         /\ Cardinality(StrongIn({"undo"}))' =
              Cardinality(StrongIn({"undo"})) + One(to = "undo") - One(from = "undo")
         /\ Cardinality(StrongIn({"drop"}))' =
              Cardinality(StrongIn({"drop"})) + One(to = "drop") - One(from = "drop")
         /\ Cardinality(StrongIn({"held"})) \in Nat
         /\ Cardinality(StrongIn({"undo"})) \in Nat
         /\ Cardinality(StrongIn({"drop"})) \in Nat
<1>1. ASSUME NEW p
      PROVE  /\ Cardinality(StrongIn({p}))' =
                  Cardinality(StrongIn({p})) + One(to = p) - One(from = p)
             /\ Cardinality(StrongIn({p})) \in Nat
  BY StrongMoves, Finite DEF One
<1> QED BY <1>1

-----------------------------------------------------------------------------
(* What the counters tell of the pointers                                  *)

LEMMA UseCountTells ==
  ASSUME IInv
  PROVE  /\ useCount = 0 => \A s \in Strong : strong[s] \notin {"held", "undo"}
         /\ \A s \in Strong : strong[s] = "held" =>
              /\ useCount >= 1
              /\ useCount = 1 => \A r \in Strong : strong[r] \in {"held", "undo"} => r = s
         /\ useCount # 0 => \E s \in Strong : strong[s] \in {"held", "undo"}
<1> DEFINE H == StrongIn({"held"})
           U == StrongIn({"undo"})
<1>1. /\ \A s \in Strong : (s \in H <=> strong[s] = "held") /\ (s \in U <=> strong[s] = "undo")
      /\ H \subseteq Strong /\ U \subseteq Strong
  BY DEF StrongIn
<1>2. useCount = Cardinality(H) + Cardinality(U)
  BY DEF IInv, UseCountRight
<1>3. IsFiniteSet(H) /\ IsFiniteSet(U)
  BY Finite
<1> HIDE DEF H, U
<1>4. /\ Cardinality(H) \in Nat /\ (Cardinality(H) = 0 <=> H = {})
      /\ Cardinality(H) = 1 => \A x, y \in H : x = y
      /\ Cardinality(U) \in Nat /\ (Cardinality(U) = 0 <=> U = {})
  BY <1>3, Sizes
<1> QED BY <1>1, <1>2, <1>4

LEMMA WeakCountTells ==
  ASSUME IInv, weakCount = 1
  PROVE  /\ \A w \in Weak : weak[w] = "held" =>
              /\ \A v \in Weak : weak[v] = "held" => v = w
              /\ object # "whole"
              /\ \A s \in Strong : strong[s] # "drop"
         /\ \A s \in Strong : strong[s] = "drop" => \A w \in Weak : weak[w] # "held"
<1> DEFINE H == WeakIn({"held"})
           R == StrongIn({"drop"})
<1>1. /\ \A w \in Weak : w \in H <=> weak[w] = "held"
      /\ \A s \in Strong : s \in R <=> strong[s] = "drop"
  BY DEF WeakIn, StrongIn
<1>2. 1 = Cardinality(H) + (IF object = "whole" THEN IF fromThis THEN 2 ELSE 1
                            ELSE Cardinality(R))
  BY DEF IInv, WeakCountRight
<1>3. IsFiniteSet(H) /\ IsFiniteSet(R)
  BY Finite
<1>5. \A s \in Strong : strong[s] = "drop" => object # "whole"
  BY DEF IInv, Rest, DropsDisposed
<1> HIDE DEF H, R
<1>4. /\ Cardinality(H) \in Nat /\ (Cardinality(H) = 0 <=> H = {})
      /\ Cardinality(H) = 1 => \A x, y \in H : x = y
      /\ Cardinality(R) \in Nat /\ (Cardinality(R) = 0 <=> R = {})
  BY <1>3, Sizes
<1>6. ASSUME NEW w \in Weak, weak[w] = "held"
      PROVE  /\ \A v \in Weak : weak[v] = "held" => v = w
             /\ object # "whole"
             /\ \A s \in Strong : strong[s] # "drop"
  <2>1. Cardinality(H) >= 1
    BY <1>1, <1>4, <1>6
  <2>2. Cardinality(H) = 1 /\ object # "whole" /\ Cardinality(R) = 0
    BY <1>2, <1>4, <2>1
  <2> QED BY <1>1, <1>4, <1>6, <2>2
<1>7. ASSUME NEW s \in Strong, strong[s] = "drop" PROVE \A w \in Weak : weak[w] # "held"
  <2>1. Cardinality(R) >= 1 /\ object # "whole"
    BY <1>1, <1>4, <1>5, <1>7
  <2>2. Cardinality(H) = 0
    BY <1>2, <1>4, <2>1
  <2> QED BY <1>1, <1>4, <2>2
<1> QED BY <1>6, <1>7

-----------------------------------------------------------------------------
(* The rest of the invariant, pointer by pointer                           *)

RestMeans ==
  /\ \A s \in Strong : strong[s] = "held" =>
       object = "whole" /\ \A r \in Strong : strong[r] # "dispose"
  /\ \A s, r \in Strong : strong[s] \in {"dispose", "drop"} /\ strong[r] \in {"dispose", "drop"} => s = r
  /\ \A s \in Strong : strong[s] = "dispose" => object = "whole"
  /\ object = "destroyed" => /\ \A s \in Strong : strong[s] = "none"
                             /\ \A w \in Weak : weak[w] = "none"
  /\ LockingCovered /\ DropsDisposed /\ DestroyerAlone

LEMMA RestSame == SpTypeOK => (Rest <=> RestMeans)
<1> SUFFICES ASSUME SpTypeOK PROVE Rest <=> RestMeans
  OBVIOUS
<1>1. NoResurrection <=>
        /\ \A s \in Strong : strong[s] = "held" =>
             object = "whole" /\ \A r \in Strong : strong[r] # "dispose"
        /\ \A s, r \in Strong : strong[s] \in {"dispose", "drop"}
                                /\ strong[r] \in {"dispose", "drop"} => s = r
        /\ \A s \in Strong : strong[s] = "dispose" => object = "whole"
  BY DEF NoResurrection, StrongIn
<1>2. CountersOutlive <=>
        (object = "destroyed" => /\ \A s \in Strong : strong[s] = "none"
                                 /\ \A w \in Weak : weak[w] = "none")
  BY DEF CountersOutlive, StrongIn, WeakIn, SpTypeOK, StrongPlaces, WeakPlaces
<1> QED BY <1>1, <1>2 DEF Rest, RestMeans

LEMMA RestSameAfter == SpTypeOK' => (RestMeans' => Rest')
<1> SUFFICES ASSUME SpTypeOK', RestMeans' PROVE Rest'
  OBVIOUS
<1>1. NoResurrection'
  BY DEF NoResurrection, StrongIn, RestMeans
<1>2. CountersOutlive'
  BY DEF CountersOutlive, StrongIn, WeakIn, RestMeans
<1> QED BY <1>1, <1>2 DEF Rest, RestMeans

LEMMA UseCountKept ==
  ASSUME IInv, NEW s \in Strong, NEW to, Enters(s, to), UNCHANGED useCount,
         strong[s] \notin {"held", "undo"}, to \notin {"held", "undo"}
  PROVE  UseCountRight'
<1>1. SpTypeOK
  BY DEF IInv
<1> QED BY <1>1, StrongMoves DEF IInv, UseCountRight

\* The weak pointers stay, and no shared_ptr is disposed of.
LEMMA WeakCountKept ==
  ASSUME IInv, NEW s \in Strong, NEW to, Enters(s, to),
         UNCHANGED <<weakCount, weak, fromThis, object>>,
         strong[s] # "drop", to # "drop"
  PROVE  WeakCountRight'
<1>1. SpTypeOK
  BY DEF IInv
<1>2. Cardinality(StrongIn({"drop"}))' = Cardinality(StrongIn({"drop"}))
  BY <1>1, StrongMoves
<1>3. WeakIn({"held"})' = WeakIn({"held"})
  BY DEF WeakIn
<1> QED BY <1>2, <1>3 DEF IInv, WeakCountRight

LEMMA StrongKept ==
  ASSUME UNCHANGED strong, NEW P PROVE StrongIn(P)' = StrongIn(P)
BY DEF StrongIn

-----------------------------------------------------------------------------
(* The steps                                                               *)

LEMMA CopyStrongStep ==
  ASSUME IInv, NEW s \in Strong, CopyStrong(s)
  PROVE  IInv'
<1> USE DEF CopyStrong
<1>1. SpTypeOK /\ RestMeans
  BY RestSame DEF IInv
<1>2. SpTypeOK'
  BY <1>1 DEF SpTypeOK, Enters, StrongPlaces
<1>3. UseCountRight'
  <2>1. Enters(s, "held") /\ strong[s] = "none" /\ useCount' = useCount + 1
    OBVIOUS
  <2> HIDE DEF CopyStrong
  <2> QED BY <1>1, <2>1, Counted DEF IInv, UseCountRight, One
<1>4. WeakCountRight'
  BY WeakCountKept
<1>5. PICK r \in Strong : strong[r] = "held"
  BY DEF StrongIn
<1>6. RestMeans'
  BY <1>1, <1>5 DEF RestMeans, Enters, SpTypeOK, LockingCovered, DropsDisposed, DestroyerAlone
<1> QED BY <1>2, <1>3, <1>4, <1>6, RestSameAfter DEF IInv

LEMMA ReleaseStrongStep ==
  ASSUME IInv, NEW s \in Strong, ReleaseStrong(s)
  PROVE  IInv'
<1> DEFINE to == IF useCount = 1 THEN "dispose" ELSE "none"
<1> USE DEF ReleaseStrong
<1>1. SpTypeOK /\ RestMeans
  BY RestSame DEF IInv
<1>2. /\ useCount >= 1
      /\ useCount = 1 => \A r \in Strong : strong[r] \in {"held", "undo"} => r = s
  BY UseCountTells
<1>3. SpTypeOK'
  BY <1>1, <1>2 DEF SpTypeOK, Enters, StrongPlaces
<1>4. Enters(s, to)
  OBVIOUS
<1>5. UseCountRight'
  <2>1. strong[s] = "held" /\ useCount' = useCount - 1 /\ to \notin {"held", "undo"}
    OBVIOUS
  <2> HIDE DEF ReleaseStrong, to
  <2> QED BY <1>1, <1>4, <2>1, Counted DEF IInv, UseCountRight, One
<1>6. WeakCountRight'
  BY <1>4, WeakCountKept
<1>7. RestMeans'
  BY <1>1, <1>2 DEF RestMeans, Enters, SpTypeOK, LockingCovered, DropsDisposed, DestroyerAlone
<1> QED BY <1>3, <1>5, <1>6, <1>7, RestSameAfter DEF IInv

LEMMA DisposeStep ==
  ASSUME IInv, NEW s \in Strong, Dispose(s)
  PROVE  IInv'
<1> USE DEF Dispose
<1>1. SpTypeOK /\ RestMeans
  BY RestSame DEF IInv
<1>2. /\ object = "whole" /\ \A r \in Strong : strong[r] # "drop"
      /\ \A r \in Strong : strong[r] # "held"
  BY <1>1 DEF RestMeans, DropsDisposed
<1>3. WeakCountRight' /\ weakCount' \in Nat
  <2>1. Cardinality(StrongIn({"drop"})) = 0
    BY <1>2, FS_EmptySet DEF StrongIn
  <2>2. Cardinality(StrongIn({"drop"}))' = 1
    <3>1. SpTypeOK /\ Enters(s, "drop") /\ strong[s] # "drop"
      BY <1>1, <1>2
    <3> HIDE DEF Dispose
    <3>2. Cardinality(StrongIn({"drop"}))' = Cardinality(StrongIn({"drop"})) + 1
      BY <3>1, StrongMoves
    <3> QED BY <3>2, <2>1
  <2>3. WeakIn({"held"})' = WeakIn({"held"})
    BY DEF WeakIn
  <2>4. weakCount = Cardinality(WeakIn({"held"})) + IF fromThis THEN 2 ELSE 1
    BY <1>2 DEF IInv, WeakCountRight
  <2>5. weakCount' = Cardinality(WeakIn({"held"})) + 1
    BY <1>1, <2>4, Finite DEF SpTypeOK
  <2> QED BY <2>2, <2>3, <2>5, Finite DEF WeakCountRight
<1>4. SpTypeOK'
  BY <1>1, <1>3 DEF SpTypeOK, Enters, StrongPlaces
<1>5. UseCountRight'
  BY UseCountKept
<1>6. RestMeans'
  BY <1>1, <1>2 DEF RestMeans, Enters, SpTypeOK, LockingCovered, DropsDisposed, DestroyerAlone
<1> QED BY <1>3, <1>4, <1>5, <1>6, RestSameAfter DEF IInv

LEMMA DropWeakStep ==
  ASSUME IInv, NEW s \in Strong, DropWeak(s)
  PROVE  IInv'
<1> DEFINE to == IF weakCount = 1 THEN "destroy" ELSE "none"
<1> USE DEF DropWeak
<1>1. SpTypeOK /\ RestMeans
  BY RestSame DEF IInv
<1>2. object = "disposed"
  BY <1>1 DEF RestMeans, DropsDisposed
<1>3. Enters(s, to)
  OBVIOUS
<1>4. WeakCountRight' /\ weakCount' \in Nat
  <2>0. strong[s] = "drop" /\ to # "drop"
    OBVIOUS
  <2>1. /\ Cardinality(StrongIn({"drop"})) \in Nat
        /\ Cardinality(StrongIn({"drop"})) >= 1
        /\ Cardinality(StrongIn({"drop"}))' = Cardinality(StrongIn({"drop"})) - 1
    <3> HIDE DEF DropWeak, to
    <3>1. s \in StrongIn({"drop"})
      BY <2>0 DEF StrongIn
    <3>2. Cardinality(StrongIn({"drop"})) >= 1
      BY <3>1, Finite, Sizes
    <3> QED BY <1>1, <1>3, <2>0, <3>2, Counted DEF One
  <2>2. WeakIn({"held"})' = WeakIn({"held"})
    BY DEF WeakIn
  <2> QED BY <1>2, <2>1, <2>2, Finite DEF IInv, WeakCountRight
<1>5. SpTypeOK'
  BY <1>1, <1>4 DEF SpTypeOK, Enters, StrongPlaces
<1>6. UseCountRight'
  BY <1>3, UseCountKept
<1>7. weakCount = 1 => \A w \in Weak : weak[w] # "held"
  BY WeakCountTells
<1>8. RestMeans'
  BY <1>1, <1>2, <1>7
     DEF RestMeans, Enters, SpTypeOK, StrongPlaces, WeakPlaces, LockingCovered, DropsDisposed, DestroyerAlone
<1> QED BY <1>4, <1>5, <1>6, <1>8, RestSameAfter DEF IInv

LEMMA DestroyStep ==
  ASSUME IInv, NEW s \in Strong, Destroy(s)
  PROVE  IInv'
<1> USE DEF Destroy
<1>1. SpTypeOK /\ RestMeans
  BY RestSame DEF IInv
<1>2. SpTypeOK'
  BY <1>1 DEF SpTypeOK, Enters, StrongPlaces
<1>3. UseCountRight'
  BY UseCountKept
<1>4. WeakCountRight'
  <2>1. object = "disposed"
    BY <1>1 DEF RestMeans, DestroyerAlone
  <2>2. Cardinality(StrongIn({"drop"}))' = Cardinality(StrongIn({"drop"}))
    <3>1. Enters(s, "none") /\ strong[s] = "destroy"
      OBVIOUS
    <3> HIDE DEF Destroy
    <3> QED BY <1>1, <3>1, Counted DEF One
  <2>3. WeakIn({"held"})' = WeakIn({"held"})
    BY DEF WeakIn
  <2> QED BY <2>1, <2>2, <2>3 DEF IInv, WeakCountRight
<1>5. RestMeans'
  BY <1>1 DEF RestMeans, Enters, SpTypeOK, LockingCovered, DropsDisposed, DestroyerAlone
<1> QED BY <1>2, <1>3, <1>4, <1>5, RestSameAfter DEF IInv

LEMMA CopyWeakStep ==
  ASSUME IInv, NEW w \in Weak, CopyWeak(w)
  PROVE  IInv'
<1> USE DEF CopyWeak
<1>1. SpTypeOK /\ RestMeans
  BY RestSame DEF IInv
<1>2. SpTypeOK'
  BY <1>1 DEF SpTypeOK, WeakPlaces
<1>3. UseCountRight'
  BY StrongKept DEF IInv, UseCountRight
<1>4. WeakCountRight'
  <2>1. Cardinality(WeakIn({"held"}))' = Cardinality(WeakIn({"held"})) + 1
    BY <1>1, WeakMoves
  <2>2. Cardinality(StrongIn({"drop"}))' = Cardinality(StrongIn({"drop"}))
    BY StrongKept
  <2>3. /\ Cardinality(WeakIn({"held"})) \in Nat
        /\ Cardinality(StrongIn({"drop"})) \in Nat
    BY Finite
  <2>4. weakCount' = weakCount + 1 /\ UNCHANGED <<object, fromThis>>
    OBVIOUS
  <2> HIDE DEF CopyWeak
  <2> QED BY <2>1, <2>2, <2>3, <2>4 DEF IInv, WeakCountRight
<1>5. (\E s \in Strong : strong[s] = "held") \/ (\E v \in Weak : weak[v] = "held")
  BY DEF StrongIn, WeakIn
<1>6. RestMeans'
  BY <1>1, <1>5 DEF RestMeans, SpTypeOK, LockingCovered, DropsDisposed, DestroyerAlone
<1> QED BY <1>2, <1>3, <1>4, <1>6, RestSameAfter DEF IInv

LEMMA ReleaseWeakStep ==
  ASSUME IInv, NEW w \in Weak, ReleaseWeak(w)
  PROVE  IInv'
<1> DEFINE to == IF weakCount = 1 THEN "destroy" ELSE "none"
<1> USE DEF ReleaseWeak
<1>1. SpTypeOK /\ RestMeans
  BY RestSame DEF IInv
<1>2. weak' = [weak EXCEPT ![w] = to] /\ to # "held"
  OBVIOUS
<1>3. WeakCountRight' /\ weakCount' \in Nat
  <2>1. /\ Cardinality(WeakIn({"held"})) >= 1
        /\ Cardinality(WeakIn({"held"}))' = Cardinality(WeakIn({"held"})) - 1
    BY <1>1, <1>2, WeakMoves, Finite, Sizes DEF WeakIn
  <2> QED BY <2>1, StrongKept, Finite DEF IInv, WeakCountRight
<1>4. SpTypeOK'
  BY <1>1, <1>3 DEF SpTypeOK, WeakPlaces
<1>5. UseCountRight'
  BY StrongKept DEF IInv, UseCountRight
<1>6. /\ weakCount = 1 => \A v \in Weak : weak[v] = "held" => v = w
      /\ weakCount = 1 => object # "whole" /\ \A s \in Strong : strong[s] # "drop"
  BY WeakCountTells
<1>7. (\E s \in Strong : strong[s] \in {"load", "cas", "undo"})
        => \E v \in Weak : v # w /\ weak[v] = "held"
  BY DEF Locking, StrongIn, WeakIn
<1>8. RestMeans'
  <2>1. weakCount = 1 => \A s \in Strong : strong[s] = "none"
    BY <1>1, <1>6, <1>7 DEF RestMeans, DestroyerAlone, SpTypeOK, StrongPlaces
  <2>2. weakCount = 1 => \A v \in Weak : v # w => weak[v] = "none"
    BY <1>1, <1>6 DEF RestMeans, DestroyerAlone, SpTypeOK, WeakPlaces
  <2>3. weakCount = 1 => object = "disposed"
    BY <1>1, <1>6 DEF RestMeans, SpTypeOK
  <2>4. LockingCovered'
    BY <1>1, <1>7 DEF RestMeans, LockingCovered, SpTypeOK
  <2>5. DestroyerAlone'
    BY <1>1, <1>2, <2>1, <2>2, <2>3 DEF RestMeans, DestroyerAlone, SpTypeOK
  <2> QED BY <1>1, <2>4, <2>5 DEF RestMeans, DropsDisposed, SpTypeOK
<1> QED BY <1>3, <1>4, <1>5, <1>8, RestSameAfter DEF IInv

LEMMA DestroyWeakStep ==
  ASSUME IInv, NEW w \in Weak, DestroyWeak(w)
  PROVE  IInv'
<1> USE DEF DestroyWeak
<1>1. SpTypeOK /\ RestMeans
  BY RestSame DEF IInv
<1>2. SpTypeOK'
  BY <1>1 DEF SpTypeOK, WeakPlaces
<1>3. UseCountRight'
  BY StrongKept DEF IInv, UseCountRight
<1>4. object = "disposed"
  BY <1>1 DEF RestMeans, DestroyerAlone
<1>5. WeakCountRight'
  <2>1. Cardinality(WeakIn({"held"}))' = Cardinality(WeakIn({"held"}))
    <3> DEFINE to == "none"
    <3>1. weak' = [weak EXCEPT ![w] = to] /\ weak[w] # "held" /\ to # "held"
      OBVIOUS
    <3> HIDE DEF DestroyWeak, to
    <3> QED BY <1>1, <3>1, WeakMoves
  <2>2. Cardinality(StrongIn({"drop"}))' = Cardinality(StrongIn({"drop"}))
    BY StrongKept
  <2> QED BY <1>4, <2>1, <2>2 DEF IInv, WeakCountRight
<1>6. RestMeans'
  BY <1>1 DEF RestMeans, SpTypeOK, LockingCovered, DropsDisposed, DestroyerAlone
<1> QED BY <1>2, <1>3, <1>5, <1>6, RestSameAfter DEF IInv

LEMMA LockWeakStep ==
  ASSUME IInv, NEW s \in Strong, LockWeak(s)
  PROVE  IInv'
<1> USE DEF LockWeak
<1>1. SpTypeOK /\ RestMeans
  BY RestSame DEF IInv
<1>2. SpTypeOK'
  BY <1>1 DEF SpTypeOK, Enters, StrongPlaces
<1>3. UseCountRight' /\ WeakCountRight'
  BY UseCountKept, WeakCountKept
<1>4. \E w \in Weak : weak[w] = "held"
  BY DEF WeakIn
<1>5. RestMeans'
  BY <1>1, <1>4 DEF RestMeans, Enters, SpTypeOK, LockingCovered, DropsDisposed, DestroyerAlone
<1> QED BY <1>2, <1>3, <1>5, RestSameAfter DEF IInv

LEMMA LoadCountStep ==
  ASSUME IInv, NEW s \in Strong, LoadCount(s)
  PROVE  IInv'
<1> DEFINE to == IF useCount = 0 THEN "none" ELSE "cas"
<1> USE DEF LoadCount
<1>1. SpTypeOK /\ RestMeans
  BY RestSame DEF IInv
<1>2. SpTypeOK'
  BY <1>1 DEF SpTypeOK, Enters, StrongPlaces
<1>3. Enters(s, to)
  OBVIOUS
<1>4. UseCountRight' /\ WeakCountRight'
  BY <1>3, UseCountKept, WeakCountKept
<1>5. RestMeans'
  BY <1>1, <1>2 DEF RestMeans, Enters, SpTypeOK, LockingCovered, DropsDisposed, DestroyerAlone
<1> QED BY <1>2, <1>4, <1>5, RestSameAfter DEF IInv

LEMMA ExchangeCountStep ==
  ASSUME IInv, NEW s \in Strong, ExchangeCount(s)
  PROVE  IInv'
<1> USE DEF ExchangeCount
<1>1. SpTypeOK /\ RestMeans
  BY RestSame DEF IInv
<1>2. SpTypeOK'
  BY <1>1 DEF SpTypeOK, Enters, StrongPlaces
<1>3. lockPolicy = "atomic" /\ seen[s] > 0 /\ \E w \in Weak : weak[w] = "held"
  BY <1>1 DEF RestMeans, LockingCovered
<1>4. CASE useCount = seen[s] /\ useCount' = useCount + 1 /\ Enters(s, "held")
           /\ seen' = [seen EXCEPT ![s] = 0]
  <2>1. UseCountRight'
    <3>1. strong[s] = "cas"
      OBVIOUS
    <3> HIDE DEF ExchangeCount
    <3> QED BY <1>1, <1>4, <3>1, Counted DEF IInv, UseCountRight, One
  <2>2. WeakCountRight'
    BY <1>4, WeakCountKept
  <2>3. PICK r \in Strong : strong[r] = "held"
    <3>1. useCount # 0
      BY <1>1, <1>3, <1>4 DEF SpTypeOK
    <3> QED BY <1>1, <1>3, <3>1, UseCountTells DEF RestMeans, LockingCovered
  <2>4. RestMeans'
    BY <1>1, <1>3, <1>4, <2>3
       DEF RestMeans, Enters, SpTypeOK, LockingCovered, DropsDisposed, DestroyerAlone
  <2> QED BY <1>2, <2>1, <2>2, <2>4, RestSameAfter DEF IInv
<1>5. CASE /\ UNCHANGED useCount /\ seen' = [seen EXCEPT ![s] = useCount]
           /\ Enters(s, IF useCount = 0 THEN "none" ELSE "cas")
  <2> DEFINE to == IF useCount = 0 THEN "none" ELSE "cas"
  <2>1. Enters(s, to)
    BY <1>5
  <2>2. UseCountRight' /\ WeakCountRight'
    BY <1>5, <2>1, UseCountKept, WeakCountKept
  <2>3. RestMeans'
    BY <1>1, <1>2, <1>3, <1>5
       DEF RestMeans, Enters, SpTypeOK, LockingCovered, DropsDisposed, DestroyerAlone
  <2> QED BY <1>2, <2>2, <2>3, RestSameAfter DEF IInv
<1> QED BY <1>4, <1>5

LEMMA AddLockedStep ==
  ASSUME IInv, NEW s \in Strong, AddLocked(s)
  PROVE  IInv'
<1> DEFINE to == IF useCount = 0 THEN "undo" ELSE "held"
<1> USE DEF AddLocked
<1>1. SpTypeOK /\ RestMeans
  BY RestSame DEF IInv
<1>2. SpTypeOK'
  BY <1>1 DEF SpTypeOK, Enters, StrongPlaces
<1>3. Enters(s, to)
  OBVIOUS
<1>4. UseCountRight'
  <2>1. strong[s] = "load" /\ useCount' = useCount + 1 /\ to \in {"held", "undo"}
    OBVIOUS
  <2> HIDE DEF AddLocked, to
  <2> QED BY <1>1, <1>3, <2>1, Counted DEF IInv, UseCountRight, One
<1>5. WeakCountRight'
  BY <1>3, WeakCountKept
<1>6. \A r \in Strong : strong[r] # "undo"
  BY DEF StrongIn
<1>7. useCount = 0 => \A r \in Strong : strong[r] # "held"
  BY UseCountTells
<1>8. useCount # 0 => \E r \in Strong : strong[r] = "held"
  BY <1>6, UseCountTells
<1>9. RestMeans'
  BY <1>1, <1>6, <1>7, <1>8
     DEF RestMeans, Enters, SpTypeOK, LockingCovered, DropsDisposed, DestroyerAlone
<1> QED BY <1>2, <1>4, <1>5, <1>9, RestSameAfter DEF IInv

LEMMA UndoAddStep ==
  ASSUME IInv, NEW s \in Strong, UndoAdd(s)
  PROVE  IInv'
<1> USE DEF UndoAdd
<1>1. SpTypeOK /\ RestMeans
  BY RestSame DEF IInv
<1>2. SpTypeOK'
  BY <1>1 DEF SpTypeOK, Enters, StrongPlaces
<1>3. \A r \in Strong : strong[r] # "held" /\ (strong[r] = "undo" => r = s)
  BY <1>1 DEF RestMeans, LockingCovered
<1>4. UseCountRight'
  <2>1. StrongIn({"held"})' = {} /\ StrongIn({"undo"})' = {}
    BY <1>1, <1>3 DEF StrongIn, Enters, SpTypeOK
  <2> QED BY <2>1, FS_EmptySet DEF UseCountRight
<1>5. WeakCountRight'
  BY WeakCountKept
<1>6. RestMeans'
  BY <1>1 DEF RestMeans, Enters, SpTypeOK, LockingCovered, DropsDisposed, DestroyerAlone
<1> QED BY <1>2, <1>4, <1>5, <1>6, RestSameAfter DEF IInv

-----------------------------------------------------------------------------

LEMMA InitInv == SpInit => IInv
<1> SUFFICES ASSUME SpInit PROVE IInv
  OBVIOUS
<1>1. PICK s \in Strong : strong = [r \in Strong |-> IF r = s THEN "held" ELSE "none"]
  BY DEF SpInit
<1>2. SpTypeOK
  BY <1>1 DEF SpInit, SpTypeOK, StrongPlaces, WeakPlaces
<1>3. StrongIn({"held"}) = {s} /\ StrongIn({"undo"}) = {} /\ WeakIn({"held"}) = {}
  BY <1>1 DEF SpInit, StrongIn, WeakIn
<1>4. Cardinality({s}) = 1 /\ Cardinality({}) = 0
  BY FS_Singleton, FS_EmptySet
<1>5. UseCountRight /\ WeakCountRight
  BY <1>3, <1>4 DEF SpInit, UseCountRight, WeakCountRight
<1>6. RestMeans
  BY <1>1 DEF SpInit, RestMeans, LockingCovered, DropsDisposed, DestroyerAlone
<1> QED BY <1>2, <1>5, <1>6, RestSame DEF IInv

LEMMA InvStep == IInv /\ [SpNext]_spVars => IInv'
<1> SUFFICES ASSUME IInv, [SpNext]_spVars PROVE IInv'
  OBVIOUS
<1>1. CASE UNCHANGED spVars
  BY <1>1 DEF spVars, IInv, SpTypeOK, UseCountRight, WeakCountRight, Rest, NoResurrection,
              CountersOutlive, LockingCovered, DropsDisposed, DestroyerAlone, StrongIn, WeakIn
<1>2. ASSUME NEW s \in Strong, CopyStrong(s) \/ ReleaseStrong(s) \/ LockWeak(s) \/ StrongStep(s)
      PROVE  IInv'
  BY <1>2, CopyStrongStep, ReleaseStrongStep, LockWeakStep, DisposeStep, DropWeakStep,
     DestroyStep, LoadCountStep, ExchangeCountStep, AddLockedStep, UndoAddStep DEF StrongStep
<1>3. ASSUME NEW w \in Weak, CopyWeak(w) \/ ReleaseWeak(w) \/ DestroyWeak(w)
      PROVE  IInv'
  BY <1>3, CopyWeakStep, ReleaseWeakStep, DestroyWeakStep
<1> QED BY <1>1, <1>2, <1>3 DEF SpNext

\* Both counters are what refers to them, at every step of every copy, release and
\* lock(); an object is whole while a shared_ptr to it exists, is disposed of by one
\* pointer, and its counters are destroyed when nobody refers to them any more.
THEOREM CountersRight == SpSpec => []CountersInv
<1>1. IInv => CountersInv
  BY DEF IInv, Rest, CountersInv
<1> QED BY <1>1, InitInv, InvStep, PTL DEF SpSpec

\* The object goes from whole to disposed of to destroyed, and never back: none of
\* these is done twice.
ObjectPhases ==
  [][ \/ object = "whole" /\ object' = "disposed"
      \/ object = "disposed" /\ object' = "destroyed" ]_object
THEOREM PhasesOnce == SpSpec => ObjectPhases
<1>1. ASSUME IInv, [SpNext]_spVars
      PROVE  [ \/ object = "whole" /\ object' = "disposed"
               \/ object = "disposed" /\ object' = "destroyed" ]_object
  <2>1. ASSUME NEW s \in Strong, Dispose(s) PROVE object = "whole" /\ object' = "disposed"
    BY <1>1, <2>1 DEF Dispose, IInv, Rest, NoResurrection, StrongIn
  <2>2. ASSUME NEW s \in Strong, Destroy(s) PROVE object = "disposed" /\ object' = "destroyed"
    BY <1>1, <2>2 DEF Destroy, IInv, Rest, DestroyerAlone
  <2>3. ASSUME NEW w \in Weak, DestroyWeak(w) PROVE object = "disposed" /\ object' = "destroyed"
    BY <1>1, <2>3 DEF DestroyWeak, IInv, Rest, DestroyerAlone
  <2> QED
    BY <1>1, <2>1, <2>2, <2>3
       DEF SpNext, spVars, StrongStep, CopyStrong, ReleaseStrong, LockWeak, DropWeak, LoadCount,
           ExchangeCount, AddLocked, UndoAdd, CopyWeak, ReleaseWeak
<1> QED BY <1>1, InitInv, InvStep, PTL DEF SpSpec, ObjectPhases

-----------------------------------------------------------------------------
(* ParallelSort                                                            *)

TaskKinds == {"sort", "merge", "part", "static"}
TaskNames == ({"root"} \cup TaskKinds) \X Nat \X Nat
TaskRecords ==
  [parent : TaskNames \cup {NoParent}, refs : Nat, state : {"waiting", "ready", "done"},
   xs : Nat, xe : Nat, ys : Nat, ye : Nat, zs : Nat, xo : BOOLEAN, yo : BOOLEAN,
   isRoot : BOOLEAN, split : BOOLEAN, begun : BOOLEAN]

\* How much a task writes, and where; the slots that it reads.
SizeOf(r) == NX(r) + NY(r)
OutOf(t, r) == Range0(t[2], t[2] + SizeOf(r))
InOf(r) == Range0(r.xs, r.xe) \cup Range0(r.ys, r.ye)

\* Two tasks have no slot in common, unless both are on the same side.
Apart(t, r, u, s) ==
  /\ OutOf(t, r) \cap OutOf(u, s) = {} /\ InOf(r) \cap InOf(s) = {}
  /\ \/ r.split /\ s.split /\ r.xo = s.xo
     \/ OutOf(t, r) \cap InOf(s) = {} /\ InOf(r) \cap OutOf(u, s) = {}

\* A task has all its slots within the output of another.
Inside(u, s, w, r) ==
  OutOf(u, s) \subseteq OutOf(w, r) /\ InOf(s) \subseteq OutOf(w, r) /\ SizeOf(s) < SizeOf(r)

\* What is left of a task, or a part of it
Shrunk(x, s, t, r) ==
  /\ OutOf(x, s) \subseteq OutOf(t, r) /\ InOf(s) \subseteq InOf(r) /\ SizeOf(s) <= SizeOf(r)
  /\ r.split => s.split /\ s.xo = r.xo

Shaped(t, r) ==
  /\ t \in TaskKinds \X Nat \X Nat
  /\ r.xs <= r.xe /\ r.ys <= r.ye /\ SizeOf(r) > 0
  /\ r.state = "waiting" => t[1] = "merge" /\ t[3] = r.ye /\ ~r.split /\ r.refs > 0
  /\ t[1] = "sort" => t[2] = r.xs /\ r.ys = r.ye /\ ~r.split
  /\ t[1] # "sort" => t[2] = r.zs /\ r.xe <= r.ys /\ (~r.split => r.xs = r.zs /\ r.xe = r.ys)
  /\ t[1] = "static" => r.xo

-----------------------------------------------------------------------------
(* The slots of tasks                                                      *)

LEMMA SizeIsInt ==
  ASSUME NEW r \in TaskRecords
  PROVE  SizeOf(r) \in Int
BY DEF SizeOf, NX, NY, TaskRecords

LEMMA OutNotEmpty ==
  ASSUME NEW t, NEW r \in TaskRecords, Shaped(t, r)
  PROVE  t[2] \in OutOf(t, r)
<1>1. t[2] \in Nat /\ SizeOf(r) \in Int /\ SizeOf(r) > 0
  BY SizeIsInt DEF Shaped
<1> QED BY <1>1 DEF OutOf, Range0

\* A task that was not split reads what it will write.
LEMMA InIsOut ==
  ASSUME NEW t, NEW r \in TaskRecords, Shaped(t, r), ~r.split
  PROVE  InOf(r) = OutOf(t, r)
<1>1. r.xs \in Nat /\ r.xe \in Nat /\ r.ys \in Nat /\ r.ye \in Nat /\ r.zs \in Nat
  BY DEF TaskRecords
<1>2. CASE t[1] = "sort"
  BY <1>1, <1>2 DEF Shaped, InOf, OutOf, Range0, SizeOf, NX, NY
<1>3. CASE t[1] # "sort"
  BY <1>1, <1>3 DEF Shaped, InOf, OutOf, Range0, SizeOf, NX, NY
<1> QED BY <1>2, <1>3

LEMMA ApartTurned ==
  ASSUME NEW t, NEW r, NEW u, NEW s, Apart(t, r, u, s)
  PROVE  Apart(u, s, t, r)
BY DEF Apart

LEMMA ApartShrunk ==
  ASSUME NEW t, NEW r, NEW u, NEW s, Apart(t, r, u, s), NEW x, NEW q, Shrunk(x, q, t, r)
  PROVE  Apart(x, q, u, s)
BY DEF Apart, Shrunk

LEMMA ShrunkInside ==
  ASSUME NEW t, NEW r \in TaskRecords, NEW w, NEW s \in TaskRecords, Inside(t, r, w, s),
         NEW x, NEW q \in TaskRecords, Shrunk(x, q, t, r), InOf(r) \subseteq OutOf(w, s)
  PROVE  Inside(x, q, w, s)
<1>1. SizeOf(q) < SizeOf(s)
  BY SizeIsInt DEF Inside, Shrunk
<1> QED BY <1>1 DEF Inside, Shrunk

LEMMA InsideInside ==
  ASSUME NEW t, NEW r \in TaskRecords, NEW w, NEW s \in TaskRecords, Inside(t, r, w, s),
         NEW v, NEW q \in TaskRecords, Inside(w, s, v, q)
  PROVE  Inside(t, r, v, q)
<1>1. SizeOf(r) < SizeOf(q)
  BY SizeIsInt DEF Inside
<1> QED BY <1>1 DEF Inside

\* What is inside is not apart, nor the other way round.
LEMMA InsideOnly ==
  ASSUME NEW t, NEW r \in TaskRecords, NEW w, NEW s \in TaskRecords, Inside(t, r, w, s),
         Shaped(t, r)
  PROVE  ~Apart(t, r, w, s) /\ ~Inside(w, s, t, r)
<1>1. t[2] \in OutOf(t, r)
  BY OutNotEmpty
<1>2. ~Inside(w, s, t, r)
  BY SizeIsInt DEF Inside
<1> QED BY <1>1, <1>2 DEF Inside, Apart

\* What is inside a part of a task is inside the task.
LEMMA InsidePart ==
  ASSUME NEW u, NEW q \in TaskRecords, NEW w, NEW s \in TaskRecords, Inside(u, q, w, s),
         NEW t, NEW r \in TaskRecords, Shrunk(w, s, t, r)
  PROVE  Inside(u, q, t, r)
<1>1. SizeOf(q) < SizeOf(r)
  BY SizeIsInt DEF Inside, Shrunk
<1> QED BY <1>1 DEF Inside, Shrunk

-----------------------------------------------------------------------------
(* What a merge is cut into                                                *)

\* Where a merge may be cut
CutOf(r) == {cut \in Nat \X Nat :
               /\ r.xs <= cut[1] /\ cut[1] <= r.xe /\ r.ys <= cut[2] /\ cut[2] <= r.ye
               /\ r.xs + r.ys < cut[1] + cut[2] /\ cut[1] + cut[2] < r.xe + r.ye}
LeftOf(r, cut) == [r EXCEPT !.xe = cut[1], !.ye = cut[2], !.split = TRUE, !.begun = TRUE]
MidOf(r, cut) == r.zs + (cut[1] - r.xs) + (cut[2] - r.ys)
RightOf(r, cut) ==
  [r EXCEPT !.xs = cut[1], !.ys = cut[2], !.zs = MidOf(r, cut), !.split = TRUE, !.begun = FALSE]

LEMMA CutParts ==
  ASSUME NEW t, NEW r \in TaskRecords, Shaped(t, r), t[1] # "sort", r.state # "waiting",
         NEW cut \in CutOf(r), NEW kind \in TaskKinds \ {"sort"}, kind = "static" => r.xo
  PROVE  LET left == LeftOf(r, cut)
             right == RightOf(r, cut)
             new == <<kind, MidOf(r, cut), r.zs + NX(r) + NY(r)>>
         IN  /\ left \in TaskRecords /\ right \in TaskRecords
             /\ Shaped(t, left) /\ Shaped(new, right)
             /\ OutOf(t, left) \cap OutOf(new, right) = {} /\ InOf(left) \cap InOf(right) = {}
             /\ OutOf(t, left) \subseteq OutOf(t, r) /\ OutOf(new, right) \subseteq OutOf(t, r)
             /\ InOf(left) \subseteq InOf(r) /\ InOf(right) \subseteq InOf(r)
             /\ SizeOf(left) < SizeOf(r) /\ SizeOf(right) < SizeOf(r)
             /\ new[2] \in OutOf(t, r) /\ new[2] # t[2]
<1> DEFINE left == LeftOf(r, cut)
           right == RightOf(r, cut)
           new == <<kind, MidOf(r, cut), r.zs + NX(r) + NY(r)>>
           m == MidOf(r, cut)
<1>1. /\ r.xs \in Nat /\ r.xe \in Nat /\ r.ys \in Nat /\ r.ye \in Nat /\ r.zs \in Nat
      /\ cut[1] \in Nat /\ cut[2] \in Nat
      /\ r.xs <= cut[1] /\ cut[1] <= r.xe /\ r.ys <= cut[2] /\ cut[2] <= r.ye
      /\ r.xs + r.ys < cut[1] + cut[2] /\ cut[1] + cut[2] < r.xe + r.ye
      /\ r.xe <= r.ys /\ r.zs = t[2]
  BY DEF TaskRecords, CutOf, Shaped
<1>2. m \in Nat /\ m = r.zs + (cut[1] - r.xs) + (cut[2] - r.ys)
  BY <1>1 DEF MidOf
<1>3. r.zs + NX(r) + NY(r) \in Nat
  BY <1>1 DEF NX, NY
<1>4. /\ left \in TaskRecords
      /\ left.xs = r.xs /\ left.ys = r.ys /\ left.zs = r.zs /\ left.xe = cut[1]
      /\ left.ye = cut[2] /\ left.split = TRUE /\ left.state = r.state /\ left.xo = r.xo
  BY <1>1 DEF LeftOf, TaskRecords
<1>5. /\ right \in TaskRecords
      /\ right.xs = cut[1] /\ right.ys = cut[2] /\ right.zs = m /\ right.xe = r.xe
      /\ right.ye = r.ye /\ right.split = TRUE /\ right.state = r.state /\ right.xo = r.xo
  BY <1>1, <1>2 DEF RightOf, TaskRecords
<1>6. new \in TaskKinds \X Nat \X Nat /\ new[1] = kind /\ new[2] = m
  BY <1>2, <1>3
<1> HIDE DEF left, right, new, m
<1>7. /\ SizeOf(left) = m - r.zs
      /\ SizeOf(right) = r.zs + SizeOf(r) - m
      /\ r.zs < m /\ m < r.zs + SizeOf(r) /\ SizeOf(r) \in Int
  BY <1>1, <1>2, <1>4, <1>5 DEF SizeOf, NX, NY
<1>8. Shaped(t, left)
  BY <1>1, <1>2, <1>4, <1>7 DEF Shaped
<1>9. Shaped(new, right)
  BY <1>1, <1>2, <1>5, <1>6, <1>7 DEF Shaped
<1>10. /\ OutOf(t, left) = Range0(r.zs, m)
       /\ OutOf(new, right) = Range0(m, r.zs + SizeOf(r))
       /\ OutOf(t, r) = Range0(r.zs, r.zs + SizeOf(r))
  BY <1>1, <1>2, <1>6, <1>7 DEF OutOf
<1>11. /\ OutOf(t, left) \cap OutOf(new, right) = {}
       /\ OutOf(t, left) \subseteq OutOf(t, r) /\ OutOf(new, right) \subseteq OutOf(t, r)
       /\ m \in OutOf(t, r)
  <2> DEFINE n == r.zs + SizeOf(r)
  <2>1. r.zs \in Nat /\ m \in Nat /\ n \in Int /\ r.zs < m /\ m < n
    BY <1>1, <1>2, <1>7
  <2> HIDE DEF n
  <2>2. /\ Range0(r.zs, m) \cap Range0(m, n) = {}
        /\ Range0(r.zs, m) \subseteq Range0(r.zs, n) /\ Range0(m, n) \subseteq Range0(r.zs, n)
        /\ m \in Range0(r.zs, n)
    BY <2>1 DEF Range0
  <2> QED BY <1>10, <2>2 DEF n
<1>12. /\ InOf(left) \cap InOf(right) = {}
       /\ InOf(left) \subseteq InOf(r) /\ InOf(right) \subseteq InOf(r)
  BY <1>1, <1>4, <1>5 DEF InOf, Range0
<1>13. SizeOf(left) < SizeOf(r) /\ SizeOf(right) < SizeOf(r) /\ m # t[2]
  BY <1>1, <1>2, <1>7
<1> QED BY <1>4, <1>5, <1>6, <1>8, <1>9, <1>11, <1>12, <1>13 DEF left, right, new, m

-----------------------------------------------------------------------------
\* A halving search finds a place in its range or the end of it, in order or not.
LEMMA BoundInside ==
  ASSUME NEW f, NEW first \in Nat, NEW len \in Nat, NEW k, NEW upper
  PROVE  Bound(f, first, len, k, upper) \in first .. first + len
<1> DEFINE D == Nat \X Nat
           Below(i) == IF upper THEN par.key[f[i]] <= k ELSE par.key[f[i]] < k
           Body(r, F) == LET i == r[1]  half == r[2] \div 2
                         IN  IF r[2] = 0 THEN i
                             ELSE IF Below(i + half) THEN F[<<i + half + 1, r[2] - half - 1>>]
                             ELSE F[<<i, half>>]
           m == [r \in D |-> r[2]]
           step == [q \in D \X [D -> Nat] |-> Body(q[1], q[2])]
           Right(F) == F = [r \in D |-> Body(r, F)]
<1>1. ASSUME NEW r \in D, r[2] # 0
      PROVE  LET half == r[2] \div 2
             IN  /\ <<r[1] + half + 1, r[2] - half - 1>> \in D /\ <<r[1], half>> \in D
                 /\ r[2] - half - 1 < r[2] /\ half < r[2] /\ half \in Nat
  BY <1>1
<1>2. m \in [D -> Nat]
  OBVIOUS
<1> HIDE DEF Below
<1>3. ASSUME NEW r \in D, NEW F \in [D -> Nat]
      PROVE  Body(r, F) \in Nat
  BY <1>1
<1>4. step \in [D \X [D -> Nat] -> Nat]
  BY <1>3
<1>5. ASSUME NEW r \in D, NEW F \in [D -> Nat]
      PROVE  step[<<r, F>>] = Body(r, F)
  <2>1. <<r, F>> \in D \X [D -> Nat]
    OBVIOUS
  <2> HIDE DEF Body, D
  <2> QED BY <2>1
<1>6. LooksBelow(D, Nat, m, step)
  <2>1. ASSUME NEW r \in D, NEW g \in [D -> Nat], NEW h \in [D -> Nat],
               \A y \in D : m[y] < m[r] => g[y] = h[y]
        PROVE  Body(r, g) = Body(r, h)
    BY <1>1, <2>1
  <2> HIDE DEF D, m, step, Body
  <2> QED BY <1>5, <2>1 DEF LooksBelow
<1>7. \E F : Right(F) /\ F \in [D -> Nat]
  <2>1. PICK F \in [D -> Nat] : \A r \in D : F[r] = step[<<r, F>>]
    <3>1. Nat # {}
      OBVIOUS
    <3> HIDE DEF step, m, D
    <3> HIDE DEF Body, Right
    <3>2. \A S : S # {} =>
            \A mm \in [D -> Nat] : \A st \in [D \X [D -> S] -> S] : LooksBelow(D, S, mm, st) =>
              \E F \in [D -> S] : \A r \in D : F[r] = st[<<r, F>>]
      BY Recursion
    <3>3. \A st \in [D \X [D -> Nat] -> Nat] : LooksBelow(D, Nat, m, st) =>
            \E F \in [D -> Nat] : \A r \in D : F[r] = st[<<r, F>>]
      BY <1>2, <3>1, <3>2
    <3> QED BY <1>4, <1>6, <3>3
  <2>2. \A r \in D : F[r] = Body(r, F)
    BY <1>5, <2>1
  <2> HIDE DEF Body
  <2> QED BY <2>1, <2>2
<1> DEFINE C == CHOOSE F : Right(F)
<1>8. Right(C)
  BY <1>7
<1>9. Bound(f, first, len, k, upper) = C[<<first, len>>]
  BY DEF Bound, Below
<1> HIDE DEF C
<1>10. \A r \in D : C[r] = Body(r, C)
  <2> HIDE DEF Body, D
  <2> QED BY <1>8
<1> DEFINE Q == {r \in D : C[r] \in r[1] .. r[1] + r[2]}
<1>11. ASSUME NEW r \in D, \A y \in D : m[y] < m[r] => y \in Q
       PROVE  r \in Q
  <2>1. CASE r[2] = 0
    <3>1. C[r] = r[1] /\ r[1] \in Nat
      BY <1>10, <2>1
    <3> QED BY <2>1, <3>1
  <2>2. CASE r[2] # 0
    <3> DEFINE half == r[2] \div 2
               a == <<r[1] + half + 1, r[2] - half - 1>>
               b == <<r[1], half>>
    <3>1. a \in D /\ b \in D /\ m[a] < m[r] /\ m[b] < m[r] /\ half \in Nat
      BY <1>1, <2>2
    <3>2. C[a] \in r[1] + half + 1 .. r[1] + r[2] /\ C[b] \in r[1] .. r[1] + half
      <4>1. a \in Q /\ b \in Q
        BY <1>11, <3>1
      <4>2. a[1] + a[2] = r[1] + r[2]
        BY <3>1
      <4> QED BY <4>1, <4>2
    <3>3. C[r] = C[a] \/ C[r] = C[b]
      BY <1>10, <2>2
    <3>4. half <= r[2] /\ r[1] \in Nat /\ r[2] \in Nat
      BY <3>1
    <3> HIDE DEF half
    <3> QED BY <3>1, <3>2, <3>3, <3>4
  <2> QED BY <2>1, <2>2
<1>12. Q = D
  <2>1. Q \in SUBSET D
    OBVIOUS
  <2> HIDE DEF Q, D, m
  <2> QED BY <1>2, <1>11, <2>1, ByMeasure
<1>13. <<first, len>> \in Q
  BY <1>12
<1> QED BY <1>9, <1>13

\* Both parts of a merge have something to do.
LEMMA CutsInside ==
  ASSUME NEW t, NEW r \in TaskRecords, Shaped(t, r), t[1] # "sort",
         SizeOf(r) > MergeCutOff, NEW f
  PROVE  CutsAt(r, f) \in CutOf(r)
<1> DEFINE nx == NX(r)  ny == NY(r)
<1>1. /\ r.xs \in Nat /\ r.xe \in Nat /\ r.ys \in Nat /\ r.ye \in Nat
      /\ nx = r.xe - r.xs /\ ny = r.ye - r.ys /\ nx \in Nat /\ ny \in Nat
      /\ r.xs <= r.xe /\ r.ys <= r.ye
  BY DEF TaskRecords, Shaped, NX, NY
<1>2. nx + ny > 2
  BY <1>1, CutOffsOK DEF SizeOf
<1>3. /\ NX(r) = nx /\ NY(r) = ny
  OBVIOUS
<1> HIDE DEF nx, ny
<1>4. CASE nx < ny
  <2> DEFINE ym == r.ys + ny \div 2
             b == Bound(f, r.xs, nx, par.key[f[ym]], TRUE)
  <2>1. CutsAt(r, f) = <<b, ym>>
    BY <1>3, <1>4 DEF CutsAt
  <2>2. b \in r.xs .. r.xs + nx
    BY <1>1, BoundInside
  <2>3. ny \div 2 > 0 /\ ny \div 2 < ny /\ ny \div 2 \in Nat
    BY <1>1, <1>2, <1>4
  <2> HIDE DEF b
  <2> QED BY <1>1, <2>1, <2>2, <2>3 DEF CutOf
<1>5. CASE ~(nx < ny)
  <2> DEFINE xm == r.xs + nx \div 2
             b == Bound(f, r.ys, ny, par.key[f[xm]], FALSE)
  <2>1. CutsAt(r, f) = <<xm, b>>
    BY <1>3, <1>5 DEF CutsAt
  <2>2. b \in r.ys .. r.ys + ny
    BY <1>1, BoundInside
  <2>3. nx \div 2 > 0 /\ nx \div 2 < nx /\ nx \div 2 \in Nat
    BY <1>1, <1>2, <1>5
  <2> HIDE DEF b
  <2> QED BY <1>1, <2>1, <2>2, <2>3 DEF CutOf
<1> QED BY <1>4, <1>5

-----------------------------------------------------------------------------
(* The tree of tasks                                                       *)

TaskMap(f) == /\ DOMAIN f \subseteq TaskNames /\ IsFiniteSet(DOMAIN f)
              /\ f \in [DOMAIN f -> TaskRecords]
OthersOf(f) == DOMAIN f \ {Root}
ChildrenOf(f, t) == {u \in DOMAIN f : f[u].parent = t}
NoneLost(f) == \A t \in OthersOf(f) : f[t].parent # NoParent

\* Tasks wait inside their parents; one that has lost its parent is done.
Tree(f, stage) ==
  /\ Root \in DOMAIN f
  /\ f[Root].state = "waiting" /\ f[Root].parent = NoParent
  /\ stage \in {"run", "cancelled"} => f[Root].refs > 0
  /\ \A t \in OthersOf(f) :
       /\ Shaped(t, f[t])
       /\ f[t].parent \in DOMAIN f => f[f[t].parent].state = "waiting"
       /\ f[t].parent \in OthersOf(f) => Inside(t, f[t], f[t].parent, f[f[t].parent])
       /\ f[t].parent \notin DOMAIN f =>
             f[t].parent = NoParent /\ f[t].state = "done" /\ stage \notin {"run", "ended"}

\* The counters of the tasks
RefsMatch(f) ==
  \A t \in DOMAIN f : /\ f[t].refs >= Cardinality(ChildrenOf(f, t))
                      /\ NoneLost(f) => f[t].refs = Cardinality(ChildrenOf(f, t))

\* Two tasks are apart, or one waits for the other; and what is inside a task
\* that waits is inside one of its children.
PairNested(f, t, u) ==
  \/ Apart(t, f[t], u, f[u])
  \/ f[t].state = "waiting" /\ Inside(u, f[u], t, f[t])
  \/ f[u].state = "waiting" /\ Inside(t, f[t], u, f[u])
CoveredIn(f, u, w) == \E c \in ChildrenOf(f, w) : u = c \/ Inside(u, f[u], c, f[c])
Nested(f) ==
  /\ \A t, u \in OthersOf(f) : t # u => PairNested(f, t, u)
  /\ \A w, u \in OthersOf(f) : f[w].state = "waiting" /\ Inside(u, f[u], w, f[w]) => CoveredIn(f, u, w)

TasksRight(f, stage) ==
  /\ TaskMap(f) /\ Tree(f, stage) /\ RefsMatch(f)
  /\ stage = "run" => Nested(f)

\* A record of a task that waits, whose counter or flags may have changed
Waited(s, r) ==
  /\ r.state = "waiting"
  /\ s.xs = r.xs /\ s.xe = r.xe /\ s.ys = r.ys /\ s.ye = r.ye /\ s.zs = r.zs
  /\ s.parent = r.parent /\ s.state = r.state /\ s.split = r.split
  /\ s.refs >= r.refs

\* Task t of f has become the tasks N, and none of the others is another one.
Becomes(f, g, t, N) ==
  /\ TaskMap(f) /\ TaskMap(g)
  /\ t \in OthersOf(f) /\ f[t].state # "waiting"
  /\ t \in N /\ N \cap OthersOf(f) = {t} /\ Root \notin N
  /\ DOMAIN g = DOMAIN f \cup N
  /\ \A u \in DOMAIN f \ {t} : g[u] = f[u] \/ Waited(g[u], f[u])
  /\ \A x \in N : Shrunk(x, g[x], t, f[t]) /\ Shaped(x, g[x])

LEMMA WaitedSame ==
  ASSUME NEW u, NEW s \in TaskRecords, NEW r \in TaskRecords, s = r \/ Waited(s, r), Shaped(u, r)
  PROVE  /\ Shaped(u, s) /\ OutOf(u, s) = OutOf(u, r) /\ InOf(s) = InOf(r) /\ SizeOf(s) = SizeOf(r)
         /\ s.state = r.state /\ s.parent = r.parent
<1>1. SizeOf(s) = SizeOf(r) /\ OutOf(u, s) = OutOf(u, r) /\ InOf(s) = InOf(r)
  BY DEF Waited, SizeOf, OutOf, InOf, NX, NY
<1>2. s.state = r.state /\ s.parent = r.parent
  BY DEF Waited
<1>3. Shaped(u, s)
  <2>1. CASE s = r
    BY <2>1
  <2>2. CASE Waited(s, r)
    <3>1. s.refs > 0 /\ u[1] = "merge" /\ u[3] = r.ye /\ SizeOf(s) > 0 /\ ~s.split
      BY <1>1, <2>2 DEF Waited, Shaped, TaskRecords
    <3> QED BY <2>2, <3>1 DEF Waited, Shaped
  <2> QED BY <2>1, <2>2
<1> QED BY <1>1, <1>2, <1>3

\* To the others it is what it was.
LEMMA WaitedPlace ==
  ASSUME NEW u, NEW s \in TaskRecords, NEW r \in TaskRecords, s = r \/ Waited(s, r), Shaped(u, r),
         NEW v, NEW q
  PROVE  /\ Apart(v, q, u, r) => Apart(v, q, u, s)
         /\ Inside(v, q, u, r) <=> Inside(v, q, u, s)
         /\ Inside(u, r, v, q) <=> Inside(u, s, v, q)
<1>1. SizeOf(s) = SizeOf(r) /\ OutOf(u, s) = OutOf(u, r) /\ InOf(s) = InOf(r)
  BY DEF Waited, SizeOf, OutOf, InOf, NX, NY
<1>2. s = r \/ ~r.split
  BY DEF Waited, Shaped
<1>3. Apart(v, q, u, r) => Apart(v, q, u, s)
  BY <1>1, <1>2 DEF Apart
<1>4. /\ Inside(v, q, u, r) <=> Inside(v, q, u, s)
      /\ Inside(u, r, v, q) <=> Inside(u, s, v, q)
  BY <1>1, Zenon DEF Inside
<1> QED BY <1>3, <1>4

-----------------------------------------------------------------------------
\* Nothing is inside a task that does not wait.
LEMMA NothingInside ==
  ASSUME NEW f, TaskMap(f), Nested(f), NEW t \in OthersOf(f), f[t].state # "waiting",
         Shaped(t, f[t]), NEW u \in OthersOf(f), Shaped(u, f[u])
  PROVE  ~Inside(u, f[u], t, f[t])
<1> SUFFICES ASSUME Inside(u, f[u], t, f[t])
             PROVE  FALSE
  OBVIOUS
<1>1. f[t] \in TaskRecords /\ f[u] \in TaskRecords
  BY DEF TaskMap, OthersOf
<1>2. u # t
  BY <1>1, SizeIsInt DEF Inside
<1>3. PairNested(f, t, u)
  BY <1>2 DEF Nested
<1>4. ~Apart(t, f[t], u, f[u])
  BY <1>1, InsideOnly, ApartTurned
<1>5. ~Inside(t, f[t], u, f[u])
  BY <1>1, InsideOnly
<1> QED BY <1>3, <1>4, <1>5 DEF PairNested

\* The parts of a task stand to the others as the task did, and what they write
\* is inside no other one than before.
LEMMA NestedBecomes ==
  ASSUME NEW f, NEW g, NEW t, NEW N, Becomes(f, g, t, N), Tree(f, "run"), Nested(f),
         \A x, y \in N : x # y => PairNested(g, x, y),
         \A w, u \in N : g[w].state = "waiting" /\ Inside(u, g[u], w, g[w]) => CoveredIn(g, u, w),
         \A x \in N : \E y \in N : /\ x = y \/ Inside(x, g[x], y, g[y])
                                   /\ g[y].parent = f[t].parent
  PROVE  Nested(g)
<1> DEFINE Old == OthersOf(f) \ {t}
<1>1. /\ OthersOf(g) = Old \cup N /\ t \in OthersOf(f) /\ f[t].state # "waiting"
      /\ Old \cap N = {} /\ Old \subseteq OthersOf(f) /\ t \notin Old
  BY DEF Becomes, OthersOf
<1>2. /\ \A u \in DOMAIN f : f[u] \in TaskRecords
      /\ \A u \in DOMAIN g : g[u] \in TaskRecords
      /\ OthersOf(f) \subseteq DOMAIN f /\ OthersOf(g) \subseteq DOMAIN g
  BY DEF Becomes, TaskMap, OthersOf
<1>3. \A u \in OthersOf(f) : Shaped(u, f[u])
  BY DEF Tree
<1>4. ASSUME NEW u \in Old
      PROVE  /\ Shaped(u, g[u]) /\ OutOf(u, g[u]) = OutOf(u, f[u]) /\ InOf(g[u]) = InOf(f[u])
             /\ SizeOf(g[u]) = SizeOf(f[u])
             /\ g[u].state = f[u].state /\ g[u].parent = f[u].parent
             /\ \A v, q : /\ Apart(v, q, u, f[u]) => Apart(v, q, u, g[u])
                          /\ Inside(v, q, u, f[u]) <=> Inside(v, q, u, g[u])
                          /\ Inside(u, f[u], v, q) <=> Inside(u, g[u], v, q)
  <2>1. g[u] = f[u] \/ Waited(g[u], f[u])
    BY <1>1 DEF Becomes, OthersOf
  <2>2. g[u] \in TaskRecords /\ f[u] \in TaskRecords
    BY <1>1, <1>2
  <2>3. Shaped(u, f[u])
    BY <1>1, <1>3
  <2>4. /\ Shaped(u, g[u]) /\ OutOf(u, g[u]) = OutOf(u, f[u]) /\ InOf(g[u]) = InOf(f[u])
        /\ SizeOf(g[u]) = SizeOf(f[u])
        /\ g[u].state = f[u].state /\ g[u].parent = f[u].parent
    BY <2>1, <2>2, <2>3, WaitedSame
  <2>5. \A v, q : /\ Apart(v, q, u, f[u]) => Apart(v, q, u, g[u])
                  /\ Inside(v, q, u, f[u]) <=> Inside(v, q, u, g[u])
                  /\ Inside(u, f[u], v, q) <=> Inside(u, g[u], v, q)
    BY <2>1, <2>2, <2>3, WaitedPlace
  <2> QED BY <2>4, <2>5
<1>5. \A x \in N : Shrunk(x, g[x], t, f[t]) /\ Shaped(x, g[x])
  BY DEF Becomes
<1>6. Shaped(t, f[t]) /\ f[t] \in TaskRecords
  BY <1>1, <1>2, <1>3
<1>7. \A w \in OthersOf(f) : f[w].state = "waiting" => InOf(f[w]) = OutOf(w, f[w])
  <2> SUFFICES ASSUME NEW w \in OthersOf(f), f[w].state = "waiting"
               PROVE  InOf(f[w]) = OutOf(w, f[w])
    OBVIOUS
  <2>1. Shaped(w, f[w]) /\ f[w] \in TaskRecords
    BY <1>2, <1>3
  <2>2. ~f[w].split
    BY <2>1 DEF Shaped
  <2> QED BY <2>1, <2>2, InIsOut
<1>8. ASSUME NEW x \in N, NEW w \in Old, Inside(t, f[t], w, f[w])
      PROVE  Inside(x, g[x], w, g[w])
  <2>1. g[x] \in TaskRecords /\ f[w] \in TaskRecords
    BY <1>1, <1>2
  <2>2. InOf(f[t]) \subseteq OutOf(w, f[w])
    BY <1>8 DEF Inside
  <2>3. Inside(x, g[x], w, f[w])
    BY <1>5, <1>6, <1>8, <2>1, <2>2, ShrunkInside
  <2> QED BY <1>4, <2>3
<1>9. ASSUME NEW x \in N, NEW u \in Old
      PROVE  PairNested(g, x, u) /\ PairNested(g, u, x)
  <2>1. PairNested(f, t, u)
    BY <1>1 DEF Nested
  <2>2. CASE Apart(t, f[t], u, f[u])
    <3>1. Apart(x, g[x], u, f[u])
      BY <1>5, <2>2, ApartShrunk
    <3>2. Apart(x, g[x], u, g[u])
      BY <1>4, <3>1
    <3> QED BY <3>2, ApartTurned DEF PairNested
  <2>3. CASE f[u].state = "waiting" /\ Inside(t, f[t], u, f[u])
    BY <1>4, <1>8, <2>3 DEF PairNested
  <2> QED BY <1>1, <2>1, <2>2, <2>3 DEF PairNested
<1>10. ASSUME NEW u \in Old, NEW v \in Old, u # v
       PROVE  PairNested(g, u, v)
  <2>1. PairNested(f, u, v)
    BY <1>1, <1>10 DEF Nested
  <2>2. Apart(u, f[u], v, f[v]) => Apart(u, g[u], v, g[v])
    <3>1. Apart(u, f[u], v, f[v]) => Apart(u, f[u], v, g[v])
      BY <1>4
    <3>2. Apart(g[v].parent, g[v], u, f[u]) => Apart(g[v].parent, g[v], u, g[u])
      BY <1>4
    <3>3. Apart(v, g[v], u, f[u]) => Apart(v, g[v], u, g[u])
      BY <1>4
    <3> QED BY <3>1, <3>3, ApartTurned
  <2>3. (Inside(u, f[u], v, f[v]) => Inside(u, g[u], v, g[v]))
        /\ (Inside(v, f[v], u, f[u]) => Inside(v, g[v], u, g[u]))
    BY <1>4
  <2> QED BY <1>4, <2>1, <2>2, <2>3 DEF PairNested
<1>11. \A v, u \in OthersOf(g) : v # u => PairNested(g, v, u)
  BY <1>1, <1>9, <1>10
<1>12. ASSUME NEW u \in Old, NEW w \in N
       PROVE  ~Inside(u, g[u], w, g[w])
  <2> SUFFICES ASSUME Inside(u, g[u], w, g[w])
               PROVE  FALSE
    OBVIOUS
  <2>1. g[u] \in TaskRecords /\ g[w] \in TaskRecords
    BY <1>1, <1>2
  <2>2. Inside(u, g[u], t, f[t])
    BY <1>5, <1>6, <2>1, InsidePart
  <2>3. Inside(u, f[u], t, f[t])
    BY <1>4, <2>2
  <2>4. TaskMap(f) /\ u \in OthersOf(f)
    BY <1>1 DEF Becomes
  <2> QED BY <1>1, <1>3, <2>3, <2>4, NothingInside
<1>13. ASSUME NEW c, NEW w \in Old, c \in ChildrenOf(f, w), c # t
       PROVE  c \in Old /\ c \in ChildrenOf(g, w)
  <2>1. c \in DOMAIN f /\ f[c].parent = w /\ w \in TaskNames
    BY <1>1, <1>2, <1>13 DEF ChildrenOf, Becomes, TaskMap, OthersOf
  <2>2. w # NoParent
    BY <2>1 DEF TaskNames, TaskKinds, NoParent
  <2>3. c # Root
    BY <2>1, <2>2 DEF Tree
  <2>4. c \in Old
    BY <1>13, <2>1, <2>3 DEF OthersOf
  <2>5. g[c].parent = w /\ c \in DOMAIN g
    BY <1>1, <1>2, <1>4, <2>1, <2>4
  <2> QED BY <2>4, <2>5 DEF ChildrenOf
<1>14. ASSUME NEW w \in Old, NEW u \in N, g[w].state = "waiting", Inside(u, g[u], w, g[w])
       PROVE  CoveredIn(g, u, w)
  <2>1. Inside(t, f[t], w, f[w])
    <3>1. PairNested(f, t, w)
      BY <1>1 DEF Nested
    <3>2. ~Apart(t, f[t], w, f[w])
      <4>1. u[2] \in OutOf(u, g[u])
        <5>1. g[u] \in TaskRecords
          BY <1>1, <1>2
        <5> QED BY <1>5, <5>1, OutNotEmpty
      <4>2. u[2] \in OutOf(t, f[t]) /\ u[2] \in OutOf(w, f[w])
        BY <1>4, <1>5, <1>14, <4>1 DEF Shrunk, Inside
      <4> QED BY <4>2 DEF Apart
    <3> QED BY <1>1, <3>1, <3>2 DEF PairNested
  <2>2. PICK c \in ChildrenOf(f, w) : t = c \/ Inside(t, f[t], c, f[c])
    BY <1>1, <1>4, <1>14, <2>1 DEF Nested, CoveredIn
  <2>3. CASE t = c
    <3>1. f[t].parent = w
      BY <2>3 DEF ChildrenOf
    <3>2. PICK y \in N : (u = y \/ Inside(u, g[u], y, g[y])) /\ g[y].parent = w
      BY <3>1
    <3>3. y \in ChildrenOf(g, w)
      BY <1>1, <1>2, <3>2 DEF ChildrenOf
    <3> QED BY <3>2, <3>3 DEF CoveredIn
  <2>4. CASE t # c /\ Inside(t, f[t], c, f[c])
    <3>1. c \in Old /\ c \in ChildrenOf(g, w)
      BY <1>13, <2>4
    <3>2. Inside(u, g[u], c, g[c])
      BY <1>8, <2>4, <3>1
    <3> QED BY <3>1, <3>2 DEF CoveredIn
  <2> QED BY <2>2, <2>3, <2>4
<1>15. ASSUME NEW w \in Old, NEW u \in Old, g[w].state = "waiting", Inside(u, g[u], w, g[w])
       PROVE  CoveredIn(g, u, w)
  <2>1. Inside(u, f[u], w, f[w]) /\ f[w].state = "waiting"
    BY <1>4, <1>15
  <2>2. PICK c \in ChildrenOf(f, w) : u = c \/ Inside(u, f[u], c, f[c])
    BY <1>1, <2>1 DEF Nested, CoveredIn
  <2>3. c # t
    <3>1. ~Inside(u, f[u], t, f[t])
      BY <1>1, <1>3, NothingInside DEF Becomes
    <3> QED BY <1>1, <2>2, <3>1
  <2>4. c \in Old /\ c \in ChildrenOf(g, w)
    BY <1>13, <2>3
  <2>5. u = c \/ Inside(u, g[u], c, g[c])
    BY <1>4, <2>2, <2>4
  <2> QED BY <2>4, <2>5 DEF CoveredIn
<1>16. \A w, u \in OthersOf(g) : g[w].state = "waiting" /\ Inside(u, g[u], w, g[w]) => CoveredIn(g, u, w)
  BY <1>1, <1>12, <1>14, <1>15
<1> QED BY <1>11, <1>16 DEF Nested

-----------------------------------------------------------------------------
\* A task that is run leaves a tree; stage is where the call stands then.
LEMMA TreeBecomes ==
  ASSUME NEW f, NEW g, NEW t, NEW N, Becomes(f, g, t, N), NEW was, Tree(f, was),
         was \in {"run", "cancelled"}, f[t].state = "ready",
         NEW stage \in {was, "cancelled"},
         \A x \in N : \/ g[x].parent = f[t].parent
                      \/ /\ g[x].parent \in N /\ g[g[x].parent].state = "waiting"
                         /\ Inside(x, g[x], g[x].parent, g[g[x].parent])
                      \/ /\ g[x].parent = NoParent /\ g[x].state = "done"
                         /\ stage = "cancelled"
  PROVE  Tree(g, stage)
<1>1. /\ t \in OthersOf(f) /\ OthersOf(g) = (OthersOf(f) \ {t}) \cup N /\ DOMAIN f \subseteq DOMAIN g
      /\ N \subseteq DOMAIN g /\ N \cap OthersOf(f) = {t} /\ Root \notin N
  BY DEF Becomes, OthersOf
<1>2. /\ \A u \in DOMAIN f : f[u] \in TaskRecords
      /\ \A u \in DOMAIN g : g[u] \in TaskRecords
      /\ NoParent \notin DOMAIN g
  <2>1. NoParent \notin TaskNames
    BY DEF TaskNames, TaskKinds, NoParent
  <2> QED BY <2>1 DEF Becomes, TaskMap
<1>3. \A u \in DOMAIN f \ {t} : g[u] = f[u] \/ Waited(g[u], f[u])
  BY DEF Becomes
<1>4. Root \in DOMAIN g /\ g[Root].state = "waiting" /\ g[Root].parent = NoParent /\ g[Root].refs > 0
  <2>1. Root \in DOMAIN f \ {t} /\ f[Root].refs > 0
    BY <1>1 DEF Tree, OthersOf
  <2>2. g[Root].state = f[Root].state /\ g[Root].parent = f[Root].parent /\ g[Root].refs >= f[Root].refs
    <3>1. f[Root].refs \in Nat
      BY <1>2, <2>1 DEF TaskRecords
    <3> QED BY <1>3, <2>1, <3>1 DEF Waited
  <2>3. g[Root].refs \in Nat /\ f[Root].refs \in Nat
    BY <1>1, <1>2, <2>1 DEF TaskRecords
  <2> QED BY <1>1, <2>1, <2>2, <2>3 DEF Tree
<1>5. ASSUME NEW p \in DOMAIN f, f[p].state = "waiting"
      PROVE  /\ p # t /\ g[p].state = "waiting"
             /\ p \in OthersOf(f) => \A v, q : Inside(v, q, p, f[p]) <=> Inside(v, q, p, g[p])
  <2>1. p # t
    BY <1>5
  <2>2. g[p] = f[p] \/ Waited(g[p], f[p])
    BY <1>3, <2>1
  <2>3. g[p].state = "waiting"
    BY <1>5, <2>2 DEF Waited
  <2>4. ASSUME p \in OthersOf(f)
        PROVE  \A v, q : Inside(v, q, p, f[p]) <=> Inside(v, q, p, g[p])
    <3>1. Shaped(p, f[p]) /\ f[p] \in TaskRecords /\ g[p] \in TaskRecords
      BY <1>1, <1>2, <2>4 DEF Tree
    <3> QED BY <2>2, <3>1, WaitedPlace
  <2> QED BY <2>1, <2>3, <2>4
<1>6. ASSUME NEW u \in OthersOf(f), u # t
      PROVE  /\ Shaped(u, g[u])
             /\ g[u].parent \in DOMAIN g => g[g[u].parent].state = "waiting"
             /\ g[u].parent \in OthersOf(g) => Inside(u, g[u], g[u].parent, g[g[u].parent])
             /\ g[u].parent \notin DOMAIN g =>
                   g[u].parent = NoParent /\ g[u].state = "done" /\ stage \notin {"run", "ended"}
  <2>1. u \in DOMAIN f /\ Shaped(u, f[u]) /\ f[u] \in TaskRecords /\ g[u] \in TaskRecords
    BY <1>1, <1>2 DEF Tree, OthersOf
  <2>2. g[u] = f[u] \/ Waited(g[u], f[u])
    BY <1>3, <1>6, <2>1
  <2>3. /\ Shaped(u, g[u]) /\ g[u].parent = f[u].parent /\ g[u].state = f[u].state
        /\ OutOf(u, g[u]) = OutOf(u, f[u]) /\ InOf(g[u]) = InOf(f[u]) /\ SizeOf(g[u]) = SizeOf(f[u])
    BY <2>1, <2>2, WaitedSame
  <2>4. \A v, q : Inside(u, f[u], v, q) <=> Inside(u, g[u], v, q)
    BY <2>1, <2>2, WaitedPlace
  <2>5. CASE f[u].parent \in DOMAIN f
    <3> DEFINE p == f[u].parent
    <3>1. f[p].state = "waiting" /\ (p \in OthersOf(f) => Inside(u, f[u], p, f[p]))
      BY <2>5 DEF Tree
    <3>2. p # t /\ g[p].state = "waiting" /\ p \in DOMAIN g
      BY <1>1, <1>5, <2>5, <3>1
    <3>3. p \in OthersOf(g) => p \in OthersOf(f)
      BY <1>1, <2>5, <3>2 DEF OthersOf
    <3>4. p \in OthersOf(f) => Inside(u, g[u], p, g[p])
      BY <1>5, <2>4, <2>5, <3>1
    <3> QED BY <2>3, <3>2, <3>3, <3>4
  <2>6. CASE f[u].parent \notin DOMAIN f
    <3>1. f[u].parent = NoParent /\ f[u].state = "done" /\ was \notin {"run", "ended"}
      BY <2>6 DEF Tree
    <3> QED BY <1>2, <2>3, <3>1 DEF OthersOf
  <2> QED BY <2>5, <2>6
<1>7. ASSUME NEW x \in N
      PROVE  /\ Shaped(x, g[x])
             /\ g[x].parent \in DOMAIN g => g[g[x].parent].state = "waiting"
             /\ g[x].parent \in OthersOf(g) => Inside(x, g[x], g[x].parent, g[g[x].parent])
             /\ g[x].parent \notin DOMAIN g =>
                   g[x].parent = NoParent /\ g[x].state = "done" /\ stage \notin {"run", "ended"}
  <2>1. Shaped(x, g[x]) /\ Shrunk(x, g[x], t, f[t])
    BY DEF Becomes
  <2>2. CASE g[x].parent = f[t].parent
    <3> DEFINE p == f[t].parent
    <3>1. p \in DOMAIN f /\ f[p].state = "waiting" /\ (p \in OthersOf(f) => Inside(t, f[t], p, f[p]))
      BY <1>1 DEF Tree
    <3>2. p # t /\ g[p].state = "waiting" /\ p \in DOMAIN g
      BY <1>1, <1>5, <3>1
    <3>3. p \in OthersOf(g) => p \in OthersOf(f)
      BY <1>1, <3>1, <3>2 DEF OthersOf
    <3>4. ASSUME p \in OthersOf(f)
          PROVE  Inside(x, g[x], p, g[p])
      <4>1. f[t] \in TaskRecords /\ f[p] \in TaskRecords /\ g[x] \in TaskRecords
        BY <1>1, <1>2, <3>1 DEF OthersOf
      <4>2. Inside(t, f[t], p, f[p]) /\ InOf(f[t]) \subseteq OutOf(p, f[p])
        BY <3>1, <3>4 DEF Inside
      <4>3. Inside(x, g[x], p, f[p])
        BY <2>1, <4>1, <4>2, ShrunkInside
      <4> QED BY <1>5, <3>1, <3>4, <4>3
    <3> QED BY <2>1, <2>2, <3>2, <3>3, <3>4
  <2>3. CASE /\ g[x].parent \in N /\ g[g[x].parent].state = "waiting"
             /\ Inside(x, g[x], g[x].parent, g[g[x].parent])
    BY <1>1, <2>1, <2>3
  <2>4. CASE g[x].parent = NoParent /\ g[x].state = "done" /\ stage = "cancelled"
    BY <1>2, <2>1, <2>4 DEF OthersOf
  <2> QED BY <2>2, <2>3, <2>4
<1> QED BY <1>1, <1>4, <1>6, <1>7 DEF Tree

-----------------------------------------------------------------------------
(* The counters                                                            *)

LEMMA ChildrenFinite ==
  ASSUME NEW f, TaskMap(f), NEW t
  PROVE  IsFiniteSet(ChildrenOf(f, t)) /\ Cardinality(ChildrenOf(f, t)) \in Nat
<1>1. ChildrenOf(f, t) \in SUBSET DOMAIN f
  BY DEF ChildrenOf
<1> QED BY <1>1, FS_Subset, FS_CardinalityType DEF TaskMap

\* No task has changed its parent or its counter.
LEMMA CountedSame ==
  ASSUME NEW f, NEW g, RefsMatch(f), DOMAIN g = DOMAIN f,
         \A u \in DOMAIN f : g[u].parent = f[u].parent /\ g[u].refs = f[u].refs
  PROVE  RefsMatch(g)
<1>1. \A t : ChildrenOf(g, t) = ChildrenOf(f, t)
  BY DEF ChildrenOf
<1>2. NoneLost(g) <=> NoneLost(f)
  BY DEF NoneLost, OthersOf
<1> QED BY <1>1, <1>2 DEF RefsMatch

\* Nobody is the child of a task that does not wait, or of one that is not there.
LEMMA Childless ==
  ASSUME NEW f, NEW stage, Tree(f, stage), NEW t, t # NoParent,
         t \in DOMAIN f => f[t].state # "waiting"
  PROVE  ChildrenOf(f, t) = {}
<1> SUFFICES ASSUME NEW u \in DOMAIN f, f[u].parent = t
             PROVE  FALSE
  BY DEF ChildrenOf
<1>1. u # Root
  BY DEF Tree
<1>2. u \in OthersOf(f)
  BY <1>1 DEF OthersOf
<1> QED BY <1>2 DEF Tree

-----------------------------------------------------------------------------
LEMMA NoParentNoTask == NoParent \notin TaskNames /\ Root \in TaskNames
BY DEF NoParent, Root, TaskNames, TaskKinds

\* Before the sort is given up no task has lost its parent.
LEMMA RunNoneLost ==
  ASSUME NEW f, TaskMap(f), Tree(f, "run")
  PROVE  NoneLost(f)
BY NoParentNoTask DEF NoneLost, Tree, TaskMap

LEMMA ReadyHasParent ==
  ASSUME NEW f, NEW stage, TasksRight(f, stage), NEW t \in OthersOf(f), f[t].state = "ready"
  PROVE  /\ f[t].parent \in DOMAIN f /\ f[f[t].parent].state = "waiting" /\ f[t].parent # t
         /\ f[t] \in TaskRecords /\ f[f[t].parent] \in TaskRecords /\ Shaped(t, f[t])
BY DEF TasksRight, Tree, TaskMap, OthersOf

-----------------------------------------------------------------------------
(* A task that runs without a new one                                      *)

\* What becomes of the record of a task that only moves slots, or ends.
Settled(t, s, r) ==
  /\ s.xs = r.xs /\ s.xe = r.xe /\ s.ys = r.ys /\ s.ye = r.ye /\ s.zs = r.zs
  /\ s.refs = r.refs /\ s.split = r.split /\ s.state # "waiting"
  /\ r.split => s.xo = r.xo
  /\ t[1] = "static" => s.xo

LEMMA SettledShape ==
  ASSUME NEW t, NEW s \in TaskRecords, NEW r \in TaskRecords, Settled(t, s, r), Shaped(t, r)
  PROVE  Shaped(t, s) /\ Shrunk(t, s, t, r)
<1>1. SizeOf(s) = SizeOf(r) /\ OutOf(t, s) = OutOf(t, r) /\ InOf(s) = InOf(r) /\ SizeOf(r) \in Int
  BY SizeIsInt DEF Settled, SizeOf, OutOf, InOf, NX, NY
<1>2. Shrunk(t, s, t, r)
  BY <1>1 DEF Shrunk, Settled
<1>3. Shaped(t, s)
  BY <1>1 DEF Shaped, Settled
<1> QED BY <1>2, <1>3

LEMMA SettledRight ==
  ASSUME NEW f, NEW was \in {"run", "cancelled"}, TasksRight(f, was),
         NEW t \in OthersOf(f), f[t].state = "ready",
         NEW g, TaskMap(g), DOMAIN g = DOMAIN f, Settled(t, g[t], f[t]),
         NEW stage \in {was, "cancelled"},
         \/ g[t].parent = f[t].parent
         \/ stage = "cancelled" /\ g[t].parent = NoParent /\ g[t].state = "done",
         \A u \in DOMAIN f \ {t} : /\ g[u] = f[u] \/ Waited(g[u], f[u])
                                   /\ g[u].refs = f[u].refs
  PROVE  TasksRight(g, stage)
<1>1. /\ TaskMap(f) /\ Tree(f, was) /\ RefsMatch(f) /\ (was = "run" => Nested(f))
      /\ f[t] \in TaskRecords /\ g[t] \in TaskRecords /\ Shaped(t, f[t])
      /\ t \in DOMAIN f /\ t # Root
  BY DEF TasksRight, Tree, TaskMap, OthersOf
<1>2. Shaped(t, g[t]) /\ Shrunk(t, g[t], t, f[t])
  BY <1>1, SettledShape
<1>3. Becomes(f, g, t, {t})
  BY <1>1, <1>2 DEF Becomes
<1>4. Tree(g, stage)
  <2>1. \A x \in {t} : \/ g[x].parent = f[t].parent
                       \/ /\ g[x].parent \in {t} /\ g[g[x].parent].state = "waiting"
                          /\ Inside(x, g[x], g[x].parent, g[g[x].parent])
                       \/ /\ g[x].parent = NoParent /\ g[x].state = "done"
                          /\ stage = "cancelled"
    OBVIOUS
  <2> QED BY <1>1, <1>3, <2>1, TreeBecomes
<1>5. RefsMatch(g)
  <2>1. \A u \in DOMAIN f \ {t} : g[u].parent = f[u].parent /\ g[u].refs = f[u].refs
    BY DEF Waited
  <2>2. g[t].refs = f[t].refs
    BY DEF Settled
  <2>3. CASE g[t].parent = f[t].parent
    <3>1. \A u \in DOMAIN f : g[u].parent = f[u].parent /\ g[u].refs = f[u].refs
      BY <2>1, <2>2, <2>3
    <3> QED BY <1>1, <3>1, CountedSame
  <2>4. CASE g[t].parent = NoParent
    <3>1. ~NoneLost(g)
      BY <2>4 DEF NoneLost, OthersOf
    <3>2. ASSUME NEW u \in DOMAIN g
          PROVE  g[u].refs >= Cardinality(ChildrenOf(g, u))
      <4>1. ChildrenOf(g, u) \subseteq ChildrenOf(f, u)
        <5>1. u # NoParent
          BY <1>1, NoParentNoTask DEF TaskMap
        <5> QED BY <2>1, <2>4, <5>1 DEF ChildrenOf
      <4>2. IsFiniteSet(ChildrenOf(f, u)) /\ Cardinality(ChildrenOf(f, u)) \in Nat
        BY <1>1, ChildrenFinite
      <4>3. Cardinality(ChildrenOf(g, u)) <= Cardinality(ChildrenOf(f, u))
            /\ Cardinality(ChildrenOf(g, u)) \in Nat
        BY <4>1, <4>2, FS_Subset, FS_CardinalityType
      <4>4. f[u].refs >= Cardinality(ChildrenOf(f, u)) /\ g[u].refs = f[u].refs
        BY <1>1, <2>1, <2>2 DEF RefsMatch
      <4>5. f[u].refs \in Nat
        BY <1>1 DEF TaskMap, TaskRecords
      <4> QED BY <4>2, <4>3, <4>4, <4>5
    <3> QED BY <3>1, <3>2 DEF RefsMatch
  <2> QED BY <2>3, <2>4
<1>6. stage = "run" => Nested(g)
  <2> SUFFICES ASSUME stage = "run"
               PROVE  Nested(g)
    OBVIOUS
  <2>1. was = "run" /\ Nested(f) /\ Tree(f, "run") /\ g[t].parent = f[t].parent
    BY <1>1
  <2>2. \A x, y \in {t} : x # y => PairNested(g, x, y)
    OBVIOUS
  <2>3. \A w, u \in {t} : g[w].state = "waiting" /\ Inside(u, g[u], w, g[w]) => CoveredIn(g, u, w)
    BY DEF Settled
  <2>4. \A x \in {t} : \E y \in {t} : /\ x = y \/ Inside(x, g[x], y, g[y])
                                      /\ g[y].parent = f[t].parent
    BY <2>1
  <2> QED BY <1>3, <2>1, <2>2, <2>3, <2>4, NestedBecomes
<1> QED BY <1>4, <1>5, <1>6 DEF TasksRight

-----------------------------------------------------------------------------
(* A merge that is split                                                   *)

LEMMA SplitRight ==
  ASSUME NEW f, TasksRight(f, "run"), NEW t \in OthersOf(f), f[t].state = "ready",
         t[1] # "sort", NEW kind \in {"part", "static"}, kind = "static" => f[t].xo,
         NEW cut \in CutOf(f[t])
  PROVE  TasksRight(SplitTask(f, t, f[t], cut, kind), "run")
<1> DEFINE r == f[t]
           p == r.parent
           left == LeftOf(r, cut)
           right == RightOf(r, cut)
           new == <<kind, MidOf(r, cut), r.zs + NX(r) + NY(r)>>
           g == SplitTask(f, t, r, cut, kind)
<1>1. /\ TaskMap(f) /\ Tree(f, "run") /\ RefsMatch(f) /\ Nested(f)
      /\ t \in DOMAIN f /\ t # Root /\ NoneLost(f)
  BY RunNoneLost DEF TasksRight, OthersOf
<1>2. /\ p \in DOMAIN f /\ f[p].state = "waiting" /\ p # t
      /\ r \in TaskRecords /\ f[p] \in TaskRecords /\ Shaped(t, r)
  BY ReadyHasParent
<1>3. kind \in TaskKinds \ {"sort"}
  BY DEF TaskKinds
<1>4. /\ left \in TaskRecords /\ right \in TaskRecords
      /\ Shaped(t, left) /\ Shaped(new, right)
      /\ OutOf(t, left) \cap OutOf(new, right) = {} /\ InOf(left) \cap InOf(right) = {}
      /\ OutOf(t, left) \subseteq OutOf(t, r) /\ OutOf(new, right) \subseteq OutOf(t, r)
      /\ InOf(left) \subseteq InOf(r) /\ InOf(right) \subseteq InOf(r)
      /\ SizeOf(left) < SizeOf(r) /\ SizeOf(right) < SizeOf(r)
      /\ new[2] \in OutOf(t, r) /\ new[2] # t[2]
  <2>1. r.state # "waiting"
    OBVIOUS
  <2> HIDE DEF r
  <2> QED BY <1>2, <1>3, <2>1, CutParts DEF r
<1>5. /\ left.parent = p /\ left.state = "ready" /\ left.refs = r.refs
      /\ left.split = TRUE /\ left.xo = r.xo
      /\ right.parent = p /\ right.state = "ready" /\ right.refs = r.refs
      /\ right.split = TRUE /\ right.xo = r.xo
  BY <1>2 DEF LeftOf, RightOf, TaskRecords
<1>6. new[1] = kind /\ new \in TaskNames /\ new # Root /\ new # t
  <2>1. new \in TaskKinds \X Nat \X Nat
    BY <1>4 DEF Shaped
  <2> QED BY <1>4, <2>1 DEF TaskNames, TaskKinds, Root
<1>7. new \notin DOMAIN f
  <2> SUFFICES ASSUME new \in DOMAIN f
               PROVE  FALSE
    OBVIOUS
  <2>1. new \in OthersOf(f) /\ f[new] \in TaskRecords
    BY <1>1, <1>6 DEF OthersOf, TaskMap
  <2>2. Shaped(new, f[new])
    BY <1>1, <2>1 DEF Tree
  <2>3. f[new].state # "waiting"
    BY <1>6, <2>2 DEF Shaped
  <2>4. Apart(t, r, new, f[new])
    BY <1>1, <1>6, <2>1, <2>3 DEF Nested, PairNested
  <2>5. new[2] \in OutOf(new, f[new])
    BY <2>1, <2>2, OutNotEmpty
  <2> HIDE DEF new, r
  <2> QED BY <1>4, <2>4, <2>5 DEF Apart
<1> DEFINE e == [f EXCEPT ![t] = left, ![p].refs = @ + 1]
<1>8. g = With(e, new, right)
  BY DEF SplitTask, LeftOf, RightOf, MidOf
<1>9. /\ DOMAIN e = DOMAIN f /\ e[t] = left
      /\ e[p] = [f[p] EXCEPT !.refs = @ + 1]
      /\ \A u \in DOMAIN f \ {t, p} : e[u] = f[u]
  BY <1>1, <1>2
<1> HIDE DEF e, left, right, new, r, g
<1>10. /\ DOMAIN g = DOMAIN f \cup {new}
       /\ g[new] = right /\ \A u \in DOMAIN f : g[u] = e[u]
  BY <1>7, <1>8, <1>9 DEF With
<1>11. /\ g[t] = left /\ g[p] = [f[p] EXCEPT !.refs = @ + 1]
       /\ \A u \in DOMAIN f \ {t, p} : g[u] = f[u]
  BY <1>1, <1>2, <1>9, <1>10
<1>12. /\ g[p] \in TaskRecords /\ g[p].refs = f[p].refs + 1 /\ Waited(g[p], f[p])
       /\ g[p].parent = f[p].parent
  <2>1. f[p].refs \in Nat
    BY <1>2 DEF TaskRecords
  <2> QED BY <1>2, <1>11, <2>1 DEF TaskRecords, Waited
<1>13. TaskMap(g)
  <2>1. IsFiniteSet(DOMAIN g)
    BY <1>1, <1>10, FS_AddElement DEF TaskMap
  <2>2. g = [u \in DOMAIN g |-> g[u]]
    BY <1>8 DEF With
  <2>3. \A u \in DOMAIN g : g[u] \in TaskRecords
    <3>1. \A u \in DOMAIN f \ {t, p} : g[u] \in TaskRecords
      BY <1>1, <1>11 DEF TaskMap
    <3> QED BY <1>4, <1>10, <1>11, <1>12, <3>1
  <2>4. DOMAIN g \subseteq TaskNames
    BY <1>1, <1>6, <1>10 DEF TaskMap
  <2> QED BY <2>1, <2>2, <2>3, <2>4 DEF TaskMap
<1>14. Shrunk(t, left, t, r) /\ Shrunk(new, right, t, r)
  BY <1>2, <1>4, <1>5, SizeIsInt DEF Shrunk
<1>15. Becomes(f, g, t, {t, new})
  <2>1. \A u \in DOMAIN f \ {t} : g[u] = f[u] \/ Waited(g[u], f[u])
    BY <1>11, <1>12
  <2>2. \A x \in {t, new} : Shrunk(x, g[x], t, f[t]) /\ Shaped(x, g[x])
    BY <1>4, <1>10, <1>11, <1>14 DEF r
  <2> QED BY <1>1, <1>6, <1>7, <1>10, <1>13, <2>1, <2>2 DEF Becomes, OthersOf
<1>16. \A x \in {t, new} : g[x].parent = f[t].parent /\ g[x].state # "waiting"
  BY <1>5, <1>10, <1>11 DEF r
<1>17. Tree(g, "run")
  BY <1>1, <1>15, <1>16, TreeBecomes
<1>18. Nested(g)
  <2>1. Apart(t, g[t], new, g[new])
    BY <1>4, <1>5, <1>10, <1>11 DEF Apart
  <2>2. \A x, y \in {t, new} : x # y => PairNested(g, x, y)
    BY <2>1, ApartTurned DEF PairNested
  <2>3. \A w, u \in {t, new} : g[w].state = "waiting" /\ Inside(u, g[u], w, g[w]) => CoveredIn(g, u, w)
    BY <1>16
  <2>4. \A x \in {t, new} : \E y \in {t, new} : /\ x = y \/ Inside(x, g[x], y, g[y])
                                                /\ g[y].parent = f[t].parent
    BY <1>16
  <2> QED BY <1>1, <1>15, <2>2, <2>3, <2>4, NestedBecomes
<1>19. RefsMatch(g)
  <2>1. \A u \in DOMAIN f : g[u].parent = f[u].parent
    BY <1>5, <1>11, <1>12 DEF r
  <2>2. ChildrenOf(g, p) = ChildrenOf(f, p) \cup {new} /\ new \notin ChildrenOf(f, p)
    BY <1>5, <1>7, <1>10, <2>1 DEF ChildrenOf
  <2>3. \A u \in DOMAIN f \ {p} : ChildrenOf(g, u) = ChildrenOf(f, u)
    BY <1>5, <1>10, <2>1 DEF ChildrenOf
  <2>4. ChildrenOf(g, new) = {}
    <3>1. new # NoParent /\ new # p
      BY <1>2, <1>6, <1>7, NoParentNoTask
    <3>2. ChildrenOf(f, new) = {}
      BY <1>1, <1>7, <3>1, Childless
    <3> QED BY <1>5, <1>10, <2>1, <3>1, <3>2 DEF ChildrenOf
  <2>5. \A u \in DOMAIN f : f[u].refs = Cardinality(ChildrenOf(f, u)) /\ f[u].refs \in Nat
    BY <1>1 DEF RefsMatch, TaskMap, TaskRecords
  <2>6. g[p].refs = Cardinality(ChildrenOf(g, p))
    <3>1. Cardinality(ChildrenOf(g, p)) = Cardinality(ChildrenOf(f, p)) + 1
      BY <1>1, <2>2, ChildrenFinite, FS_AddElement
    <3> QED BY <1>2, <1>12, <2>5, <3>1
  <2>7. g[new].refs = Cardinality(ChildrenOf(g, new))
    <3>1. ChildrenOf(f, t) = {}
      BY <1>1, NoParentNoTask, Childless DEF TaskMap
    <3>2. f[t].refs = 0
      BY <1>1, <2>5, <3>1, FS_EmptySet
    <3> QED BY <1>5, <1>10, <2>4, <3>2, FS_EmptySet DEF r
  <2>8. \A u \in DOMAIN f \ {p} : g[u].refs = f[u].refs
    BY <1>5, <1>11 DEF r
  <2>9. \A u \in DOMAIN g : g[u].refs = Cardinality(ChildrenOf(g, u)) /\ g[u].refs \in Nat
    <3>1. \A u \in DOMAIN g : g[u].refs \in Nat
      BY <1>13 DEF TaskMap, TaskRecords
    <3> QED BY <1>10, <2>3, <2>5, <2>6, <2>7, <2>8, <3>1
  <2> QED BY <2>9 DEF RefsMatch
<1> QED BY <1>13, <1>17, <1>18, <1>19 DEF TasksRight, g, r

-----------------------------------------------------------------------------
(* A sort that is halved                                                   *)

FirstHalf(r, merge, xm) ==
  [r EXCEPT !.parent = merge, !.isRoot = FALSE, !.xe = xm, !.begun = TRUE]
SecondHalf(r, merge, xm) == Task(merge, xm, r.xe, 0, 0, 0)
MergeOf(r, xm) == [Task(r.parent, r.xs, xm, xm, r.xe, r.xs) EXCEPT
                      !.refs = 2, !.state = "waiting", !.isRoot = r.isRoot]

LEMMA Halves ==
  ASSUME NEW t, NEW r \in TaskRecords, Shaped(t, r), t[1] = "sort", r.state = "ready",
         NEW xm \in Nat, r.xs < xm, xm < r.xe
  PROVE  LET merge == <<"merge", r.xs, r.xe>>
             right == <<"sort", xm, r.xe>>
             one == FirstHalf(r, merge, xm)
             two == SecondHalf(r, merge, xm)
             m == MergeOf(r, xm)
         IN  /\ one \in TaskRecords /\ two \in TaskRecords /\ m \in TaskRecords
             /\ Shaped(t, one) /\ Shaped(right, two) /\ Shaped(merge, m)
             /\ Shrunk(t, one, t, r) /\ Shrunk(right, two, t, r) /\ Shrunk(merge, m, t, r)
             /\ Apart(t, one, right, two)
             /\ Inside(t, one, merge, m) /\ Inside(right, two, merge, m)
             /\ xm \in OutOf(t, r) /\ SizeOf(r) = r.xe - r.xs /\ t[2] = r.xs
<1> DEFINE merge == <<"merge", r.xs, r.xe>>
           right == <<"sort", xm, r.xe>>
           one == FirstHalf(r, merge, xm)
           two == SecondHalf(r, merge, xm)
           m == MergeOf(r, xm)
<1>1. /\ r.xs \in Nat /\ r.xe \in Nat /\ r.ys \in Nat /\ r.ye \in Nat /\ r.ys = r.ye
      /\ t[2] = r.xs /\ ~r.split /\ r.parent \in TaskNames \cup {NoParent} /\ r.isRoot \in BOOLEAN
      /\ t \in TaskKinds \X Nat \X Nat
  BY DEF TaskRecords, Shaped
<1>2. merge \in TaskNames /\ right \in TaskKinds \X Nat \X Nat /\ merge \in TaskKinds \X Nat \X Nat
  BY <1>1 DEF TaskNames, TaskKinds
<1>3. /\ one \in TaskRecords
      /\ one.xs = r.xs /\ one.xe = xm /\ one.ys = r.ys /\ one.ye = r.ye /\ one.split = r.split
      /\ one.state = "ready" /\ one.xo = r.xo
  BY <1>2 DEF TaskRecords, FirstHalf
<1>4. /\ two \in TaskRecords
      /\ two.xs = xm /\ two.xe = r.xe /\ two.ys = 0 /\ two.ye = 0 /\ two.split = FALSE
      /\ two.state = "ready" /\ two.xo = TRUE
  BY <1>1, <1>2 DEF TaskRecords, SecondHalf, Task
<1>5. /\ m \in TaskRecords
      /\ m.xs = r.xs /\ m.xe = xm /\ m.ys = xm /\ m.ye = r.xe /\ m.zs = r.xs /\ m.split = FALSE
      /\ m.state = "waiting" /\ m.refs = 2
  BY <1>1, <1>2 DEF TaskRecords, MergeOf, Task
<1>6. merge[1] = "merge" /\ merge[2] = r.xs /\ merge[3] = r.xe /\ right[1] = "sort" /\ right[2] = xm
  OBVIOUS
<1> HIDE DEF merge, right, one, two, m
<1>7. /\ SizeOf(r) = r.xe - r.xs /\ SizeOf(one) = xm - r.xs /\ SizeOf(two) = r.xe - xm
      /\ SizeOf(m) = r.xe - r.xs
  BY <1>1, <1>3, <1>4, <1>5 DEF SizeOf, NX, NY
<1>8. Shaped(t, one) /\ Shaped(right, two) /\ Shaped(merge, m)
  BY <1>1, <1>2, <1>3, <1>4, <1>5, <1>6, <1>7 DEF Shaped
<1>9. /\ OutOf(t, r) = Range0(r.xs, r.xe) /\ InOf(r) = Range0(r.xs, r.xe)
      /\ OutOf(t, one) = Range0(r.xs, xm) /\ InOf(one) = Range0(r.xs, xm)
      /\ OutOf(right, two) = Range0(xm, r.xe) /\ InOf(two) = Range0(xm, r.xe)
      /\ OutOf(merge, m) = Range0(r.xs, r.xe) /\ InOf(m) = Range0(r.xs, r.xe)
  <2>1. InOf(one) = OutOf(t, one) /\ InOf(two) = OutOf(right, two) /\ InOf(m) = OutOf(merge, m)
        /\ InOf(r) = OutOf(t, r)
    BY <1>1, <1>3, <1>4, <1>5, <1>8, InIsOut
  <2>2. /\ r.xs + (r.xe - r.xs) = r.xe /\ r.xs + (xm - r.xs) = xm /\ xm + (r.xe - xm) = r.xe
    BY <1>1
  <2> QED BY <1>1, <1>6, <1>7, <2>1, <2>2 DEF OutOf
<1>10. /\ Range0(r.xs, xm) \subseteq Range0(r.xs, r.xe) /\ Range0(xm, r.xe) \subseteq Range0(r.xs, r.xe)
       /\ Range0(r.xs, xm) \cap Range0(xm, r.xe) = {} /\ xm \in Range0(r.xs, r.xe)
  BY <1>1 DEF Range0
<1>11. Shrunk(t, one, t, r) /\ Shrunk(right, two, t, r) /\ Shrunk(merge, m, t, r)
  BY <1>1, <1>7, <1>9, <1>10 DEF Shrunk
<1>12. Apart(t, one, right, two) /\ Inside(t, one, merge, m) /\ Inside(right, two, merge, m)
  BY <1>1, <1>7, <1>9, <1>10 DEF Apart, Inside
<1> QED BY <1>1, <1>3, <1>4, <1>5, <1>7, <1>8, <1>9, <1>10, <1>11, <1>12 DEF merge, right, one, two, m

LEMMA HalvesRight ==
  ASSUME NEW f, TasksRight(f, "run"), NEW t \in OthersOf(f), f[t].state = "ready",
         t[1] = "sort", NEW xm \in Nat, f[t].xs < xm, xm < f[t].xe
  PROVE  LET r == f[t]
             merge == <<"merge", r.xs, r.xe>>
         IN  TasksRight(With(With([f EXCEPT ![t].parent = merge, ![t].isRoot = FALSE, ![t].xe = xm,
                                            ![t].begun = TRUE],
                                  merge, MergeOf(r, xm)),
                             <<"sort", xm, r.xe>>, SecondHalf(r, merge, xm)), "run")
<1> DEFINE r == f[t]
           p == r.parent
           merge == <<"merge", r.xs, r.xe>>
           right == <<"sort", xm, r.xe>>
           one == FirstHalf(r, merge, xm)
           two == SecondHalf(r, merge, xm)
           m == MergeOf(r, xm)
           e == [f EXCEPT ![t].parent = merge, ![t].isRoot = FALSE, ![t].xe = xm, ![t].begun = TRUE]
           g == With(With(e, merge, m), right, two)
           N == {t, merge, right}
<1>1. /\ TaskMap(f) /\ Tree(f, "run") /\ RefsMatch(f) /\ Nested(f)
      /\ t \in DOMAIN f /\ t # Root /\ NoneLost(f)
  BY RunNoneLost DEF TasksRight, OthersOf
<1>2. /\ p \in DOMAIN f /\ f[p].state = "waiting" /\ p # t
      /\ r \in TaskRecords /\ f[p] \in TaskRecords /\ Shaped(t, r)
  BY ReadyHasParent
<1>3. /\ one \in TaskRecords /\ two \in TaskRecords /\ m \in TaskRecords
      /\ Shaped(t, one) /\ Shaped(right, two) /\ Shaped(merge, m)
      /\ Shrunk(t, one, t, r) /\ Shrunk(right, two, t, r) /\ Shrunk(merge, m, t, r)
      /\ Apart(t, one, right, two)
      /\ Inside(t, one, merge, m) /\ Inside(right, two, merge, m)
      /\ xm \in OutOf(t, r) /\ SizeOf(r) = r.xe - r.xs /\ t[2] = r.xs
  <2> HIDE DEF r
  <2> QED BY <1>2, Halves DEF r
<1>4. /\ one.parent = merge /\ one.state = "ready" /\ one.refs = r.refs
      /\ two.parent = merge /\ two.state = "ready" /\ two.refs = 0
      /\ m.parent = p /\ m.state = "waiting" /\ m.refs = 2
  BY <1>2 DEF FirstHalf, SecondHalf, MergeOf, Task, TaskRecords
<1>5. /\ merge[1] = "merge" /\ merge[2] = r.xs /\ merge[3] = r.xe /\ right[1] = "sort" /\ right[2] = xm
      /\ merge # t /\ right # t /\ merge # right /\ merge # Root /\ right # Root
      /\ r.xs \in Nat /\ r.xe \in Nat
  BY <1>2, <1>3 DEF Root, TaskRecords
<1>6. merge \in TaskNames /\ right \in TaskNames
  BY <1>5 DEF TaskNames, TaskKinds
<1>7. e = [f EXCEPT ![t] = one]
  BY <1>1, <1>2 DEF FirstHalf, TaskMap, TaskRecords
<1> HIDE DEF r, p, merge, right, one, two, m, e, g
<1>8. ASSUME NEW u \in {merge, right}
      PROVE  u \notin DOMAIN f
  <2> SUFFICES ASSUME u \in DOMAIN f
               PROVE  FALSE
    OBVIOUS
  <2>1. u \in OthersOf(f) /\ f[u] \in TaskRecords /\ u # t
    BY <1>1, <1>5 DEF OthersOf, TaskMap
  <2>2. Shaped(u, f[u])
    BY <1>1, <2>1 DEF Tree
  <2>3. u[2] \in OutOf(u, f[u]) /\ u[2] \in OutOf(t, r)
    <3>1. u[2] \in OutOf(u, f[u])
      BY <2>1, <2>2, OutNotEmpty
    <3>2. t[2] \in OutOf(t, r)
      BY <1>2, OutNotEmpty
    <3> QED BY <1>3, <1>5, <3>1, <3>2
  <2>4. f[u].state = "waiting" /\ Inside(t, r, u, f[u])
    <3>1. PairNested(f, t, u)
      BY <1>1, <2>1 DEF Nested
    <3>2. ~Apart(t, r, u, f[u])
      BY <2>3 DEF Apart
    <3> QED BY <3>1, <3>2 DEF PairNested, r
  <2>5. u = merge
    BY <1>5, <2>2, <2>4 DEF Shaped
  <2>6. SizeOf(f[u]) = r.xe - r.xs
    <3>1. /\ f[u].xs = r.xs /\ f[u].xe = f[u].ys /\ f[u].ye = r.xe
      BY <1>5, <2>2, <2>4, <2>5 DEF Shaped
    <3>2. f[u].xe \in Nat
      BY <2>1 DEF TaskRecords
    <3> QED BY <1>5, <3>1, <3>2 DEF SizeOf, NX, NY
  <2> QED BY <1>3, <1>5, <2>4, <2>6 DEF Inside
<1>9. /\ DOMAIN g = DOMAIN f \cup {merge, right}
      /\ g[t] = one /\ g[merge] = m /\ g[right] = two
      /\ \A u \in DOMAIN f \ {t} : g[u] = f[u]
      /\ g = [u \in DOMAIN g |-> g[u]]
  BY <1>1, <1>5, <1>7, <1>8 DEF g, With
<1>10. TaskMap(g)
  <2>1. IsFiniteSet(DOMAIN g)
    <3>1. IsFiniteSet(DOMAIN f \cup {merge}) /\ DOMAIN g = (DOMAIN f \cup {merge}) \cup {right}
      BY <1>1, <1>9, FS_AddElement DEF TaskMap
    <3> QED BY <3>1, FS_AddElement
  <2>2. \A u \in DOMAIN g : g[u] \in TaskRecords
    BY <1>1, <1>3, <1>9 DEF TaskMap
  <2>3. DOMAIN g \subseteq TaskNames
    BY <1>1, <1>6, <1>9 DEF TaskMap
  <2> QED BY <1>9, <2>1, <2>2, <2>3 DEF TaskMap
<1>11. Becomes(f, g, t, N)
  <2>1. \A x \in N : Shrunk(x, g[x], t, f[t]) /\ Shaped(x, g[x])
    BY <1>3, <1>9 DEF r
  <2>2. N \cap OthersOf(f) = {t} /\ Root \notin N /\ DOMAIN g = DOMAIN f \cup N
    BY <1>1, <1>5, <1>8, <1>9 DEF OthersOf
  <2> QED BY <1>1, <1>9, <1>10, <2>1, <2>2 DEF Becomes
<1>12. Tree(g, "run")
  <2>1. \A x \in N : \/ g[x].parent = f[t].parent
                     \/ /\ g[x].parent \in N /\ g[g[x].parent].state = "waiting"
                        /\ Inside(x, g[x], g[x].parent, g[g[x].parent])
    BY <1>3, <1>4, <1>9 DEF r, p
  <2> HIDE DEF N
  <2> QED BY <1>1, <1>11, <2>1, TreeBecomes
<1>13. Nested(g)
  <2>1. \A x, y \in N : x # y => PairNested(g, x, y)
    <3>1. PairNested(g, t, right) /\ PairNested(g, right, t)
      BY <1>3, <1>9, ApartTurned DEF PairNested
    <3>2. \A x \in {t, right} : PairNested(g, x, merge) /\ PairNested(g, merge, x)
      BY <1>3, <1>4, <1>9 DEF PairNested
    <3> QED BY <3>1, <3>2
  <2>2. ASSUME NEW w \in N, NEW u \in N, g[w].state = "waiting", Inside(u, g[u], w, g[w])
        PROVE  CoveredIn(g, u, w)
    <3>1. w = merge
      BY <1>4, <1>9, <2>2
    <3>2. u # merge
      <4>1. SizeOf(m) \in Int
        BY <1>3, SizeIsInt
      <4> QED BY <1>9, <2>2, <3>1, <4>1 DEF Inside
    <3>3. u \in ChildrenOf(g, merge)
      BY <1>1, <1>4, <1>9, <3>2 DEF ChildrenOf
    <3> QED BY <3>1, <3>3 DEF CoveredIn
  <2>3. \A x \in N : \E y \in N : /\ x = y \/ Inside(x, g[x], y, g[y])
                                  /\ g[y].parent = f[t].parent
    <3>1. g[merge].parent = f[t].parent
      BY <1>4, <1>9 DEF r, p
    <3> QED BY <1>3, <1>9, <3>1
  <2> HIDE DEF N
  <2> QED BY <1>1, <1>11, <2>1, <2>2, <2>3, NestedBecomes
<1>14. RefsMatch(g)
  <2>1. \A u \in DOMAIN f : f[u].refs = Cardinality(ChildrenOf(f, u)) /\ f[u].refs \in Nat
    BY <1>1 DEF RefsMatch, TaskMap, TaskRecords
  <2>2. /\ ChildrenOf(f, merge) = {} /\ ChildrenOf(f, right) = {} /\ ChildrenOf(f, t) = {}
    <3>1. merge # NoParent /\ right # NoParent /\ t # NoParent
      BY <1>1, <1>6, NoParentNoTask DEF TaskMap
    <3> QED BY <1>1, <1>8, <3>1, Childless
  <2>3. p # merge /\ p # right
    BY <1>2, <1>8
  <2>4. ChildrenOf(g, merge) = {t, right}
    BY <1>1, <1>4, <1>5, <1>9, <2>2, <2>3 DEF ChildrenOf
  <2>5. ChildrenOf(g, right) = {} /\ ChildrenOf(g, t) = {}
    BY <1>1, <1>2, <1>4, <1>5, <1>9, <2>2, <2>3 DEF ChildrenOf
  <2>6. /\ ChildrenOf(g, p) = (ChildrenOf(f, p) \ {t}) \cup {merge}
        /\ t \in ChildrenOf(f, p) /\ merge \notin ChildrenOf(f, p) \ {t}
    BY <1>1, <1>4, <1>8, <1>9, <2>3 DEF ChildrenOf, r, p
  <2>7. \A u \in DOMAIN f \ {p, t} : ChildrenOf(g, u) = ChildrenOf(f, u)
    <3>1. f[t].parent = p
      BY DEF r, p
    <3> QED BY <1>1, <1>4, <1>8, <1>9, <3>1 DEF ChildrenOf
  <2>8. Cardinality(ChildrenOf(g, p)) = Cardinality(ChildrenOf(f, p))
    <3>1. IsFiniteSet(ChildrenOf(f, p)) /\ Cardinality(ChildrenOf(f, p)) \in Nat
      BY <1>1, ChildrenFinite
    <3>2. /\ IsFiniteSet(ChildrenOf(f, p) \ {t})
          /\ Cardinality(ChildrenOf(f, p) \ {t}) = Cardinality(ChildrenOf(f, p)) - 1
      BY <2>6, <3>1, FS_RemoveElement
    <3>3. Cardinality((ChildrenOf(f, p) \ {t}) \cup {merge}) = Cardinality(ChildrenOf(f, p) \ {t}) + 1
      BY <2>6, <3>2, FS_AddElement
    <3> QED BY <2>6, <3>1, <3>2, <3>3
  <2>9. Cardinality({t, right}) = 2 /\ Cardinality({}) = 0
    <3>1. Cardinality({t}) = 1 /\ IsFiniteSet({t})
      BY FS_Singleton
    <3>2. {t, right} = {t} \cup {right} /\ right \notin {t}
      BY <1>5
    <3>3. Cardinality({t, right}) = 1 + 1
      BY <3>1, <3>2, FS_AddElement
    <3> QED BY <3>3, FS_EmptySet
  <2>10. \A u \in DOMAIN f : g[u].refs = f[u].refs
    BY <1>4, <1>9 DEF r
  <2>11. \A u \in DOMAIN g : g[u].refs = Cardinality(ChildrenOf(g, u)) /\ g[u].refs \in Nat
    <3>1. \A u \in DOMAIN g : g[u].refs \in Nat
      BY <1>10 DEF TaskMap, TaskRecords
    <3>2. g[merge].refs = Cardinality(ChildrenOf(g, merge)) /\ g[right].refs = Cardinality(ChildrenOf(g, right))
      BY <1>4, <1>9, <2>4, <2>5, <2>9
    <3>3. g[p].refs = Cardinality(ChildrenOf(g, p))
      BY <1>2, <2>1, <2>8, <2>10
    <3>4. \A u \in DOMAIN f \ {p} : ChildrenOf(g, u) = ChildrenOf(f, u)
      BY <2>2, <2>5, <2>7
    <3>5. \A u \in DOMAIN f \ {p} : g[u].refs = Cardinality(ChildrenOf(g, u))
      BY <2>1, <2>10, <3>4
    <3> QED BY <1>9, <3>1, <3>2, <3>3, <3>5
  <2> QED BY <2>11 DEF RefsMatch
<1> QED BY <1>10, <1>12, <1>13, <1>14 DEF TasksRight, g, r, merge, e, m, right, two

-----------------------------------------------------------------------------
(* A task that returns                                                     *)

\* To the others a task with these records is the same.
SamePlace(s, r) ==
  /\ s.xs = r.xs /\ s.xe = r.xe /\ s.ys = r.ys /\ s.ye = r.ye /\ s.zs = r.zs
  /\ s.parent = r.parent /\ s.split = r.split /\ s.xo = r.xo

LEMMA SamePlaced ==
  ASSUME NEW u, NEW s, NEW r, SamePlace(s, r), NEW v, NEW q, NEW o, SamePlace(o, q)
  PROVE  /\ Apart(u, s, v, o) <=> Apart(u, r, v, q)
         /\ Inside(u, s, v, o) <=> Inside(u, r, v, q)
<1>1. /\ OutOf(u, s) = OutOf(u, r) /\ InOf(s) = InOf(r) /\ SizeOf(s) = SizeOf(r)
      /\ s.split = r.split /\ s.xo = r.xo
  BY DEF SamePlace, OutOf, InOf, SizeOf, NX, NY
<1>2. /\ OutOf(v, o) = OutOf(v, q) /\ InOf(o) = InOf(q) /\ SizeOf(o) = SizeOf(q)
      /\ o.split = q.split /\ o.xo = q.xo
  BY DEF SamePlace, OutOf, InOf, SizeOf, NX, NY
<1>3. Apart(u, s, v, o) <=> Apart(u, r, v, q)
  BY <1>1, <1>2, Zenon DEF Apart
<1>4. Inside(u, s, v, o) <=> Inside(u, r, v, q)
  BY <1>1, <1>2, Zenon DEF Inside
<1> QED BY <1>3, <1>4

Returned(f, t) ==
  LET p == f[t].parent
      left == [u \in DOMAIN f \ {t} |-> f[u]]
  IN  [left EXCEPT ![p].refs = @ - 1,
                   ![p].state = IF f[p].refs = 1 /\ p # Root THEN "ready" ELSE @]
StageAfter(f, t, was) ==
  LET p == f[t].parent
  IN  IF p = Root /\ f[p].refs = 1
      THEN IF was = "run" THEN "ended" ELSE "abandoned" ELSE was

LEMMA ReturnRight ==
  ASSUME NEW f, NEW was, TasksRight(f, was), NEW t \in DOMAIN f,
         f[t].state \in {"ready", "done"}, f[t].parent # NoParent
  PROVE  TasksRight(Returned(f, t), StageAfter(f, t, was))
<1> DEFINE p == f[t].parent
           g == Returned(f, t)
           stage == StageAfter(f, t, was)
           last == f[p].refs = 1
<1>1. /\ TaskMap(f) /\ Tree(f, was) /\ RefsMatch(f) /\ (was = "run" => Nested(f))
      /\ t # Root /\ t \in OthersOf(f)
  BY DEF TasksRight, Tree, OthersOf
<1>2. /\ p \in DOMAIN f /\ f[p].state = "waiting" /\ p # t
      /\ f[p] \in TaskRecords /\ f[t] \in TaskRecords /\ Shaped(t, f[t])
  BY <1>1 DEF Tree, TaskMap
<1>3. /\ ChildrenOf(f, t) = {} /\ t \in ChildrenOf(f, p)
      /\ NoParent \notin DOMAIN f
  <2>1. t # NoParent /\ NoParent \notin DOMAIN f
    BY <1>1, NoParentNoTask DEF TaskMap
  <2>2. ChildrenOf(f, t) = {}
    BY <1>1, <2>1, Childless
  <2> QED BY <2>1, <2>2 DEF ChildrenOf
<1> DEFINE n == Cardinality(ChildrenOf(f, p))
<1>4. /\ IsFiniteSet(ChildrenOf(f, p)) /\ n \in Nat /\ n > 0 /\ f[p].refs >= n /\ f[p].refs \in Nat
      /\ last => ChildrenOf(f, p) = {t}
  <2>1. IsFiniteSet(ChildrenOf(f, p)) /\ n \in Nat
    BY <1>1, ChildrenFinite
  <2>2. IsFiniteSet(ChildrenOf(f, p) \ {t}) /\ Cardinality(ChildrenOf(f, p) \ {t}) = n - 1
        /\ Cardinality(ChildrenOf(f, p) \ {t}) \in Nat
    BY <1>3, <2>1, FS_RemoveElement, FS_CardinalityType
  <2>3. f[p].refs >= n /\ f[p].refs \in Nat
    BY <1>1, <1>2 DEF RefsMatch, TaskRecords
  <2>4. ASSUME last
        PROVE  ChildrenOf(f, p) = {t}
    <3>1. Cardinality(ChildrenOf(f, p) \ {t}) = 0
      BY <2>1, <2>2, <2>3, <2>4
    <3>2. ChildrenOf(f, p) \ {t} = {}
      BY <2>2, <3>1, FS_EmptySet
    <3> QED BY <1>3, <3>2
  <2> QED BY <2>1, <2>2, <2>3, <2>4
<1>5. /\ DOMAIN g = DOMAIN f \ {t} /\ g = [u \in DOMAIN g |-> g[u]]
      /\ \A u \in DOMAIN g \ {p} : g[u] = f[u]
      /\ g[p] = [f[p] EXCEPT !.refs = @ - 1, !.state = IF last /\ p # Root THEN "ready" ELSE @]
  BY <1>2 DEF Returned
<1> HIDE DEF g, n, last, stage
<1>6. /\ g[p] \in TaskRecords /\ g[p].refs = f[p].refs - 1 /\ SamePlace(g[p], f[p])
      /\ g[p].state = IF last /\ p # Root THEN "ready" ELSE "waiting"
      /\ g[p].yo = f[p].yo /\ g[p].isRoot = f[p].isRoot
  <2>1. f[p].refs - 1 \in Nat
    BY <1>4
  <2>2. g[p].refs = f[p].refs - 1 /\ SamePlace(g[p], f[p])
    BY <1>2, <1>5 DEF TaskRecords, SamePlace
  <2>3. g[p].state = IF last /\ p # Root THEN "ready" ELSE "waiting"
    BY <1>2, <1>5 DEF TaskRecords
  <2>4. \A z \in Nat : \A s \in {"ready", "waiting"} : [f[p] EXCEPT !.refs = z, !.state = s] \in TaskRecords
    BY <1>2 DEF TaskRecords
  <2>5. g[p] \in TaskRecords
    <3>1. g[p] = [f[p] EXCEPT !.refs = f[p].refs - 1, !.state = IF last /\ p # Root THEN "ready" ELSE "waiting"]
      BY <1>2, <1>5 DEF TaskRecords
    <3> QED BY <2>1, <2>4, <3>1
  <2> QED BY <1>2, <1>5, <2>2, <2>3, <2>5 DEF TaskRecords
<1>7. TaskMap(g)
  <2>1. IsFiniteSet(DOMAIN g)
    BY <1>1, <1>5, FS_RemoveElement DEF TaskMap
  <2>2. \A u \in DOMAIN g : g[u] \in TaskRecords
    BY <1>1, <1>5, <1>6 DEF TaskMap
  <2> QED BY <1>1, <1>5, <2>1, <2>2 DEF TaskMap
<1>8. /\ \A u \in DOMAIN g : u \in DOMAIN f /\ SamePlace(g[u], f[u]) /\ g[u].parent = f[u].parent
      /\ \A u \in DOMAIN g \ {p} : g[u].state = f[u].state
      /\ \A u \in DOMAIN g : g[u].state = "waiting" => f[u].state = "waiting"
      /\ OthersOf(g) = OthersOf(f) \ {t}
  <2>1. \A u \in DOMAIN g : u \in DOMAIN f /\ SamePlace(g[u], f[u])
    BY <1>5, <1>6 DEF SamePlace
  <2> QED BY <1>2, <1>5, <2>1 DEF SamePlace, OthersOf
<1>9. \A u, v \in DOMAIN g : /\ Apart(u, g[u], v, g[v]) <=> Apart(u, f[u], v, f[v])
                             /\ Inside(u, g[u], v, g[v]) <=> Inside(u, f[u], v, f[v])
  BY <1>8, SamePlaced
<1>10. p \in DOMAIN g
  BY <1>2, <1>5
\* A task that begins now has had one child, which contained nothing.
<1>11. ASSUME last, NEW u \in DOMAIN g
       PROVE  f[u].parent # p
  BY <1>4, <1>5, <1>8, <1>11 DEF ChildrenOf
<1>12. Tree(g, stage)
  <2>1. Root \in DOMAIN g /\ g[Root].state = "waiting" /\ g[Root].parent = NoParent
    BY <1>1, <1>5, <1>6, <1>8 DEF Tree
  <2>2. stage \in {"run", "cancelled"} => g[Root].refs > 0
    <3> SUFFICES ASSUME stage \in {"run", "cancelled"}
                 PROVE  g[Root].refs > 0
      OBVIOUS
    <3>1. was = stage /\ ~(p = Root /\ last)
      BY DEF stage, StageAfter, last
    <3>2. f[Root].refs > 0
      BY <1>1, <3>1 DEF Tree
    <3>3. CASE p = Root
      <4>1. f[p].refs # 1
        BY <3>1, <3>3 DEF last
      <4> QED BY <1>4, <1>6, <3>2, <3>3, <4>1
    <3>4. CASE p # Root
      BY <1>5, <2>1, <3>2, <3>4
    <3> QED BY <3>3, <3>4
  <2>3. ASSUME NEW u \in OthersOf(g)
        PROVE  /\ Shaped(u, g[u])
               /\ g[u].parent \in DOMAIN g => g[g[u].parent].state = "waiting"
               /\ g[u].parent \in OthersOf(g) => Inside(u, g[u], g[u].parent, g[g[u].parent])
               /\ g[u].parent \notin DOMAIN g =>
                     g[u].parent = NoParent /\ g[u].state = "done" /\ stage \notin {"run", "ended"}
    <3>1. /\ u \in OthersOf(f) /\ u # t /\ u \in DOMAIN g /\ Shaped(u, f[u])
          /\ g[u].parent = f[u].parent
      BY <1>1, <1>8 DEF Tree, OthersOf
    <3>2. Shaped(u, g[u])
      <4>1. CASE u # p
        BY <1>5, <3>1, <4>1
      <4>2. CASE u = p
        <5>1. SizeOf(g[u]) = SizeOf(f[u])
          BY <1>8, <3>1 DEF SamePlace, SizeOf, NX, NY
        <5>2. g[u].state = "waiting" => g[u].refs > 0 /\ f[u].state = "waiting"
          <6>1. g[u].state = "waiting" => f[p].refs # 1
            BY <1>6, <3>1, <4>2 DEF last, OthersOf
          <6> QED BY <1>2, <1>4, <1>6, <4>2, <6>1
        <5> QED BY <1>8, <3>1, <5>1, <5>2 DEF SamePlace, Shaped
      <4> QED BY <4>1, <4>2
    <3>3. ASSUME g[u].parent \in DOMAIN g
          PROVE  g[g[u].parent].state = "waiting"
      <4> DEFINE q == f[u].parent
      <4>1. q \in DOMAIN g /\ f[q].state = "waiting"
        BY <1>1, <1>8, <3>1, <3>3 DEF Tree
      <4>2. q = p => ~last
        BY <1>11, <3>1
      <4> QED BY <1>6, <1>8, <3>1, <4>1, <4>2
    <3>4. ASSUME g[u].parent \in OthersOf(g)
          PROVE  Inside(u, g[u], g[u].parent, g[g[u].parent])
      <4>1. f[u].parent \in OthersOf(f) /\ f[u].parent \in DOMAIN g
        BY <1>8, <3>1, <3>4 DEF OthersOf
      <4>2. Inside(u, f[u], f[u].parent, f[f[u].parent])
        BY <1>1, <3>1, <4>1 DEF Tree
      <4> QED BY <1>9, <3>1, <4>1, <4>2
    <3>5. ASSUME g[u].parent \notin DOMAIN g
          PROVE  g[u].parent = NoParent /\ g[u].state = "done" /\ stage \notin {"run", "ended"}
      <4>1. f[u].parent # t
        BY <1>3, <3>1 DEF ChildrenOf, OthersOf
      <4>2. f[u].parent \notin DOMAIN f
        BY <1>5, <3>1, <3>5, <4>1
      <4>3. f[u].parent = NoParent /\ f[u].state = "done" /\ was \notin {"run", "ended"}
        BY <1>1, <3>1, <4>2 DEF Tree
      <4>4. u # p
        BY <1>2, <4>3
      <4>5. stage \notin {"run", "ended"}
        BY <4>3 DEF stage, StageAfter
      <4> QED BY <1>8, <3>1, <4>3, <4>4, <4>5
    <3> QED BY <3>2, <3>3, <3>4, <3>5
  <2> QED BY <2>1, <2>2, <2>3 DEF Tree
<1>13. RefsMatch(g)
  <2>1. NoneLost(g) => NoneLost(f)
    <3> SUFFICES ASSUME NoneLost(g), NEW u \in OthersOf(f)
                 PROVE  f[u].parent # NoParent
      BY DEF NoneLost
    <3>1. CASE u = t
      BY <3>1
    <3>2. CASE u # t
      <4>1. u \in OthersOf(g) /\ u \in DOMAIN g
        BY <1>8, <3>2 DEF OthersOf
      <4> QED BY <1>8, <4>1 DEF NoneLost
    <3> QED BY <3>1, <3>2
  <2>2. ChildrenOf(g, p) = ChildrenOf(f, p) \ {t}
    BY <1>5, <1>8 DEF ChildrenOf
  <2>3. \A u \in DOMAIN g \ {p} : ChildrenOf(g, u) = ChildrenOf(f, u)
    BY <1>5, <1>8 DEF ChildrenOf
  <2>4. Cardinality(ChildrenOf(g, p)) = n - 1
    <3>1. Cardinality(ChildrenOf(f, p) \ {t}) = Cardinality(ChildrenOf(f, p)) - 1
      BY <1>3, <1>4, FS_RemoveElement
    <3> QED BY <2>2, <3>1 DEF n
  <2>5. \A u \in DOMAIN f : /\ f[u].refs >= Cardinality(ChildrenOf(f, u))
                            /\ NoneLost(f) => f[u].refs = Cardinality(ChildrenOf(f, u))
    BY <1>1 DEF RefsMatch
  <2>6. g[p].refs >= Cardinality(ChildrenOf(g, p)) /\ (NoneLost(g) => g[p].refs = Cardinality(ChildrenOf(g, p)))
    <3>1. NoneLost(g) => f[p].refs = n
      BY <1>2, <2>1, <2>5 DEF n
    <3> QED BY <1>4, <1>6, <2>4, <3>1
  <2>7. \A u \in DOMAIN g \ {p} : /\ g[u].refs >= Cardinality(ChildrenOf(g, u))
                                  /\ NoneLost(g) => g[u].refs = Cardinality(ChildrenOf(g, u))
    BY <1>5, <1>8, <2>1, <2>3, <2>5
  <2> QED BY <2>6, <2>7 DEF RefsMatch
<1>14. stage = "run" => Nested(g)
  <2> SUFFICES ASSUME stage = "run"
               PROVE  Nested(g)
    OBVIOUS
  <2>1. was = "run" /\ Nested(f)
    BY <1>1 DEF stage, StageAfter
  <2>2. \A u \in OthersOf(f) : Shaped(u, f[u]) /\ u \in DOMAIN f
    BY <1>1 DEF Tree, OthersOf
  <2>3. \A u \in OthersOf(f) : ~Inside(u, f[u], t, f[t])
    BY <1>1, <1>2, <2>1, <2>2, NothingInside
  <2>4. ASSUME NEW w \in OthersOf(g), NEW u \in OthersOf(g), f[w].state = "waiting",
               Inside(u, f[u], w, f[w])
        PROVE  CoveredIn(g, u, w) /\ g[w].state = "waiting"
    <3>1. u \in OthersOf(f) /\ w \in OthersOf(f) /\ u # t /\ w \in DOMAIN g /\ u \in DOMAIN g
      BY <1>8 DEF OthersOf
    <3>2. PICK c \in ChildrenOf(f, w) : u = c \/ Inside(u, f[u], c, f[c])
      BY <2>1, <2>4, <3>1 DEF Nested, CoveredIn
    <3>3. c # t /\ c \in DOMAIN f /\ f[c].parent = w
      BY <2>3, <3>1, <3>2 DEF ChildrenOf
    <3>4. c \in DOMAIN g /\ g[c].parent = w
      BY <1>5, <1>8, <3>3
    <3>5. u = c \/ Inside(u, g[u], c, g[c])
      BY <1>9, <3>1, <3>2, <3>4
    <3>6. CoveredIn(g, u, w)
      BY <3>4, <3>5 DEF CoveredIn, ChildrenOf
    <3>7. w = p => ~last
      BY <1>11, <3>3, <3>4
    <3>8. g[w].state = "waiting"
      BY <1>6, <1>8, <2>4, <3>1, <3>7
    <3> QED BY <3>6, <3>8
  <2>5. ASSUME NEW u \in OthersOf(g), NEW v \in OthersOf(g), u # v
        PROVE  PairNested(g, u, v)
    <3>1. u \in OthersOf(f) /\ v \in OthersOf(f) /\ u \in DOMAIN g /\ v \in DOMAIN g
      BY <1>8 DEF OthersOf
    <3>2. PairNested(f, u, v)
      BY <2>1, <2>5, <3>1 DEF Nested
    <3> QED BY <1>9, <2>4, <3>1, <3>2 DEF PairNested
  <2>6. \A w, u \in OthersOf(g) : g[w].state = "waiting" /\ Inside(u, g[u], w, g[w]) => CoveredIn(g, u, w)
    <3>1. OthersOf(g) \subseteq DOMAIN g
      BY DEF OthersOf
    <3> QED BY <1>8, <1>9, <2>4, <3>1
  <2> QED BY <2>5, <2>6 DEF Nested
<1> QED BY <1>7, <1>12, <1>13, <1>14 DEF TasksRight, g, stage

-----------------------------------------------------------------------------
(* The bodies of merge tasks                                               *)

\* What moving its ranges makes of a task: only its flags, and only before it
\* is split, are others.
Shifted(s, r) ==
  /\ s \in TaskRecords
  /\ s.xs = r.xs /\ s.xe = r.xe /\ s.ys = r.ys /\ s.ye = r.ye /\ s.zs = r.zs
  /\ s.parent = r.parent /\ s.refs = r.refs /\ s.state = r.state /\ s.split = r.split
  /\ s.isRoot = r.isRoot
  /\ r.split => s.xo = r.xo

LEMMA MovesX ==
  ASSUME NEW me \in TaskRecords, ~me.split, NEW x, NEW z
  PROVE  Shifted(MoveX(me, x, z).me, me)
<1>1. MoveX(me, x, z).me = IF me.xo THEN [me EXCEPT !.xo = FALSE] ELSE [me EXCEPT !.xo = TRUE]
  BY DEF MoveX
<1>2. \A b \in BOOLEAN : [me EXCEPT !.xo = b] \in TaskRecords
  BY DEF TaskRecords
<1>3. \A b \in BOOLEAN : Shifted([me EXCEPT !.xo = b], me)
  BY <1>2 DEF TaskRecords, Shifted
<1> QED BY <1>1, <1>3

LEMMA MovesY ==
  ASSUME NEW me \in TaskRecords, NEW x, NEW z
  PROVE  Shifted(MoveY(me, x, z).me, me)
<1>1. MoveY(me, x, z).me = IF me.yo THEN [me EXCEPT !.yo = FALSE] ELSE [me EXCEPT !.yo = TRUE]
  BY DEF MoveY
<1>2. \A b \in BOOLEAN : [me EXCEPT !.yo = b] \in TaskRecords
  BY DEF TaskRecords
<1>3. \A b \in BOOLEAN : Shifted([me EXCEPT !.yo = b], me)
  BY <1>2 DEF TaskRecords, Shifted
<1> QED BY <1>1, <1>3

LEMMA MovesBoth ==
  ASSUME NEW m, m.me \in TaskRecords, ~m.me.split
  PROVE  Shifted(MoveBoth(m).me, m.me)
<1> DEFINE n == MoveX(m.me, m.x, m.z)
<1>1. Shifted(n.me, m.me)
  BY MovesX
<1> HIDE DEF n
<1>2. Shifted(MoveY(n.me, n.x, n.z).me, n.me)
  BY <1>1, MovesY DEF Shifted
<1>3. MoveBoth(m).me = MoveY(n.me, n.x, n.z).me
  BY DEF MoveBoth, n
<1> QED BY <1>1, <1>2, <1>3 DEF Shifted

LEMMA MovesTogether ==
  ASSUME NEW me \in TaskRecords
  PROVE  Shifted(Together(me).me, me)
<1>1. Shifted(me, me)
  BY DEF Shifted
<1> DEFINE m == [me |-> me, x |-> xa, z |-> za]
<1>2. CASE me.split \/ me.xo = me.yo
  <2>1. Together(me) = m
    BY <1>2 DEF Together
  <2> QED BY <1>1, <2>1
<1>3. CASE ~(me.split \/ me.xo = me.yo)
  <2>1. Together(me) = MoveX(me, xa, za) \/ Together(me) = MoveY(me, xa, za)
    BY <1>3 DEF Together
  <2>2. ~me.split
    BY <1>3
  <2> QED BY <2>1, <2>2, MovesX, MovesY
<1> QED BY <1>2, <1>3

-----------------------------------------------------------------------------
(* Tasks that change in their places                                       *)

\* g is f with the record s for t; a task that waits may have other flags.
Replaced(g, f, t, s) ==
  /\ TaskMap(g) /\ DOMAIN g = DOMAIN f /\ g[t] = s
  /\ \A u \in DOMAIN f \ {t} : /\ g[u] = f[u] \/ Waited(g[u], f[u])
                              /\ g[u].refs = f[u].refs

LEMMA ReplacedOne ==
  ASSUME NEW f, TaskMap(f), NEW t \in DOMAIN f, NEW s \in TaskRecords
  PROVE  Replaced([f EXCEPT ![t] = s], f, t, s)
BY DEF TaskMap, Replaced

LEMMA ReplacedTold ==
  ASSUME NEW f, TaskMap(f), NEW t \in DOMAIN f, NEW s \in TaskRecords,
         s.parent \in DOMAIN f, s.parent # t, f[s.parent].state = "waiting",
         NEW e \in TaskRecords, e.parent = s.parent, NEW orig \in BOOLEAN
  PROVE  Replaced(SetOdd([f EXCEPT ![t] = s], e, orig), f, t, s)
<1> DEFINE p == s.parent
           h == [f EXCEPT ![t] = s]
           g == SetOdd(h, e, orig)
<1>1. /\ TaskMap(h) /\ DOMAIN h = DOMAIN f /\ h[t] = s /\ h[p] = f[p] /\ f[p] \in TaskRecords
      /\ \A u \in DOMAIN f \ {t} : h[u] = f[u]
  BY DEF TaskMap
<1> HIDE DEF h
<1>2. g = [h EXCEPT ![p].xo = orig] \/ g = [h EXCEPT ![p].yo = orig]
  BY DEF SetOdd
<1>3. /\ [f[p] EXCEPT !.xo = orig] \in TaskRecords
      /\ [f[p] EXCEPT !.yo = orig] \in TaskRecords
  BY <1>1 DEF TaskRecords
<1>4. \A q \in {[f[p] EXCEPT !.xo = orig], [f[p] EXCEPT !.yo = orig]} :
        Waited(q, f[p]) /\ q.refs = f[p].refs
  BY <1>1 DEF TaskRecords, Waited
<1>5. PICK q \in {[f[p] EXCEPT !.xo = orig], [f[p] EXCEPT !.yo = orig]} : g = [h EXCEPT ![p] = q]
  BY <1>1, <1>2
<1> HIDE DEF g
<1>6. /\ DOMAIN g = DOMAIN f /\ g[t] = s /\ g[p] = q
      /\ \A u \in DOMAIN f \ {t, p} : g[u] = f[u]
  BY <1>1, <1>5
<1>7. TaskMap(g)
  BY <1>1, <1>3, <1>5 DEF TaskMap
<1>8. Replaced(g, f, t, s)
  BY <1>4, <1>6, <1>7 DEF Replaced
<1> QED BY <1>8 DEF g, h

LEMMA ReplacedEnds ==
  ASSUME NEW f, NEW g, NEW t \in DOMAIN f, NEW s \in TaskRecords, Replaced(g, f, t, s)
  PROVE  /\ Replaced(Ends(g, t), f, t, [s EXCEPT !.state = "done"])
         /\ [s EXCEPT !.state = "done"] \in TaskRecords
<1>1. [s EXCEPT !.state = "done"] \in TaskRecords
  BY DEF TaskRecords
<1>2. Ends(g, t) = [g EXCEPT ![t] = [s EXCEPT !.state = "done"]]
  BY DEF Ends, Replaced
<1>3. TaskMap(Ends(g, t))
  BY <1>1, <1>2 DEF TaskMap, Replaced
<1> QED BY <1>1, <1>2, <1>3 DEF Replaced

LEMMA ShiftedSettled ==
  ASSUME NEW t, NEW r, r.state = "ready", NEW s, Shifted(s, r), t[1] = "static" => s.xo
  PROVE  /\ Settled(t, s, r) /\ s.parent = r.parent
         /\ Settled(t, [s EXCEPT !.state = "done"], r)
         /\ [s EXCEPT !.state = "done"].parent = r.parent
<1> DEFINE q == [s EXCEPT !.state = "done"]
<1>1. Settled(t, s, r) /\ s.parent = r.parent
  BY DEF Shifted, Settled
<1>2. s \in TaskRecords
  BY DEF Shifted
<1>3. /\ q.xs = s.xs /\ q.xe = s.xe /\ q.ys = s.ys /\ q.ye = s.ye /\ q.zs = s.zs
      /\ q.refs = s.refs /\ q.split = s.split /\ q.state = "done" /\ q.xo = s.xo
      /\ q.parent = s.parent
  BY <1>2 DEF TaskRecords
<1> HIDE DEF q
<1>4. Settled(t, q, r)
  BY <1>1, <1>3 DEF Settled
<1> QED BY <1>1, <1>3, <1>4 DEF q

\* The task has moved its ranges, or ended.
LEMMA ReplacedRight ==
  ASSUME NEW f, NEW was \in {"run", "cancelled"}, TasksRight(f, was),
         NEW t \in OthersOf(f), f[t].state = "ready",
         NEW q, Settled(t, q, f[t]), NEW g, Replaced(g, f, t, q),
         NEW stage \in {was, "cancelled"},
         \/ q.parent = f[t].parent
         \/ stage = "cancelled" /\ q.parent = NoParent /\ q.state = "done"
  PROVE  TasksRight(g, stage)
<1>1. Settled(t, g[t], f[t])
  BY DEF Replaced
<1>2. \/ g[t].parent = f[t].parent
      \/ stage = "cancelled" /\ g[t].parent = NoParent /\ g[t].state = "done"
  BY DEF Replaced
<1>3. /\ TaskMap(g) /\ DOMAIN g = DOMAIN f
      /\ \A u \in DOMAIN f \ {t} : /\ g[u] = f[u] \/ Waited(g[u], f[u])
                              /\ g[u].refs = f[u].refs
  BY DEF Replaced
<1> QED BY <1>1, <1>2, <1>3, SettledRight

-----------------------------------------------------------------------------
(* Every step                                                              *)

Stages == {"run", "cancelled", "ended", "abandoned", "crashed"}
TreeInv == parStage \in Stages /\ TasksRight(tasks, parStage)

LEMMA ReadyHere ==
  ASSUME TreeInv, NEW t, Ready(t)
  PROVE  /\ t \in OthersOf(tasks) /\ t \in DOMAIN tasks /\ tasks[t].state = "ready"
         /\ TaskMap(tasks) /\ tasks[t] \in TaskRecords /\ Shaped(t, tasks[t])
         /\ tasks[t].parent \in DOMAIN tasks /\ tasks[tasks[t].parent].state = "waiting"
         /\ tasks[t].parent # t
<1>1. t \in OthersOf(tasks) /\ t \in DOMAIN tasks /\ tasks[t].state = "ready" /\ TaskMap(tasks)
  BY DEF TreeInv, TasksRight, Tree, Ready, OthersOf
<1> QED BY <1>1, ReadyHasParent DEF TreeInv

\* A task that only ends.
LEMMA EndsRight ==
  ASSUME TreeInv, NEW t, Ready(t), parStage \in {"run", "cancelled"},
         tasks' = Ends(tasks, t), parStage' \in {parStage, "cancelled"}
  PROVE  TreeInv'
<1>1. /\ t \in OthersOf(tasks) /\ t \in DOMAIN tasks /\ tasks[t].state = "ready"
      /\ TaskMap(tasks) /\ tasks[t] \in TaskRecords /\ Shaped(t, tasks[t])
  BY ReadyHere
<1> DEFINE s == [tasks[t] EXCEPT !.state = "done"]
<1>2. Shifted(tasks[t], tasks[t]) /\ (t[1] = "static" => tasks[t].xo)
  BY <1>1 DEF Shifted, Shaped
<1>3. Settled(t, s, tasks[t]) /\ s.parent = tasks[t].parent
  BY <1>1, <1>2, ShiftedSettled
<1>4. s \in TaskRecords
  BY <1>1 DEF TaskRecords
<1>5. tasks' = [tasks EXCEPT ![t] = s]
  BY DEF Ends
<1> HIDE DEF s
<1>6. Replaced(tasks', tasks, t, s)
  <2>1. Replaced([tasks EXCEPT ![t] = s], tasks, t, s)
    BY <1>1, <1>4, ReplacedOne
  <2> QED BY <1>5, <2>1
<1>7. TasksRight(tasks', parStage')
  BY <1>1, <1>3, <1>6, ReplacedRight DEF TreeInv
<1> QED BY <1>7 DEF TreeInv, Stages

LEMMA SortHalvesRight ==
  ASSUME TreeInv, NEW t, SortHalves(t)
  PROVE  TreeInv'
<1> DEFINE me == tasks[t]
           xm == me.xs + (me.xe - me.xs) \div 2
           merge == <<"merge", me.xs, me.xe>>
<1>1. /\ Ready(t) /\ t[1] = "sort" /\ parStage = "run" /\ parStage' = "run"
      /\ me.xe - me.xs > SortCutOff
      /\ tasks' = With(With([tasks EXCEPT ![t].parent = merge, ![t].isRoot = FALSE, ![t].xe = xm,
                                          ![t].begun = TRUE],
                            merge, MergeOf(me, xm)),
                       <<"sort", xm, me.xe>>, SecondHalf(me, merge, xm))
  BY DEF SortHalves, MergeOf, SecondHalf
<1>2. t \in OthersOf(tasks) /\ tasks[t].state = "ready" /\ me \in TaskRecords
  BY <1>1, ReadyHere
<1>3. xm \in Nat /\ me.xs < xm /\ xm < me.xe
  <2>1. me.xs \in Nat /\ me.xe \in Nat /\ SortCutOff \in Nat /\ SortCutOff >= 1
    BY <1>2, CutOffsOK DEF TaskRecords
  <2> QED BY <1>1, <2>1
<1>4. TasksRight(tasks, "run")
  BY <1>1 DEF TreeInv
<1>5. TasksRight(tasks', "run")
  BY <1>1, <1>2, <1>3, <1>4, HalvesRight
<1> QED BY <1>1, <1>5 DEF TreeInv, Stages

LEMMA SortFailsRight ==
  ASSUME TreeInv, NEW t, SortFails(t)
  PROVE  TreeInv'
<1>1. Ready(t) /\ t[1] = "sort" /\ parStage = "run" /\ parStage' = "cancelled"
  BY DEF SortFails
<1>2. /\ t \in OthersOf(tasks) /\ t \in DOMAIN tasks /\ tasks[t].state = "ready"
      /\ TaskMap(tasks) /\ tasks[t] \in TaskRecords /\ Shaped(t, tasks[t])
      /\ tasks[t].parent \in DOMAIN tasks
  BY <1>1, ReadyHere
<1>3. PICK p \in {tasks[t].parent, NoParent} : tasks' = [Ends(tasks, t) EXCEPT ![t].parent = p]
  BY DEF SortFails
<1> DEFINE s == [tasks[t] EXCEPT !.state = "done", !.parent = p]
<1>4. s \in TaskRecords
  <2>1. p \in TaskNames \cup {NoParent}
    BY <1>2 DEF TaskRecords
  <2> QED BY <1>2, <2>1 DEF TaskRecords
<1>5. tasks' = [tasks EXCEPT ![t] = s]
  BY <1>2, <1>3 DEF Ends
<1>6. /\ s.xs = tasks[t].xs /\ s.xe = tasks[t].xe /\ s.ys = tasks[t].ys /\ s.ye = tasks[t].ye
      /\ s.zs = tasks[t].zs /\ s.refs = tasks[t].refs /\ s.split = tasks[t].split
      /\ s.xo = tasks[t].xo /\ s.state = "done" /\ s.parent = p
  BY <1>2 DEF TaskRecords
<1> HIDE DEF s
<1>7. Settled(t, s, tasks[t])
  BY <1>2, <1>6 DEF Settled, Shaped
<1>8. Replaced(tasks', tasks, t, s)
  BY <1>2, <1>4, <1>5, ReplacedOne
<1>9. s.parent = tasks[t].parent \/ (s.parent = NoParent /\ s.state = "done")
  BY <1>6
<1>10. TasksRight(tasks, "run")
  BY <1>1 DEF TreeInv
<1>11. TasksRight(tasks', "cancelled")
  BY <1>2, <1>7, <1>8, <1>9, <1>10, ReplacedRight
<1> QED BY <1>1, <1>11 DEF TreeInv, Stages

-----------------------------------------------------------------------------
(* The merges of a sort                                                    *)

LEMMA MergeSkipsRight ==
  ASSUME TreeInv, NEW t, MergeSkips(t)
  PROVE  TreeInv'
<1> DEFINE m == Together(tasks[t])
           n == IF m.me.isRoot /\ ~m.me.xo THEN MoveBoth(m) ELSE m
<1>1. /\ Ready(t) /\ t[1] \in {"merge", "part"} /\ parStage = "run" /\ parStage' = "run"
      /\ ~m.me.split
      /\ tasks' = IF m.me.isRoot THEN [tasks EXCEPT ![t] = [n.me EXCEPT !.state = "done"]]
                  ELSE SetOdd([tasks EXCEPT ![t] = [m.me EXCEPT !.state = "done"]], m.me, m.me.xo)
  BY DEF MergeSkips, InOrderAlready
<1>2. /\ t \in OthersOf(tasks) /\ t \in DOMAIN tasks /\ tasks[t].state = "ready"
      /\ TaskMap(tasks) /\ tasks[t] \in TaskRecords /\ Shaped(t, tasks[t])
      /\ tasks[t].parent \in DOMAIN tasks /\ tasks[tasks[t].parent].state = "waiting"
      /\ tasks[t].parent # t
  BY <1>1, ReadyHere
<1>3. TasksRight(tasks, "run")
  BY <1>1 DEF TreeInv
<1>4. Shifted(m.me, tasks[t])
  BY <1>2, MovesTogether
<1>5. Shifted(n.me, tasks[t])
  <2>1. Shifted(MoveBoth(m).me, m.me)
    BY <1>1, <1>4, MovesBoth DEF Shifted
  <2>2. Shifted(MoveBoth(m).me, tasks[t])
    BY <1>4, <2>1 DEF Shifted
  <2> QED BY <1>4, <2>2
<1> HIDE DEF m, n
<1>6. ASSUME NEW s, Shifted(s, tasks[t])
      PROVE  LET e == [s EXCEPT !.state = "done"]
             IN  e \in TaskRecords /\ Settled(t, e, tasks[t]) /\ e.parent = tasks[t].parent
  <2>1. t[1] # "static"
    BY <1>1
  <2>2. s \in TaskRecords
    BY <1>6 DEF Shifted
  <2> QED BY <1>2, <1>6, <2>1, <2>2, ShiftedSettled DEF TaskRecords
<1>7. CASE m.me.isRoot
  <2> DEFINE e == [n.me EXCEPT !.state = "done"]
  <2>1. e \in TaskRecords /\ Settled(t, e, tasks[t]) /\ e.parent = tasks[t].parent
    BY <1>5, <1>6
  <2>2. tasks' = [tasks EXCEPT ![t] = e]
    BY <1>1, <1>7
  <2> HIDE DEF e
  <2>3. Replaced(tasks', tasks, t, e)
    BY <1>2, <2>1, <2>2, ReplacedOne
  <2>4. TasksRight(tasks', "run")
    BY <1>2, <1>3, <2>1, <2>3, ReplacedRight
  <2> QED BY <1>1, <2>4 DEF TreeInv, Stages
<1>8. CASE ~m.me.isRoot
  <2> DEFINE e == [m.me EXCEPT !.state = "done"]
  <2>1. e \in TaskRecords /\ Settled(t, e, tasks[t]) /\ e.parent = tasks[t].parent
    BY <1>4, <1>6
  <2>2. tasks' = SetOdd([tasks EXCEPT ![t] = e], m.me, m.me.xo)
    BY <1>1, <1>8
  <2>3. m.me \in TaskRecords /\ m.me.parent = tasks[t].parent /\ m.me.xo \in BOOLEAN
    BY <1>4 DEF Shifted, TaskRecords
  <2> HIDE DEF e
  <2>4. Replaced(tasks', tasks, t, e)
    BY <1>2, <2>1, <2>2, <2>3, ReplacedTold
  <2>5. TasksRight(tasks', "run")
    BY <1>2, <1>3, <2>1, <2>4, ReplacedRight
  <2> QED BY <1>1, <2>5 DEF TreeInv, Stages
<1> QED BY <1>7, <1>8

\* What the moves of a merge leave, before its parts are merged.
LEMMA ToldRight ==
  ASSUME TreeInv, NEW t, Ready(t), t[1] \in {"merge", "part"}, parStage = "run",
         NEW n, Shifted(n, tasks[t])
  PROVE  LET told == TellParent([tasks EXCEPT ![t] = n], n)
         IN  /\ TasksRight(told, "run") /\ told[t] = n /\ t \in OthersOf(told)
             /\ TasksRight(Ends(told, t), "run") /\ TasksRight(Ends(told, t), "cancelled")
<1> DEFINE told == TellParent([tasks EXCEPT ![t] = n], n)
           e == [n EXCEPT !.state = "done"]
<1>1. /\ t \in OthersOf(tasks) /\ t \in DOMAIN tasks /\ tasks[t].state = "ready"
      /\ TaskMap(tasks) /\ tasks[t] \in TaskRecords /\ Shaped(t, tasks[t])
      /\ tasks[t].parent \in DOMAIN tasks /\ tasks[tasks[t].parent].state = "waiting"
      /\ tasks[t].parent # t
  BY ReadyHere
<1>2. TasksRight(tasks, "run")
  BY DEF TreeInv
<1>3. n \in TaskRecords /\ n.parent = tasks[t].parent /\ (~n.xo) \in BOOLEAN
  BY DEF Shifted, TaskRecords
<1>4. Replaced(told, tasks, t, n)
  <2>1. CASE n.split \/ n.isRoot
    BY <1>1, <1>3, <2>1, ReplacedOne DEF TellParent
  <2>2. CASE ~(n.split \/ n.isRoot)
    <3>1. told = SetOdd([tasks EXCEPT ![t] = n], n, ~n.xo)
      BY <2>2 DEF TellParent
    <3> HIDE DEF told
    <3>2. n.parent \in DOMAIN tasks /\ n.parent # t /\ tasks[n.parent].state = "waiting"
      BY <1>1, <1>3
    <3> QED BY <1>1, <1>3, <3>1, <3>2, ReplacedTold
  <2> QED BY <2>1, <2>2
<1> HIDE DEF told
<1>5. Replaced(Ends(told, t), tasks, t, e)
  BY <1>1, <1>3, <1>4, ReplacedEnds
<1>6. /\ Settled(t, n, tasks[t]) /\ n.parent = tasks[t].parent
      /\ Settled(t, e, tasks[t]) /\ e.parent = tasks[t].parent
  BY <1>1, ShiftedSettled
<1> HIDE DEF e
<1>7. TasksRight(told, "run")
  BY <1>1, <1>2, <1>4, <1>6, ReplacedRight
<1>8. TasksRight(Ends(told, t), "run") /\ TasksRight(Ends(told, t), "cancelled")
  BY <1>1, <1>2, <1>5, <1>6, ReplacedRight
<1>9. told[t] = n /\ t \in OthersOf(told)
  BY <1>1, <1>4 DEF Replaced, OthersOf
<1> QED BY <1>7, <1>8, <1>9 DEF told

LEMMA MergeRangesRight ==
  ASSUME TreeInv, NEW t, MergeRanges(t) \/ MergeFails(t)
  PROVE  TreeInv'
<1> DEFINE m == Together(tasks[t])
           n == IF ~m.me.split /\ m.me.isRoot /\ m.me.xo THEN MoveBoth(m) ELSE m
           told == TellParent([tasks EXCEPT ![t] = n.me], n.me)
<1>1. Ready(t) /\ t[1] \in {"merge", "part"} /\ parStage = "run"
  BY DEF MergeRanges, MergeFails
<1>2. tasks[t] \in TaskRecords /\ tasks[t].state = "ready" /\ Shaped(t, tasks[t])
  BY <1>1, ReadyHere
<1>3. Shifted(m.me, tasks[t])
  BY <1>2, MovesTogether
<1>4. Shifted(n.me, tasks[t])
  <2>1. CASE ~m.me.split
    <3>1. Shifted(MoveBoth(m).me, m.me)
      BY <1>3, <2>1, MovesBoth DEF Shifted
    <3>2. Shifted(MoveBoth(m).me, tasks[t])
      BY <1>3, <3>1 DEF Shifted
    <3> QED BY <1>3, <3>2
  <2>2. CASE m.me.split
    BY <1>3, <2>2
  <2> QED BY <2>1, <2>2
<1>5. \/ tasks' = Ends(told, t) /\ parStage' \in {"run", "cancelled"}
      \/ /\ SizeOf(n.me) > MergeCutOff /\ parStage' = "run"
         /\ tasks' = SplitTask(told, t, n.me, CutsAt(n.me, IF n.me.xo THEN n.x ELSE n.z), "part")
  <2>1. SizeOf(n.me) \in Int
    BY <1>4, SizeIsInt DEF Shifted
  <2>2. SizeOf(n.me) = NX(n.me) + NY(n.me) /\ MergeCutOff \in Int
    BY CutOffsOK DEF SizeOf
  <2>3. CASE MergeFails(t)
    BY <2>3 DEF MergeFails
  <2>4. CASE MergeRanges(t)
    <3> HIDE DEF m, n, told
    <3>1. parStage' = "run"
      BY <1>1, <2>4 DEF MergeRanges
    <3>2. IF NX(n.me) + NY(n.me) <= MergeCutOff THEN tasks' = Ends(told, t)
          ELSE tasks' = SplitTask(told, t, n.me, CutsAt(n.me, IF n.me.xo THEN n.x ELSE n.z), "part")
      BY <2>4 DEF MergeRanges, m, n, told
    <3> QED BY <2>1, <2>2, <3>1, <3>2
  <2> QED BY <2>3, <2>4
<1> HIDE DEF m, n
<1>6. /\ TasksRight(told, "run") /\ told[t] = n.me /\ t \in OthersOf(told)
      /\ TasksRight(Ends(told, t), "run") /\ TasksRight(Ends(told, t), "cancelled")
  BY <1>1, <1>4, ToldRight
<1> HIDE DEF told
<1>7. CASE tasks' = Ends(told, t) /\ parStage' \in {"run", "cancelled"}
  BY <1>6, <1>7 DEF TreeInv, Stages
<1>8. CASE /\ SizeOf(n.me) > MergeCutOff /\ parStage' = "run"
           /\ tasks' = SplitTask(told, t, n.me, CutsAt(n.me, IF n.me.xo THEN n.x ELSE n.z), "part")
  <2> DEFINE cut == CutsAt(n.me, IF n.me.xo THEN n.x ELSE n.z)
  <2>1. told[t].state = "ready" /\ n.me \in TaskRecords /\ Shaped(t, n.me)
    <3>1. n.me \in TaskRecords /\ n.me.state = "ready"
      BY <1>2, <1>4 DEF Shifted
    <3>2. Shaped(t, n.me)
      BY <1>6 DEF TasksRight, Tree
    <3> QED BY <1>6, <3>1, <3>2
  <2>2. t[1] # "sort"
    BY <1>1
  <2>3. cut \in CutOf(n.me)
    BY <1>8, <2>1, <2>2, CutsInside
  <2>4. tasks' = SplitTask(told, t, told[t], cut, "part") /\ cut \in CutOf(told[t])
    BY <1>6, <1>8, <2>3
  <2> HIDE DEF cut
  <2>5. TasksRight(SplitTask(told, t, told[t], cut, "part"), "run")
    BY <1>6, <2>1, <2>2, <2>4, SplitRight
  <2> QED BY <1>8, <2>4, <2>5 DEF TreeInv, Stages
<1> QED BY <1>5, <1>7, <1>8

-----------------------------------------------------------------------------
(* A static merge, and the ends of tasks                                   *)

LEMMA MergeStaticRight ==
  ASSUME TreeInv, NEW t, MergeStatic(t)
  PROVE  TreeInv'
<1> DEFINE me == tasks[t]
           cut == CutsAt(me, xa)
<1>1. Ready(t) /\ t[1] = "static" /\ parStage = "run" /\ parStage' = "run"
  BY DEF MergeStatic
<1>2. /\ t \in OthersOf(tasks) /\ me \in TaskRecords /\ me.state = "ready" /\ Shaped(t, me)
  BY <1>1, ReadyHere
<1>3. \/ tasks' = Ends(tasks, t)
      \/ SizeOf(me) > MergeCutOff /\ tasks' = SplitTask(tasks, t, me, cut, "static")
  <2>1. SizeOf(me) \in Int /\ SizeOf(me) = NX(me) + NY(me) /\ MergeCutOff \in Int
    BY <1>2, SizeIsInt, CutOffsOK DEF SizeOf
  <2>2. IF NX(me) + NY(me) <= MergeCutOff THEN tasks' = Ends(tasks, t)
        ELSE tasks' = SplitTask(tasks, t, me, cut, "static")
    BY DEF MergeStatic
  <2> QED BY <2>1, <2>2
<1>4. CASE tasks' = Ends(tasks, t)
  BY <1>1, <1>4, EndsRight
<1>5. CASE SizeOf(me) > MergeCutOff /\ tasks' = SplitTask(tasks, t, me, cut, "static")
  <2>1. t[1] # "sort" /\ me.xo
    BY <1>1, <1>2 DEF Shaped
  <2>2. cut \in CutOf(me)
    BY <1>2, <1>5, <2>1, CutsInside
  <2>3. TasksRight(tasks, "run")
    BY <1>1 DEF TreeInv
  <2> HIDE DEF cut
  <2>4. TasksRight(SplitTask(tasks, t, me, cut, "static"), "run")
    BY <1>2, <2>1, <2>2, <2>3, SplitRight
  <2> QED BY <1>1, <1>5, <2>4 DEF TreeInv, Stages
<1> QED BY <1>3, <1>4, <1>5

LEMMA FinalizeRight ==
  ASSUME TreeInv, NEW t, Finalize(t)
  PROVE  TreeInv'
<1>1. /\ t \in DOMAIN tasks /\ tasks[t].state = "done" /\ tasks[t].parent # NoParent
      /\ tasks' = Returned(tasks, t) /\ parStage' = StageAfter(tasks, t, parStage)
  BY DEF Finalize, Returns, Returned, StageAfter
<1>2. TasksRight(Returned(tasks, t), StageAfter(tasks, t, parStage))
  BY <1>1, ReturnRight DEF TreeInv
<1>3. StageAfter(tasks, t, parStage) \in Stages
  BY DEF TreeInv, StageAfter, Stages
<1> QED BY <1>1, <1>2, <1>3 DEF TreeInv

LEMMA CancelTaskRight ==
  ASSUME TreeInv, NEW t, CancelTask(t)
  PROVE  TreeInv'
<1>1. /\ Ready(t)
      /\ tasks' = Returned(tasks, t) /\ parStage' = StageAfter(tasks, t, parStage)
  BY DEF CancelTask, Returns, Returned, StageAfter
<1>2. t \in DOMAIN tasks /\ tasks[t].state = "ready" /\ tasks[t].parent # NoParent
  <2>1. NoParent \notin DOMAIN tasks
    BY NoParentNoTask DEF TreeInv, TasksRight, TaskMap
  <2> QED BY <1>1, <2>1, ReadyHere
<1>3. TasksRight(Returned(tasks, t), StageAfter(tasks, t, parStage))
  BY <1>2, ReturnRight DEF TreeInv
<1>4. StageAfter(tasks, t, parStage) \in Stages
  BY DEF TreeInv, StageAfter, Stages
<1> QED BY <1>1, <1>3, <1>4 DEF TreeInv

LEMMA LosesWayRight ==
  ASSUME TreeInv, NEW t, LosesWay(t)
  PROVE  TreeInv'
<1>1. tasks' = tasks /\ parStage' = "crashed" /\ TasksRight(tasks, parStage)
  BY DEF LosesWay, TreeInv
<1>2. TasksRight(tasks, "crashed")
  BY <1>1 DEF TasksRight, Tree
<1> QED BY <1>1, <1>2 DEF TreeInv, Stages

-----------------------------------------------------------------------------
(* The first task                                                          *)

LEMMA FirstTaskRight ==
  ASSUME ParInit
  PROVE  TreeInv
<1> DEFINE n == par.n
           root == [Task(NoParent, 0, 0, 0, 0, 0) EXCEPT !.refs = 1, !.state = "waiting"]
           first == IF par.mode = "merge" THEN Task(Root, 0, par.middle, par.middle, n, 0)
                    ELSE [Task(Root, 0, n, 0, 0, 0) EXCEPT !.isRoot = TRUE]
           f == [t \in {Root, First} |-> IF t = Root THEN root ELSE first]
<1>1. /\ n \in Nat /\ n > 0 /\ par.middle \in 0 .. n /\ par.mode \in {"sort", "merge"}
      /\ tasks = f /\ parStage = "run"
  <2>1. PICK k \in ParLens, nsort \in Partials, mode \in {"sort", "merge"} :
          \E key \in [Range0(0, k) -> ParKeys], middle \in 0 .. k :
            /\ k > (IF mode = "sort" THEN SortCutOff ELSE MergeCutOff)
            /\ par = [mode |-> mode, n |-> k, nsort |-> nsort, middle |-> middle, key |-> key]
    BY DEF ParInit
  <2>2. k \in Nat /\ k > 0
    BY <2>1, CutOffsOK, ParLensOK
  <2>3. tasks = f /\ parStage = "run"
    BY DEF ParInit
  <2> QED BY <2>1, <2>2, <2>3
<1>2. /\ First = <<IF par.mode = "merge" THEN "static" ELSE "sort", 0, n>>
      /\ First \in TaskKinds \X Nat \X Nat /\ First # Root /\ First \in TaskNames
      /\ Root \in TaskNames /\ NoParent # Root /\ NoParent # First
  BY <1>1 DEF First, Root, NoParent, TaskNames, TaskKinds
<1>3. /\ root \in TaskRecords /\ root.refs = 1 /\ root.state = "waiting" /\ root.parent = NoParent
  BY DEF TaskRecords, Task
<1>4. /\ first \in TaskRecords /\ first.refs = 0 /\ first.state = "ready" /\ first.parent = Root
      /\ Shaped(First, first)
  <2>1. first \in TaskRecords /\ first.refs = 0 /\ first.state = "ready" /\ first.parent = Root
    <3>1. \A e, k, y \in Nat : \A b \in BOOLEAN :
            LET r == [parent |-> Root, refs |-> 0, state |-> "ready", xs |-> 0, xe |-> e,
                      ys |-> k, ye |-> y, zs |-> 0, xo |-> TRUE, yo |-> TRUE,
                      isRoot |-> b, split |-> FALSE, begun |-> FALSE]
            IN  r \in TaskRecords /\ r.refs = 0 /\ r.state = "ready" /\ r.parent = Root
      BY <1>1, <1>2 DEF TaskRecords
    <3>2. CASE par.mode = "merge"
      <4>1. first = [parent |-> Root, refs |-> 0, state |-> "ready", xs |-> 0, xe |-> par.middle,
                     ys |-> par.middle, ye |-> n, zs |-> 0, xo |-> TRUE, yo |-> TRUE,
                     isRoot |-> FALSE, split |-> FALSE, begun |-> FALSE]
        BY <3>2 DEF Task
      <4> HIDE DEF first
      <4>2. par.middle \in Nat /\ n \in Nat
        BY <1>1
      <4> QED BY <3>1, <4>1, <4>2
    <3>3. CASE par.mode # "merge"
      <4>1. first = [parent |-> Root, refs |-> 0, state |-> "ready", xs |-> 0, xe |-> n,
                     ys |-> 0, ye |-> 0, zs |-> 0, xo |-> TRUE, yo |-> TRUE,
                     isRoot |-> TRUE, split |-> FALSE, begun |-> FALSE]
        BY <3>3 DEF Task
      <4> HIDE DEF first
      <4>2. n \in Nat
        BY <1>1
      <4> QED BY <3>1, <4>1, <4>2
    <3> QED BY <3>2, <3>3
  <2>2. CASE par.mode = "merge"
    <3>1. /\ first.xs = 0 /\ first.xe = par.middle /\ first.ys = par.middle /\ first.ye = n
          /\ first.zs = 0 /\ ~first.split /\ first.xo = TRUE /\ First[1] = "static" /\ First[2] = 0
      BY <1>2, <2>2 DEF Task
    <3>2. SizeOf(first) = n
      BY <1>1, <3>1 DEF SizeOf, NX, NY
    <3> HIDE DEF first
    <3> QED BY <1>1, <1>2, <2>1, <3>1, <3>2 DEF Shaped
  <2>3. CASE par.mode # "merge"
    <3>1. /\ first.xs = 0 /\ first.xe = n /\ first.ys = 0 /\ first.ye = 0
          /\ first.zs = 0 /\ ~first.split /\ First[1] = "sort" /\ First[2] = 0
      BY <1>2, <2>3 DEF Task
    <3>2. SizeOf(first) = n
      BY <1>1, <3>1 DEF SizeOf, NX, NY
    <3> HIDE DEF first
    <3> QED BY <1>1, <1>2, <2>1, <3>1, <3>2 DEF Shaped
  <2> QED BY <2>1, <2>2, <2>3
<1>5. DOMAIN f = {Root, First} /\ f[Root] = root /\ f[First] = first /\ OthersOf(f) = {First}
  BY <1>2 DEF OthersOf
<1>6. TaskMap(f)
  <2>1. IsFiniteSet({Root} \cup {First})
    BY FS_Singleton, FS_AddElement
  <2>2. {Root, First} = {Root} \cup {First}
    OBVIOUS
  <2>3. IsFiniteSet(DOMAIN f)
    BY <1>5, <2>1, <2>2
  <2>4. f \in [DOMAIN f -> TaskRecords]
    BY <1>3, <1>4
  <2> QED BY <1>2, <1>5, <2>3, <2>4 DEF TaskMap
<1> HIDE DEF root, first, f
<1>7. Tree(f, "run")
  BY <1>2, <1>3, <1>4, <1>5 DEF Tree
<1>8. RefsMatch(f)
  <2>1. ChildrenOf(f, Root) = {First} /\ ChildrenOf(f, First) = {}
    BY <1>2, <1>3, <1>4, <1>5 DEF ChildrenOf
  <2>2. Cardinality({First}) = 1 /\ Cardinality({}) = 0
    BY FS_Singleton, FS_EmptySet
  <2> QED BY <1>3, <1>4, <1>5, <2>1, <2>2 DEF RefsMatch
<1>9. Nested(f)
  <2>1. f[First].state # "waiting"
    BY <1>4, <1>5
  <2> QED BY <1>5, <2>1 DEF Nested
<1> QED BY <1>1, <1>6, <1>7, <1>8, <1>9 DEF TreeInv, Stages, TasksRight

LEMMA TreeInvNext ==
  ASSUME TreeInv, [ParNext]_parVars
  PROVE  TreeInv'
<1>1. CASE UNCHANGED parVars
  BY <1>1 DEF parVars, TreeInv
<1>2. ASSUME NEW t \in DOMAIN tasks, TaskStep(t) \/ SortFails(t) \/ MergeFails(t) \/ StaticFails(t)
      PROVE  TreeInv'
  <2>1. CASE SortLeaf(t) \/ StaticFails(t)
    <3>1. /\ Ready(t) /\ parStage \in {"run", "cancelled"} /\ tasks' = Ends(tasks, t)
          /\ parStage' \in {parStage, "cancelled"}
      BY <2>1 DEF SortLeaf, StaticFails
    <3> QED BY <3>1, EndsRight
  <2>2. CASE SortHalves(t)
    BY <2>2, SortHalvesRight
  <2>3. CASE SortFails(t)
    BY <2>3, SortFailsRight
  <2>4. CASE MergeSkips(t)
    BY <2>4, MergeSkipsRight
  <2>5. CASE MergeRanges(t) \/ MergeFails(t)
    BY <2>5, MergeRangesRight
  <2>6. CASE MergeStatic(t)
    BY <2>6, MergeStaticRight
  <2>7. CASE LosesWay(t)
    BY <2>7, LosesWayRight
  <2>8. CASE Finalize(t)
    BY <2>8, FinalizeRight
  <2>9. CASE CancelTask(t)
    BY <2>9, CancelTaskRight
  <2> QED BY <1>2, <2>1, <2>2, <2>3, <2>4, <2>5, <2>6, <2>7, <2>8, <2>9 DEF TaskStep
<1> QED BY <1>1, <1>2 DEF ParNext

-----------------------------------------------------------------------------
(* What the tree promises                                                  *)

LEMMA ChildrenAreCounted ==
  ASSUME TreeInv
  PROVE  ChildrenCounted
<1>1. /\ TaskMap(tasks) /\ Tree(tasks, parStage) /\ RefsMatch(tasks)
      /\ NoParent \notin DOMAIN tasks
  BY NoParentNoTask DEF TreeInv, TasksRight, TaskMap
<1>2. \A t : Children(t) = ChildrenOf(tasks, t)
  BY DEF Children, ChildrenOf
<1>3. parStage \in {"run", "ended"} => NoneLost(tasks)
  BY <1>1 DEF Tree, NoneLost
<1>4. ASSUME NEW t \in DOMAIN tasks, tasks[t].state = "waiting", parStage = "run"
      PROVE  Children(t) # {}
  <2>1. tasks[t].refs > 0
    BY <1>1, <1>4 DEF Tree, Shaped, OthersOf
  <2>2. tasks[t].refs = Cardinality(ChildrenOf(tasks, t))
    BY <1>1, <1>3, <1>4 DEF RefsMatch
  <2> QED BY <1>2, <2>1, <2>2, FS_EmptySet
<1> QED BY <1>1, <1>2, <1>3, <1>4 DEF ChildrenCounted, RefsMatch

\* On which side a task reads and on which it writes.
LEMMA SidesOf ==
  ASSUME NEW t, tasks[t] \in TaskRecords, Shaped(t, tasks[t])
  PROVE  IF tasks[t].split /\ ~tasks[t].xo
         THEN XSlots(t) = OutOf(t, tasks[t]) /\ ZSlots(t) = InOf(tasks[t])
         ELSE XSlots(t) \subseteq InOf(tasks[t]) /\ ZSlots(t) \subseteq OutOf(t, tasks[t])
<1> DEFINE r == tasks[t]
<1>1. t[1] # "sort" => Range0(r.zs, r.zs + NX(r) + NY(r)) = OutOf(t, r)
  <2> SUFFICES ASSUME t[1] # "sort"
               PROVE  r.zs + NX(r) + NY(r) = t[2] + SizeOf(r) /\ r.zs = t[2]
    BY DEF OutOf
  <2>1. r.zs = t[2] /\ r.zs \in Int /\ NX(r) \in Int /\ NY(r) \in Int
    BY DEF Shaped, TaskRecords, NX, NY
  <2> QED BY <2>1 DEF SizeOf
<1>2. CASE r.split /\ ~r.xo
  BY <1>1, <1>2 DEF Shaped, XSlots, ZSlots, InOf
<1>3. CASE ~(r.split /\ ~r.xo)
  BY <1>1, <1>3 DEF Shaped, XSlots, ZSlots, InOf
<1> QED BY <1>2, <1>3

LEMMA TasksAreApart ==
  ASSUME TreeInv
  PROVE  TasksApart
<1> SUFFICES ASSUME parStage = "run", NEW t \in DOMAIN tasks, NEW u \in DOMAIN tasks \ {t},
                    Ready(t), Ready(u)
             PROVE  ZSlots(t) \cap ZSlots(u) = {} /\ XSlots(t) \cap XSlots(u) = {}
  BY DEF TasksApart
<1> DEFINE r == tasks[t]  s == tasks[u]
<1>1. /\ t \in OthersOf(tasks) /\ u \in OthersOf(tasks) /\ Shaped(t, r) /\ Shaped(u, s)
      /\ r \in TaskRecords /\ s \in TaskRecords
      /\ r.state = "ready" /\ s.state = "ready" /\ Nested(tasks)
  BY ReadyHere DEF TreeInv, TasksRight
<1>2. Apart(t, r, u, s)
  BY <1>1 DEF Nested, PairNested
<1>3. OutOf(t, r) \cap OutOf(u, s) = {} /\ InOf(r) \cap InOf(s) = {}
  BY <1>2 DEF Apart
<1>4. /\ IF r.split /\ ~r.xo THEN XSlots(t) = OutOf(t, r) /\ ZSlots(t) = InOf(r)
         ELSE XSlots(t) \subseteq InOf(r) /\ ZSlots(t) \subseteq OutOf(t, r)
      /\ IF s.split /\ ~s.xo THEN XSlots(u) = OutOf(u, s) /\ ZSlots(u) = InOf(s)
         ELSE XSlots(u) \subseteq InOf(s) /\ ZSlots(u) \subseteq OutOf(u, s)
  BY <1>1, SidesOf
<1> HIDE DEF r, s
<1>5. CASE r.split /\ s.split /\ r.xo = s.xo
  BY <1>3, <1>4, <1>5
<1>6. CASE OutOf(t, r) \cap InOf(s) = {} /\ InOf(r) \cap OutOf(u, s) = {}
  BY <1>3, <1>4, <1>6
<1> QED BY <1>2, <1>5, <1>6 DEF Apart

\* The smallest task that waits has a child, which is smaller.
LEMMA SomebodyCanRun ==
  ASSUME TreeInv
  PROVE  SomebodyRuns
<1> SUFFICES ASSUME parStage \in {"run", "cancelled"}, \A t \in DOMAIN tasks : tasks[t].state = "waiting"
             PROVE  FALSE
  BY DEF SomebodyRuns
<1>1. /\ TaskMap(tasks) /\ Tree(tasks, parStage) /\ RefsMatch(tasks)
      /\ NoParent \notin DOMAIN tasks
  BY NoParentNoTask DEF TreeInv, TasksRight, TaskMap
<1>2. NoneLost(tasks)
  BY <1>1 DEF NoneLost, Tree, OthersOf
<1>3. ASSUME NEW t \in DOMAIN tasks
      PROVE  \E c \in OthersOf(tasks) : tasks[c].parent = t
  <2>1. tasks[t].refs > 0
    BY <1>1 DEF Tree, Shaped, OthersOf
  <2>2. tasks[t].refs = Cardinality(ChildrenOf(tasks, t))
    BY <1>1, <1>2 DEF RefsMatch
  <2>3. PICK c : c \in ChildrenOf(tasks, t)
    BY <2>1, <2>2, FS_EmptySet
  <2>4. c \in DOMAIN tasks /\ tasks[c].parent = t /\ c # Root
    BY <1>1, <2>3 DEF ChildrenOf, Tree
  <2> QED BY <2>4 DEF OthersOf
<1> DEFINE sizes == {SizeOf(tasks[t]) : t \in OthersOf(tasks)}
<1>4. \A t \in OthersOf(tasks) : SizeOf(tasks[t]) \in Nat
  <2> SUFFICES ASSUME NEW t \in OthersOf(tasks)
               PROVE  SizeOf(tasks[t]) \in Nat
    OBVIOUS
  <2>1. tasks[t] \in TaskRecords /\ SizeOf(tasks[t]) > 0
    BY <1>1 DEF TaskMap, OthersOf, Tree, Shaped
  <2> QED BY <2>1, SizeIsInt
<1>5. sizes \in SUBSET Nat /\ sizes # {}
  <2>1. Root \in DOMAIN tasks
    BY <1>1 DEF Tree
  <2> QED BY <1>3, <1>4, <2>1
<1>6. PICK n \in sizes : \A k \in sizes : n <= k
  BY <1>5, Least
<1>7. PICK w \in OthersOf(tasks) : n = SizeOf(tasks[w])
  BY <1>6
<1>8. w \in DOMAIN tasks
  BY DEF OthersOf
<1>9. PICK c \in OthersOf(tasks) : tasks[c].parent = w
  BY <1>3, <1>8
<1>10. SizeOf(tasks[c]) < SizeOf(tasks[w])
  BY <1>1, <1>9 DEF Tree, Inside
<1>11. SizeOf(tasks[c]) \in sizes /\ SizeOf(tasks[c]) \in Nat /\ n \in Nat
  BY <1>4, <1>7
<1> QED BY <1>6, <1>7, <1>10, <1>11

\* Whichever way the tasks of a parallel sort or merge run, are split and
\* return: each counts its children, no two that may run at once touch the same
\* slot, and as long as the caller waits some task is there to be executed.
\* When memory has run out and the group is cancelled, a task counts its
\* children at least, and until a null pointer is followed or the caller gets
\* the exception some task is there to be cancelled.
THEOREM SortTasksRight == ParSpec => []TasksInv
<1>1. ParInit => TreeInv
  BY FirstTaskRight
<1>2. TreeInv /\ [ParNext]_parVars => TreeInv'
  BY TreeInvNext
<1>3. TreeInv => TasksInv
  BY ChildrenAreCounted, TasksAreApart, SomebodyCanRun DEF TasksInv
<1> QED BY <1>1, <1>2, <1>3, PTL DEF ParSpec

-----------------------------------------------------------------------------
(* The searches that share an atomic variable                              *)

\* Where a block may find something
HitAt(k) ==
  LET p == find.p  q == find.q
  IN  CASE find.name \in {"find_if", "any_of"} -> At(p, k) = 0
        [] find.name = "search" -> Occurs(k)
        [] find.name \in {"find_end", "search_n"} -> q # <<>> /\ Occurs(k)
        [] find.name = "is_heap_until" -> Disordered(p, k)
        [] OTHER -> At(p, k) # At(q, k)

\* Blocks, and those that have begun and end at n
BlockRecords == [last : Nat, stage : {"ready", "load", "swap", "hit", "done"},
                 hit : Nat, old : Int]
BegunUntil(n) == [last : {n}, stage : {"load", "swap", "hit", "done"}, hit : Nat, old : Int]
USE DEF BlockRecords, BegunUntil

\* A call, and the range cut into blocks
CallOK ==
  /\ find.name \in (FindCalls \cup OrCalls) \ {"includes"}
  /\ find.p \in Seq([key : Int, tag : Nat]) /\ find.q \in Seq([key : Int, tag : Nat])
  /\ Comes(find.name, find.p, find.q)
  /\ find.n = CutLen(find.name, find.p, find.q) /\ find.n \in Nat
RangeCut ==
  /\ blocks \in [DOMAIN blocks -> BlockRecords]
  /\ DOMAIN blocks \subseteq Nat
  /\ \A i \in DOMAIN blocks : i < blocks[i].last /\ blocks[i].last <= find.n
  /\ \A i, j \in DOMAIN blocks : i < j => blocks[i].last <= j
  /\ \A k \in 0 .. find.n - 1 : \E i \in DOMAIN blocks : i <= k /\ k < blocks[i].last

HasNone(i) == \A k \in i .. blocks[i].last - 1 : ~HitAt(k)
NoneBetter(i, x) == \A k \in i .. blocks[i].last - 1 : HitAt(k) => ~Comp(k, x)

\* Blocks that search for an extremum
BlockRight(i) ==
  LET b == blocks[i]
  IN  /\ b.stage # "hit"
      /\ b.stage = "ready" => b.hit = b.last
      /\ b.stage \in {"load", "swap"} => b.hit # b.last
      /\ b.hit # b.last => b.hit \in i .. b.last - 1 /\ HitAt(b.hit) /\ NoneBetter(i, b.hit)
      /\ b.stage = "swap" => Comp(b.hit, b.old)
      /\ b.stage = "done" => NoneBetter(i, shared)
FoundBySome ==
  \/ shared = InitialDist
  \/ \E i \in DOMAIN blocks : shared = blocks[i].hit /\ blocks[i].hit # blocks[i].last
Improving ==
  find.name \in FindCalls =>
    shared \in Int /\ FoundBySome /\ \A i \in DOMAIN blocks : BlockRight(i)

\* Blocks that look for any hit
Reporting ==
  find.name \in OrCalls =>
    /\ shared \in {0, 1}
    /\ shared = 1 => \E i \in DOMAIN blocks : ~HasNone(i)
    /\ \A i \in DOMAIN blocks :
         /\ blocks[i].stage \in {"ready", "hit", "done"}
         /\ blocks[i].stage = "hit" => ~HasNone(i)
         /\ blocks[i].stage = "done" /\ shared = 0 => HasNone(i)

SearchRight == CallOK /\ RangeCut /\ Improving /\ Reporting
FIInv == find.name # "includes" => SearchRight

-----------------------------------------------------------------------------
(* The bricks                                                              *)

\* The first of the places that are in a set, and the last one
LEMMA Foremost ==
  ASSUME NEW i \in Nat, NEW j \in Nat, NEW S \in SUBSET (i .. j - 1), S # {}
  PROVE  FirstOf(S, j) \in S /\ \A l \in S : FirstOf(S, j) <= l
<1>1. \E k \in S : \A l \in S : k <= l
  <2>1. S \in SUBSET Nat
    OBVIOUS
  <2> QED BY <2>1, Least
<1> QED BY <1>1 DEF FirstOf

LEMMA Hindmost ==
  ASSUME NEW i \in Nat, NEW j \in Nat, NEW S \in SUBSET (i .. j - 1), S # {}
  PROVE  LastOf(S, j) \in S /\ \A l \in S : LastOf(S, j) >= l
<1>1. \E k \in S : \A l \in S : l <= k
  <2>1. S \in SUBSET (0 .. j)
    OBVIOUS
  <2> QED BY <2>1, Greatest
<1>2. PICK k \in S : \A l \in S : l <= k
  BY <1>1
<1>3. \A l \in S : k >= l
  BY <1>2
<1> QED BY <1>3 DEF LastOf

\* A search for nothing succeeds anywhere.
LEMMA EmptySought ==
  ASSUME find.p \in Seq([key : Int, tag : Nat]), find.q = <<>>,
         NEW k \in Nat, k <= Len(find.p)
  PROVE  Occurs(k)
<1>1. SubSeq(find.p, k + 1, k) = <<>> /\ Len(find.q) = 0 /\ k + 0 = k /\ Len(find.p) \in Nat
  OBVIOUS
<1>2. SubSeq(find.p, k + 1, k + Len(find.q)) = find.q
  BY <1>1
<1>3. Alike(SubSeq(find.p, k + 1, k + Len(find.q))) = Alike(find.q)
  BY <1>2
<1> QED BY <1>1, <1>3 DEF Occurs

\* What a brick returns is the best hit of its block, or the end of the block
\* when it has none.
LEMMA BrickRight ==
  ASSUME CallOK, find.name \in FindCalls,
         NEW i \in Nat, NEW j \in Nat, i < j, j <= find.n
  PROVE  \/ FindBrick(i, j) = j /\ \A k \in i .. j - 1 : ~HitAt(k)
         \/ /\ FindBrick(i, j) \in i .. j - 1 /\ HitAt(FindBrick(i, j))
            /\ \A k \in i .. j - 1 : HitAt(k) => ~Comp(k, FindBrick(i, j))
<1> DEFINE hits == {k \in i .. j - 1 : HitAt(k)}
<1>1. hits # {} => FirstOf(hits, j) \in hits /\ \A l \in hits : FirstOf(hits, j) <= l
  BY Foremost
<1>2. hits # {} => LastOf(hits, j) \in hits /\ \A l \in hits : LastOf(hits, j) >= l
  BY Hindmost
<1>3. CASE find.name # "find_end" /\ FindBrick(i, j) = FirstOf(hits, j)
  <2>1. \A k, l : Comp(k, l) <=> k < l
    BY <1>3 DEF Comp, Backward
  <2>2. CASE hits = {}
    BY <1>3, <2>2 DEF FirstOf
  <2>3. CASE hits # {}
    BY <1>1, <1>3, <2>1, <2>3
  <2> QED BY <2>2, <2>3
<1>4. CASE find.name = "find_end" /\ FindBrick(i, j) = LastOf(hits, j)
  <2>1. \A k, l : Comp(k, l) <=> k > l
    BY <1>4 DEF Comp, Backward
  <2>2. CASE hits = {}
    BY <1>4, <2>2 DEF LastOf
  <2>3. CASE hits # {}
    BY <1>2, <1>4, <2>1, <2>3
  <2> QED BY <2>2, <2>3
<1>5. CASE find.name = "find_if"
  <2>1. hits = {k \in i .. j - 1 : At(find.p, k) = 0}
    BY <1>5 DEF HitAt
  <2>2. FindBrick(i, j) = FirstOf(hits, j)
    BY <1>5, <2>1 DEF FindBrick
  <2> QED BY <1>3, <1>5, <2>2
<1>6. CASE find.name = "is_heap_until"
  <2>1. hits = {k \in i .. j - 1 : Disordered(find.p, k)}
    BY <1>6 DEF HitAt
  <2>2. FindBrick(i, j) = FirstOf(hits, j)
    BY <1>6, <2>1 DEF FindBrick
  <2> QED BY <1>3, <1>6, <2>2
<1>7. CASE find.name \in {"mismatch", "lexicographical_compare"}
  <2>1. hits = {k \in i .. j - 1 : At(find.p, k) # At(find.q, k)}
    BY <1>7 DEF HitAt
  <2>2. FindBrick(i, j) = FirstOf(hits, j)
    BY <1>7, <2>1 DEF FindBrick
  <2> QED BY <1>3, <1>7, <2>2
<1> DEFINE starts == {k \in i .. j - 1 : Occurs(k)}
<1>8. CASE find.name \in {"search", "find_end", "search_n"} /\ find.q # <<>>
  <2>1. hits = starts
    BY <1>8 DEF HitAt
  <2>2. \A first \in BOOLEAN :
          FindSubrange(find.p, find.q, i, j, first)
            = IF first THEN FirstOf(hits, j) ELSE LastOf(hits, j)
    BY <1>8, <2>1 DEF FindSubrange, Occurs
  <2>3. CASE find.name = "search"
    BY <1>3, <2>2, <2>3 DEF FindBrick
  <2>4. CASE find.name = "search_n"
    BY <1>3, <1>8, <2>2, <2>4 DEF FindBrick, FindRun
  <2>5. CASE find.name = "find_end"
    BY <1>4, <2>2, <2>5 DEF FindBrick
  <2> QED BY <1>8, <2>3, <2>4, <2>5
<1>9. CASE find.name \in {"search", "find_end", "search_n"} /\ find.q = <<>>
  <2>1. CASE find.name = "search"
    <3>1. FindBrick(i, j) = i
      BY <1>9, <2>1 DEF FindBrick, FindSubrange
    <3>2. i \in i .. j - 1 /\ HitAt(i)
      <4>1. find.n = Len(find.p)
        BY <2>1 DEF CallOK, CutLen
      <4>2. Occurs(i)
        BY <1>9, <4>1, EmptySought DEF CallOK
      <4> QED BY <2>1, <4>2 DEF HitAt
    <3>3. \A k \in i .. j - 1 : ~Comp(k, i)
      BY <2>1 DEF Comp, Backward
    <3> QED BY <3>1, <3>2, <3>3
  <2>2. CASE find.name \in {"find_end", "search_n"}
    <3>1. FindBrick(i, j) = j /\ \A k \in i .. j - 1 : ~HitAt(k)
      BY <1>9, <2>2 DEF FindBrick, FindSubrange, FindRun, HitAt
    <3> QED BY <3>1
  <2> QED BY <1>9, <2>1, <2>2
<1> QED BY <1>5, <1>6, <1>7, <1>8, <1>9 DEF CallOK, FindCalls

-----------------------------------------------------------------------------
(* The beginning                                                           *)

\* Blocks that begin with 0 and end where others begin leave no place out.
LEMMA CutCovers ==
  ASSUME NEW n \in Nat, NEW starts \in SUBSET Nat, n > 0 => 0 \in starts,
         NEW last,
         \A i \in starts : last[i] \in Nat /\ i < last[i] /\ last[i] \in starts \cup {n},
         NEW k \in 0 .. n - 1
  PROVE  \E i \in starts : i <= k /\ k < last[i]
<1> DEFINE before == {i \in starts : i <= k}
<1>1. k \in Nat /\ 0 <= k /\ 0 < n /\ k < n
  OBVIOUS
<1>2. before \in SUBSET (0 .. k) /\ 0 \in before
  <2>1. \A i \in before : i \in Nat /\ 0 <= i /\ i <= k
    OBVIOUS
  <2>2. 0 \in starts
    BY <1>1
  <2>3. 0 \in before
    BY <1>1, <2>2
  <2>4. \A i \in before : i \in 0 .. k
    BY <1>1, <2>1
  <2>5. before \in SUBSET (0 .. k)
    BY <2>4
  <2> QED BY <2>3, <2>5
<1>3. PICK i \in before : \A j \in before : j <= i
  BY <1>1, <1>2, Greatest
<1>4. i \in Nat /\ i <= k /\ i \in starts
  BY <1>3
<1>5. last[i] \in Nat /\ i < last[i] /\ last[i] \in starts \cup {n}
  BY <1>4
<1>6. ASSUME last[i] <= k PROVE FALSE
  <2>1. last[i] \in before
    BY <1>1, <1>5, <1>6
  <2>2. last[i] <= i
    BY <1>3, <2>1
  <2> QED BY <1>4, <1>5, <2>2
<1> QED BY <1>1, <1>4, <1>5, <1>6

\* Cutting a range at any of its places, the first one among them
LEMMA CutAnywhere ==
  ASSUME NEW n \in Nat, NEW starts \in SUBSET (0 .. n - 1), n > 0 <=> 0 \in starts,
         NEW last, last = [i \in starts |->
           LET later == {j \in starts : j > i}
           IN  IF later = {} THEN n ELSE CHOOSE j \in later : \A k \in later : j <= k]
  PROVE  /\ \A i \in starts : last[i] \in Nat /\ i < last[i] /\ last[i] <= n
         /\ \A i, j \in starts : i < j => last[i] <= j
         /\ \A k \in 0 .. n - 1 : \E i \in starts : i <= k /\ k < last[i]
<1>1. ASSUME NEW i \in starts
      PROVE  /\ last[i] \in Nat /\ i < last[i] /\ last[i] <= n
             /\ \A j \in starts : i < j => last[i] <= j
             /\ last[i] \in starts \cup {n}
  <2> DEFINE later == {j \in starts : j > i}
  <2>1. CASE later = {}
    <3>1. last[i] = n
      BY <2>1
    <3> QED BY <2>1, <3>1
  <2>2. CASE later # {}
    <3>1. last[i] = FirstOf(later, n)
      BY <2>2 DEF FirstOf
    <3>2. later \in SUBSET (0 .. n - 1)
      OBVIOUS
    <3>3. FirstOf(later, n) \in later /\ \A l \in later : FirstOf(later, n) <= l
      BY <2>2, <3>2, Foremost
    <3> QED BY <3>1, <3>2, <3>3
  <2> QED BY <2>1, <2>2
<1>2. ASSUME NEW k \in 0 .. n - 1
      PROVE  \E i \in starts : i <= k /\ k < last[i]
  <2>1. starts \in SUBSET Nat
    OBVIOUS
  <2>2. n > 0 => 0 \in starts
    OBVIOUS
  <2>3. \A i \in starts : last[i] \in Nat /\ i < last[i] /\ last[i] \in starts \cup {n}
    BY <1>1
  <2> QED BY <2>1, <2>2, <2>3, CutCovers
<1> QED BY <1>1, <1>2

\* Elements have keys that are numbers.
LEMMA InputsAreSequences ==
  ASSUME NEW n \in Nat, NEW s \in Inputs(n)
  PROVE  s \in Seq([key : Int, tag : Nat]) /\ Len(s) = n
<1>1. PICK k \in [1 .. n -> SortKeys] : s = [i \in 1 .. n |-> [key |-> k[i], tag |-> i]]
  BY DEF Inputs
<1>2. \A i \in 1 .. n : k[i] \in SortKeys
  OBVIOUS
<1>3. \A x \in SortKeys : x \in Int
  BY KeysAreNumbers
<1>4. \A i \in 1 .. n : i \in Nat
  OBVIOUS
<1>5. \A i \in 1 .. n : [key |-> k[i], tag |-> i] \in [key : Int, tag : Nat]
  BY <1>2, <1>3, <1>4
<1>6. s \in [1 .. n -> [key : Int, tag : Nat]]
  BY <1>1, <1>5
<1>7. s \in Seq([key : Int, tag : Nat])
  <2>1. \A S : s \in [1 .. n -> S] => s \in Seq(S)
    BY SeqDef
  <2> QED BY <1>6, <2>1
<1>8. Len(s) = n
  BY <1>6, <1>7
<1> QED BY <1>7, <1>8

\* At the beginning nothing is found.
LEMMA InitFI == FindInit => FIInv
<1> SUFFICES ASSUME FindInit, find.name # "includes"
             PROVE  SearchRight
  BY DEF FIInv
<1>1. PICK name \in FindCalls \cup OrCalls, n \in 0 .. FindLen, m \in 0 .. SoughtLen :
        \E p \in Inputs(n), q \in Inputs(m) :
          /\ Comes(name, p, q)
          /\ find = [name |-> name, p |-> IF name = "includes" THEN FromLower(p, q) ELSE p,
                     q |-> q, n |-> CutLen(name, p, q)]
          /\ \E starts \in SUBSET (0 .. find.n - 1) :
               /\ Cardinality(starts) <= MaxBlocks /\ (find.n > 0 <=> 0 \in starts)
               /\ blocks = [i \in starts |->
                    LET later == {j \in starts : j > i}
                    IN  Block(IF later = {} THEN find.n
                              ELSE CHOOSE j \in later : \A k \in later : j <= k)]
          /\ shared = IF name \in OrCalls THEN 0 ELSE InitialDist
  BY DEF FindInit
<1>2. PICK p \in Inputs(n), q \in Inputs(m) :
          /\ Comes(name, p, q)
          /\ find = [name |-> name, p |-> IF name = "includes" THEN FromLower(p, q) ELSE p,
                     q |-> q, n |-> CutLen(name, p, q)]
          /\ \E starts \in SUBSET (0 .. find.n - 1) :
               /\ Cardinality(starts) <= MaxBlocks /\ (find.n > 0 <=> 0 \in starts)
               /\ blocks = [i \in starts |->
                    LET later == {j \in starts : j > i}
                    IN  Block(IF later = {} THEN find.n
                              ELSE CHOOSE j \in later : \A k \in later : j <= k)]
          /\ shared = IF name \in OrCalls THEN 0 ELSE InitialDist
  BY <1>1
<1>3. find.name = name /\ find.p = p /\ find.q = q /\ find.n = CutLen(name, p, q)
  BY <1>2
<1>4. CallOK
  <2>1. /\ p \in Seq([key : Int, tag : Nat]) /\ Len(p) \in Nat
        /\ q \in Seq([key : Int, tag : Nat]) /\ Len(q) \in Nat
    BY FindOK, InputsAreSequences
  <2>2. CutLen(name, p, q) \in Nat
    <3>1. name = "lexicographical_compare" => Len(p) > 0 /\ Len(q) > 0
      BY <1>2, <2>1 DEF Comes
    <3> QED BY <2>1, <3>1 DEF CutLen, Within
  <2> QED BY <1>2, <1>3, <2>1, <2>2 DEF CallOK
<1>5. PICK starts \in SUBSET (0 .. find.n - 1) :
        /\ find.n > 0 <=> 0 \in starts
        /\ blocks = [i \in starts |->
             LET later == {j \in starts : j > i}
             IN  Block(IF later = {} THEN find.n
                       ELSE CHOOSE j \in later : \A k \in later : j <= k)]
  BY <1>2
<1> DEFINE last == [i \in starts |->
             LET later == {j \in starts : j > i}
             IN  IF later = {} THEN find.n ELSE CHOOSE j \in later : \A k \in later : j <= k]
<1>6. /\ \A i \in starts : last[i] \in Nat /\ i < last[i] /\ last[i] <= find.n
      /\ \A i, j \in starts : i < j => last[i] <= j
      /\ \A k \in 0 .. find.n - 1 : \E i \in starts : i <= k /\ k < last[i]
  <2>1. find.n \in Nat
    BY <1>4 DEF CallOK
  <2> QED BY <1>5, <2>1, CutAnywhere
<1>7. blocks = [i \in starts |-> Block(last[i])]
  BY <1>5
<1> HIDE DEF last
<1>8. blocks = [i \in starts |-> [last |-> last[i], stage |-> "ready",
                                  hit |-> last[i], old |-> last[i]]]
  BY <1>7 DEF Block
<1>9. RangeCut
  <2>1. DOMAIN blocks = starts /\ starts \subseteq Nat
    BY <1>5, <1>8
  <2>2. \A i \in starts : blocks[i].last = last[i]
    BY <1>8
  <2>3. \A i \in starts :
          blocks[i] \in BlockRecords
    BY <1>6, <1>8
  <2>4. blocks \in [starts -> BlockRecords]
    BY <1>8, <2>3
  <2> QED BY <1>6, <2>1, <2>2, <2>4 DEF RangeCut
<1>10. shared = IF find.name \in OrCalls THEN 0 ELSE InitialDist
  BY <1>2, <1>3
<1>11. Improving
  <2>1. find.name \in FindCalls => find.name \notin OrCalls
    BY DEF FindCalls, OrCalls
  <2>2. InitialDist \in Int
    BY <1>4 DEF CallOK, InitialDist
  <2> QED BY <1>8, <1>10, <2>1, <2>2 DEF Improving, FoundBySome, BlockRight
<1>12. Reporting
  BY <1>8, <1>10 DEF Reporting
<1> QED BY <1>4, <1>9, <1>11, <1>12 DEF SearchRight

-----------------------------------------------------------------------------
(* The steps                                                               *)

\* What a step of one block changes
LEMMA OneBlock ==
  ASSUME SearchRight, NEW i \in DOMAIN blocks, BlockStep(i)
  PROVE  /\ find' = find
         /\ \E b \in BegunUntil(blocks[i].last) :
              blocks' = [blocks EXCEPT ![i] = b]
<1>1. blocks[i] \in BlockRecords
  BY DEF SearchRight, RangeCut
<1>2. i \in Nat /\ i < blocks[i].last /\ blocks[i].last <= find.n /\ find.n \in Nat
  BY DEF SearchRight, RangeCut, CallOK
<1>3. shared \in Int
  BY DEF SearchRight, CallOK, Improving, Reporting
<1>4. CASE Search(i)
  <2>1. FindBrick(i, blocks[i].last) \in Nat
    BY <1>1, <1>2, <1>4, BrickRight DEF Search, SearchRight
  <2> DEFINE b == IF Comp(i, shared) /\ FindBrick(i, blocks[i].last) # blocks[i].last
                    THEN [blocks[i] EXCEPT !.stage = "load", !.hit = FindBrick(i, blocks[i].last)]
                    ELSE [blocks[i] EXCEPT !.stage = "done"]
  <2>3. blocks' = [blocks EXCEPT ![i] = b]
    BY <1>4 DEF Search
  <2>4. b \in BegunUntil(blocks[i].last)
    BY <1>1, <2>1
  <2> QED BY <1>4, <2>3, <2>4 DEF Search
<1>5. CASE LoadOld(i)
  <2> DEFINE b == IF Comp(blocks[i].hit, shared)
                  THEN [blocks[i] EXCEPT !.old = shared, !.stage = "swap"]
                  ELSE [blocks[i] EXCEPT !.stage = "done"]
  <2>1. blocks' = [blocks EXCEPT ![i] = b]
    BY <1>5 DEF LoadOld
  <2>2. b \in BegunUntil(blocks[i].last)
    BY <1>1, <1>3
  <2> QED BY <1>5, <2>1, <2>2 DEF LoadOld
<1>6. CASE SwapHit(i)
  <2> DEFINE b == [blocks[i] EXCEPT !.stage = "load", !.old = blocks[i].last]
  <2>1. blocks' = [blocks EXCEPT ![i] = b]
    BY <1>6 DEF SwapHit
  <2>2. b \in BegunUntil(blocks[i].last)
    <3>1. blocks[i].last \in Int
      BY <1>1
    <3>2. \A z \in Int : [blocks[i] EXCEPT !.stage = "load", !.old = z]
                            \in BegunUntil(blocks[i].last)
      BY <1>1
    <3> HIDE DEF BegunUntil
    <3> QED BY <3>1, <3>2
  <2> QED BY <1>6, <2>1, <2>2 DEF SwapHit
<1>7. CASE LookFor(i) \/ ReportHit(i) \/ Cancelled(i)
  <2>1. PICK s \in {"hit", "done"} : blocks' = [blocks EXCEPT ![i].stage = s]
    BY <1>7 DEF LookFor, ReportHit, Cancelled
  <2> DEFINE b == [blocks[i] EXCEPT !.stage = s]
  <2>2. blocks' = [blocks EXCEPT ![i] = b]
    BY <2>1
  <2>3. b \in BegunUntil(blocks[i].last)
    BY <1>1, <2>1
  <2> QED BY <1>7, <2>2, <2>3 DEF LookFor, ReportHit, Cancelled
<1> QED BY <1>4, <1>5, <1>6, <1>7 DEF BlockStep

\* The call and the cut stay.
LEMMA CallStays ==
  ASSUME SearchRight, NEW i \in DOMAIN blocks, BlockStep(i)
  PROVE  /\ find' = find /\ CallOK' /\ RangeCut' /\ DOMAIN blocks' = DOMAIN blocks
         /\ \A j \in DOMAIN blocks : /\ blocks'[j].last = blocks[j].last
                                     /\ j # i => blocks'[j] = blocks[j]
<1>1. find' = find
  BY OneBlock
<1>2. PICK b \in BegunUntil(blocks[i].last) :
        blocks' = [blocks EXCEPT ![i] = b]
  BY OneBlock
<1>3. blocks \in [DOMAIN blocks -> BlockRecords]
  BY DEF SearchRight, RangeCut
<1>4. b \in BlockRecords /\ b.last = blocks[i].last
  <2>1. blocks[i] \in BlockRecords
    BY <1>3
  <2> QED BY <2>1
<1>5. /\ DOMAIN blocks' = DOMAIN blocks /\ blocks' \in [DOMAIN blocks -> BlockRecords]
      /\ \A j \in DOMAIN blocks : /\ blocks'[j].last = blocks[j].last
                                  /\ j # i => blocks'[j] = blocks[j]
  BY <1>2, <1>3, <1>4
<1>6. CallOK'
  BY <1>1 DEF SearchRight, CallOK
<1>7. RangeCut'
  BY <1>1, <1>5 DEF SearchRight, RangeCut
<1> QED BY <1>1, <1>5, <1>6, <1>7

\* A block that has no part in a step, when what is shared becomes better at most
LEMMA OthersRight ==
  ASSUME SearchRight, find.name \in FindCalls, find' = find,
         NEW j \in DOMAIN blocks, blocks'[j] = blocks[j],
         shared' \in Int, shared' = shared \/ Comp(shared', shared)
  PROVE  BlockRight(j)'
<1>1. shared \in Int /\ BlockRight(j) /\ j \in Nat /\ blocks[j].last \in Nat
  BY DEF SearchRight, Improving, RangeCut
<1>2. \A k : HitAt(k)' <=> HitAt(k)
  BY DEF HitAt, Occurs
<1>3. \A k, l : Comp(k, l) <=> IF find.name = "find_end" THEN k > l ELSE k < l
  BY DEF Comp, Backward
<1>4. Backward' <=> Backward
  BY DEF Backward
<1>5. NoneBetter(j, shared) => NoneBetter(j, shared)'
  BY <1>1, <1>2, <1>3, <1>4 DEF NoneBetter, Comp
<1>6. blocks[j].hit # blocks[j].last /\ NoneBetter(j, blocks[j].hit)
        => NoneBetter(j, blocks[j].hit)'
  BY <1>2, <1>4 DEF NoneBetter, Comp
<1> QED BY <1>1, <1>2, <1>4, <1>5, <1>6 DEF BlockRight, Comp

\* What is shared now is the hit of some block, as it was.
LEMMA StillBySome ==
  ASSUME SearchRight, find.name \in FindCalls, find' = find, shared' = shared,
         NEW i \in DOMAIN blocks, blocks[i].stage = "ready" \/ blocks'[i].hit = blocks[i].hit,
         DOMAIN blocks' = DOMAIN blocks,
         \A j \in DOMAIN blocks : /\ blocks'[j].last = blocks[j].last
                                  /\ j # i => blocks'[j] = blocks[j]
  PROVE  FoundBySome'
<1>1. CASE shared = InitialDist
  BY <1>1 DEF FoundBySome, InitialDist, Backward
<1>2. CASE shared # InitialDist
  <2>1. PICK j \in DOMAIN blocks : shared = blocks[j].hit /\ blocks[j].hit # blocks[j].last
    BY <1>2 DEF SearchRight, Improving, FoundBySome
  <2>2. BlockRight(j) /\ BlockRight(i)
    BY DEF SearchRight, Improving
  <2>3. blocks'[j].hit = blocks[j].hit
    BY <2>1, <2>2 DEF BlockRight
  <2> QED BY <2>1, <2>3 DEF FoundBySome
<1> QED BY <1>1, <1>2

\* A block that is not looked at when what is shared is better has no hit that
\* is better still: what is shared is not one of its own.
LEMMA SkippedBlock ==
  ASSUME SearchRight, find.name \in FindCalls, NEW i \in DOMAIN blocks,
         blocks[i].stage = "ready", ~Comp(i, shared)
  PROVE  NoneBetter(i, shared)
<1>1. /\ i \in Nat /\ blocks[i].last \in Nat /\ i < blocks[i].last
      /\ blocks[i].last <= find.n /\ find.n \in Nat /\ shared \in Int
      /\ \A j \in DOMAIN blocks : j \in Nat /\ blocks[j].last \in Nat
      /\ \A j, k \in DOMAIN blocks : j < k => blocks[j].last <= k
  BY DEF SearchRight, RangeCut, CallOK, Improving
<1>2. CASE ~Backward
  <2>1. shared <= i
    BY <1>1, <1>2 DEF Comp
  <2> QED BY <1>1, <1>2, <2>1 DEF NoneBetter, Comp
<1>3. CASE Backward
  <2>1. shared >= i /\ shared # InitialDist
    BY <1>1, <1>3 DEF Comp, InitialDist
  <2>2. PICK j \in DOMAIN blocks : shared = blocks[j].hit /\ blocks[j].hit # blocks[j].last
    BY <2>1 DEF SearchRight, Improving, FoundBySome
  <2>3. BlockRight(i) /\ BlockRight(j)
    BY DEF SearchRight, Improving
  <2>4. j # i /\ j <= shared /\ shared < blocks[j].last
    BY <1>1, <2>2, <2>3 DEF BlockRight
  <2>5. i < j
    BY <1>1, <2>1, <2>4
  <2>6. blocks[i].last <= shared
    BY <1>1, <2>4, <2>5
  <2> QED BY <1>1, <1>3, <2>6 DEF NoneBetter, Comp
<1> QED BY <1>2, <1>3

\* What blocks have found, and what is shared
LEMMA ImprovingStep ==
  ASSUME SearchRight, find.name \in FindCalls, NEW i \in DOMAIN blocks, BlockStep(i)
  PROVE  Improving'
<1>1. /\ find' = find /\ DOMAIN blocks' = DOMAIN blocks
      /\ \A j \in DOMAIN blocks : /\ blocks'[j].last = blocks[j].last
                                  /\ j # i => blocks'[j] = blocks[j]
  BY CallStays
<1>2. blocks[i] \in BlockRecords
  BY DEF SearchRight, RangeCut
<1>3. /\ i \in Nat /\ i < blocks[i].last /\ blocks[i].last <= find.n /\ find.n \in Nat
      /\ BlockRight(i) /\ shared \in Int
  BY DEF SearchRight, RangeCut, CallOK, Improving
<1>4. find.name \notin OrCalls
  BY DEF FindCalls, OrCalls
<1>5. \A k : HitAt(k)' <=> HitAt(k)
  BY <1>1 DEF HitAt, Occurs
<1>6. Backward' <=> Backward
  BY <1>1 DEF Backward
<1>7. ASSUME shared' \in Int, shared' = shared \/ Comp(shared', shared),
             FoundBySome', BlockRight(i)'
      PROVE  Improving'
  <2>1. \A j \in DOMAIN blocks : BlockRight(j)'
    BY <1>1, <1>7, OthersRight
  <2> QED BY <1>1, <1>7, <2>1 DEF Improving
<1>8. CASE Search(i)
  <2> DEFINE res == FindBrick(i, blocks[i].last)
  <2>1. blocks[i].stage = "ready" /\ shared' = shared
    BY <1>8 DEF Search
  <2>2. FoundBySome'
    BY <1>1, <2>1, StillBySome
  <2>3. \/ res = blocks[i].last /\ HasNone(i)
        \/ res \in i .. blocks[i].last - 1 /\ HitAt(res) /\ NoneBetter(i, res)
    BY <1>2, <1>3, BrickRight DEF SearchRight, HasNone, NoneBetter
  <2>4. CASE Comp(i, shared) /\ res # blocks[i].last
    <3>1. blocks'[i] = [blocks[i] EXCEPT !.stage = "load", !.hit = res]
      BY <1>8, <2>4 DEF Search
    <3>2. /\ blocks'[i].stage = "load" /\ blocks'[i].hit = res
          /\ blocks'[i].last = blocks[i].last
      BY <1>2, <3>1
    <3>3. res \in i .. blocks[i].last - 1 /\ HitAt(res) /\ NoneBetter(i, res)
      BY <2>3, <2>4
    <3> HIDE DEF res
    <3>4. NoneBetter(i, blocks[i].hit)'
      BY <1>5, <1>6, <3>2, <3>3 DEF NoneBetter, Comp
    <3>5. BlockRight(i)'
      BY <1>5, <2>4, <3>2, <3>3, <3>4 DEF BlockRight
    <3> QED BY <1>3, <1>7, <2>1, <2>2, <3>5
  <2>5. CASE ~(Comp(i, shared) /\ res # blocks[i].last)
    <3>1. blocks'[i] = [blocks[i] EXCEPT !.stage = "done"]
      BY <1>8, <2>5 DEF Search
    <3>2. /\ blocks'[i].stage = "done" /\ blocks'[i].hit = blocks[i].hit
          /\ blocks'[i].last = blocks[i].last /\ blocks[i].hit = blocks[i].last
      BY <1>2, <1>3, <2>1, <3>1 DEF BlockRight
    <3>3. NoneBetter(i, shared)
      BY <1>2, <2>1, <2>3, <2>5, SkippedBlock DEF HasNone, NoneBetter
    <3>4. NoneBetter(i, shared)'
      BY <1>5, <1>6, <2>1, <3>2, <3>3 DEF NoneBetter, Comp
    <3>5. BlockRight(i)'
      BY <3>2, <3>4 DEF BlockRight
    <3> QED BY <1>3, <1>7, <2>1, <2>2, <3>5
  <2> QED BY <2>4, <2>5
<1>9. CASE LoadOld(i)
  <2>1. blocks[i].stage = "load" /\ shared' = shared
    BY <1>9 DEF LoadOld
  <2>2. /\ blocks[i].hit # blocks[i].last /\ blocks[i].hit \in i .. blocks[i].last - 1
        /\ HitAt(blocks[i].hit) /\ NoneBetter(i, blocks[i].hit)
    BY <1>3, <2>1 DEF BlockRight
  <2>3. CASE Comp(blocks[i].hit, shared)
    <3>1. blocks'[i] = [blocks[i] EXCEPT !.old = shared, !.stage = "swap"]
      BY <1>9, <2>3 DEF LoadOld
    <3>2. /\ blocks'[i].stage = "swap" /\ blocks'[i].hit = blocks[i].hit
          /\ blocks'[i].last = blocks[i].last /\ blocks'[i].old = shared
      BY <1>2, <3>1
    <3>3. FoundBySome'
      BY <1>1, <2>1, <3>2, StillBySome
    <3>4. NoneBetter(i, blocks[i].hit)' /\ Comp(blocks[i].hit, blocks[i].old)'
      BY <1>5, <1>6, <2>2, <2>3, <3>2 DEF NoneBetter, Comp
    <3>5. BlockRight(i)'
      BY <1>5, <2>2, <3>2, <3>4 DEF BlockRight
    <3> QED BY <1>3, <1>7, <2>1, <3>3, <3>5
  <2>4. CASE ~Comp(blocks[i].hit, shared)
    <3>1. blocks'[i] = [blocks[i] EXCEPT !.stage = "done"]
      BY <1>9, <2>4 DEF LoadOld
    <3>2. /\ blocks'[i].stage = "done" /\ blocks'[i].hit = blocks[i].hit
          /\ blocks'[i].last = blocks[i].last
      BY <1>2, <3>1
    <3>3. FoundBySome'
      BY <1>1, <2>1, <3>2, StillBySome
    <3>4. NoneBetter(i, shared)
      BY <1>2, <1>3, <2>2, <2>4 DEF NoneBetter, Comp
    <3>5. NoneBetter(i, blocks[i].hit)' /\ NoneBetter(i, shared)'
      BY <1>5, <1>6, <2>1, <2>2, <3>2, <3>4 DEF NoneBetter, Comp
    <3>6. BlockRight(i)'
      BY <1>5, <2>2, <3>2, <3>5 DEF BlockRight
    <3> QED BY <1>3, <1>7, <2>1, <3>3, <3>6
  <2> QED BY <2>3, <2>4
<1>10. CASE SwapHit(i)
  <2>1. /\ blocks[i].stage = "swap" /\ ExchangeWeak(i)
        /\ blocks'[i] = [blocks[i] EXCEPT !.stage = "load", !.old = blocks[i].last]
    BY <1>10 DEF SwapHit
  <2>2. /\ blocks[i].hit # blocks[i].last /\ blocks[i].hit \in i .. blocks[i].last - 1
        /\ HitAt(blocks[i].hit) /\ NoneBetter(i, blocks[i].hit)
        /\ Comp(blocks[i].hit, blocks[i].old)
    BY <1>3, <2>1 DEF BlockRight
  <2>3. /\ blocks'[i].stage = "load" /\ blocks'[i].hit = blocks[i].hit
        /\ blocks'[i].last = blocks[i].last
    BY <1>2, <2>1
  <2>4. shared' = shared \/ (shared' = blocks[i].hit /\ Comp(shared', shared))
    BY <2>1, <2>2 DEF ExchangeWeak, Comp
  <2>5. FoundBySome'
    <3>1. CASE shared' = shared
      BY <1>1, <2>3, <3>1, StillBySome
    <3>2. CASE shared' = blocks[i].hit
      BY <1>1, <2>2, <2>3, <3>2 DEF FoundBySome
    <3> QED BY <2>4, <3>1, <3>2
  <2>6. NoneBetter(i, blocks[i].hit)'
    BY <1>5, <1>6, <2>2, <2>3 DEF NoneBetter, Comp
  <2>7. BlockRight(i)'
    BY <1>5, <2>2, <2>3, <2>6 DEF BlockRight
  <2> QED BY <1>2, <1>3, <1>7, <2>4, <2>5, <2>7
<1>11. CASE LookFor(i) \/ ReportHit(i) \/ Cancelled(i)
  BY <1>3, <1>4, <1>11 DEF LookFor, ReportHit, Cancelled, BlockRight
<1> QED BY <1>8, <1>9, <1>10, <1>11 DEF BlockStep

\* Blocks that look for any hit
LEMMA ReportingStep ==
  ASSUME SearchRight, find.name \in OrCalls, NEW i \in DOMAIN blocks, BlockStep(i)
  PROVE  Reporting'
<1>1. /\ find' = find /\ DOMAIN blocks' = DOMAIN blocks
      /\ \A j \in DOMAIN blocks : /\ blocks'[j].last = blocks[j].last
                                  /\ j # i => blocks'[j] = blocks[j]
  BY CallStays
<1>2. /\ blocks[i] \in BlockRecords
      /\ shared \in {0, 1}
      /\ shared = 1 => \E j \in DOMAIN blocks : ~HasNone(j)
      /\ \A j \in DOMAIN blocks : /\ blocks[j].stage \in {"ready", "hit", "done"}
                                  /\ blocks[j].stage = "hit" => ~HasNone(j)
                                  /\ blocks[j].stage = "done" /\ shared = 0 => HasNone(j)
  BY DEF SearchRight, RangeCut, Reporting
<1>3. find.name \notin FindCalls
  BY DEF FindCalls, OrCalls
<1>4. \A k : HitAt(k)' <=> HitAt(k)
  BY <1>1 DEF HitAt, Occurs
<1>5. \A j \in DOMAIN blocks : HasNone(j)' <=> HasNone(j)
  BY <1>1, <1>4 DEF HasNone
<1>6. OrBrick(i, blocks[i].last) <=> ~HasNone(i)
  <2>1. find.name \in {"any_of", "equal"}
    BY DEF SearchRight, CallOK, OrCalls
  <2> QED BY <2>1 DEF OrBrick, HasNone, HitAt
<1>7. CASE LookFor(i)
  <2>1. /\ shared' = shared /\ shared = 0
        /\ blocks' = [blocks EXCEPT ![i].stage =
                        IF OrBrick(i, blocks[i].last) THEN "hit" ELSE "done"]
    BY <1>7 DEF LookFor
  <2>2. blocks'[i].stage = IF HasNone(i) THEN "done" ELSE "hit"
    BY <1>2, <1>6, <2>1
  <2> QED BY <1>1, <1>2, <1>5, <2>1, <2>2 DEF Reporting
<1>8. CASE ReportHit(i)
  <2>1. shared' = 1 /\ ~HasNone(i) /\ blocks' = [blocks EXCEPT ![i].stage = "done"]
    BY <1>2, <1>8 DEF ReportHit
  <2>2. blocks'[i].stage = "done"
    BY <1>2, <2>1
  <2> QED BY <1>1, <1>2, <1>5, <2>1, <2>2 DEF Reporting
<1>9. CASE Cancelled(i)
  <2>1. shared' = shared /\ shared = 1 /\ blocks' = [blocks EXCEPT ![i].stage = "done"]
    BY <1>9 DEF Cancelled
  <2>2. blocks'[i].stage = "done"
    BY <1>2, <2>1
  <2> QED BY <1>1, <1>2, <1>5, <2>1, <2>2 DEF Reporting
<1>10. CASE Search(i) \/ LoadOld(i) \/ SwapHit(i)
  BY <1>2, <1>3, <1>10 DEF Search, LoadOld, SwapHit
<1> QED BY <1>7, <1>8, <1>9, <1>10 DEF BlockStep

\* The invariant is inductive.
LEMMA StepFI == FIInv /\ [FindNext]_findVars => FIInv'
<1> SUFFICES ASSUME FIInv, [FindNext]_findVars, find'.name # "includes"
             PROVE  SearchRight'
  BY DEF FIInv
<1>1. CASE FindNext
  <2>1. PICK i \in DOMAIN blocks : BlockStep(i)
    BY <1>1 DEF FindNext
  <2>2. find' = find
    BY <2>1 DEF BlockStep, Search, LoadOld, SwapHit, LookFor, ReportHit, Cancelled
  <2>3. SearchRight
    BY <2>2 DEF FIInv
  <2>4. CallOK' /\ RangeCut'
    BY <2>1, <2>3, CallStays
  <2>5. Improving'
    BY <2>1, <2>2, <2>3, ImprovingStep DEF Improving
  <2>6. Reporting'
    BY <2>1, <2>2, <2>3, ReportingStep DEF Reporting
  <2> QED BY <2>4, <2>5, <2>6 DEF SearchRight
<1>2. CASE UNCHANGED findVars
  <2>1. find' = find /\ blocks' = blocks /\ shared' = shared
    BY <1>2 DEF findVars
  <2>2. CallOK /\ RangeCut /\ Improving /\ Reporting
    BY <2>1 DEF FIInv, SearchRight
  <2>3. CallOK' /\ RangeCut'
    BY <2>1, <2>2 DEF CallOK, RangeCut
  <2>4. \A k : HitAt(k)' <=> HitAt(k)
    BY <2>1 DEF HitAt, Occurs
  <2>5. Improving'
    BY <2>1, <2>2, <2>4
       DEF Improving, FoundBySome, BlockRight, NoneBetter, Comp, Backward, InitialDist
  <2>6. Reporting'
    BY <2>1, <2>2, <2>4 DEF Reporting, HasNone
  <2> QED BY <2>3, <2>5, <2>6 DEF SearchRight
<1> QED BY <1>1, <1>2

-----------------------------------------------------------------------------
(* The answer                                                              *)

\* When all blocks are done, what is shared tells the best hit of all.
LEMMA FoundBest ==
  ASSUME SearchRight, find.name \in FindCalls, AllDone
  PROVE  \/ Found = find.n /\ \A k \in 0 .. find.n - 1 : ~HitAt(k)
         \/ /\ Found \in 0 .. find.n - 1 /\ HitAt(Found)
            /\ \A k \in 0 .. find.n - 1 : HitAt(k) => ~Comp(k, Found)
<1>1. /\ shared \in Int /\ FoundBySome /\ find.n \in Nat
      /\ \A i \in DOMAIN blocks : BlockRight(i) /\ i \in Nat /\ blocks[i].last \in Nat
                                  /\ blocks[i].last <= find.n
      /\ \A k \in 0 .. find.n - 1 : \E i \in DOMAIN blocks : i <= k /\ k < blocks[i].last
  BY DEF SearchRight, CallOK, RangeCut, Improving
<1>2. ASSUME NEW k \in 0 .. find.n - 1, HitAt(k)
      PROVE  ~Comp(k, shared)
  <2>1. PICK i \in DOMAIN blocks : i <= k /\ k < blocks[i].last
    BY <1>1
  <2>2. NoneBetter(i, shared) /\ k \in i .. blocks[i].last - 1
    BY <1>1, <2>1 DEF AllDone, BlockRight
  <2> QED BY <1>2, <2>2 DEF NoneBetter
<1>3. CASE shared = InitialDist
  <2>1. Found = find.n
    BY <1>3 DEF Found
  <2>2. ASSUME NEW k \in 0 .. find.n - 1
        PROVE  Comp(k, shared)
    BY <1>1, <1>3 DEF Comp, InitialDist, Backward
  <2> QED BY <1>2, <2>1, <2>2
<1>4. CASE shared # InitialDist
  <2>1. PICK i \in DOMAIN blocks : shared = blocks[i].hit /\ blocks[i].hit # blocks[i].last
    BY <1>1, <1>4 DEF FoundBySome
  <2>2. shared \in i .. blocks[i].last - 1 /\ HitAt(shared)
    BY <1>1, <2>1 DEF BlockRight
  <2>3. Found = shared /\ shared \in 0 .. find.n - 1
    BY <1>1, <1>4, <2>2 DEF Found
  <2> QED BY <1>2, <2>2, <2>3
<1> QED BY <1>3, <1>4

\* The least element of a set of numbers is the one that FirstOf() chooses.
LEMMA IsFirst ==
  ASSUME NEW S \in SUBSET Nat, NEW n,
         NEW x, \/ x = n /\ S = {}
                \/ x \in S /\ \A k \in S : x <= k
  PROVE  x = FirstOf(S, n)
<1>1. CASE S = {}
  BY <1>1 DEF FirstOf
<1>2. CASE S # {}
  <2>1. x \in S /\ \A k \in S : x <= k
    BY <1>2
  <2>2. \A y \in S : (\A k \in S : y <= k) => y = x
    BY <2>1
  <2> QED BY <1>2, <2>1, <2>2 DEF FirstOf
<1> QED BY <1>1, <1>2

LEMMA IsLast ==
  ASSUME NEW S \in SUBSET Nat, NEW n,
         NEW x, \/ x = n /\ S = {}
                \/ x \in S /\ \A k \in S : x >= k
  PROVE  x = LastOf(S, n)
<1>1. CASE S = {}
  BY <1>1 DEF LastOf
<1>2. CASE S # {}
  <2>1. x \in S /\ \A k \in S : x >= k
    BY <1>2
  <2>2. \A y \in S : (\A k \in S : y >= k) => y = x
    BY <2>1
  <2> QED BY <1>2, <2>1, <2>2 DEF LastOf
<1> QED BY <1>1, <1>2

\* Found is the first of all hits, and the last one for find_end().
LEMMA FoundIsFirst ==
  ASSUME SearchRight, AllDone, find.name \in FindCalls, find.name # "find_end"
  PROVE  Found = FirstOf({k \in 0 .. find.n - 1 : HitAt(k)}, find.n)
<1> DEFINE S == {k \in 0 .. find.n - 1 : HitAt(k)}
<1>1. find.n \in Nat /\ S \in SUBSET Nat
  BY DEF SearchRight, CallOK
<1>2. CASE Found = find.n /\ \A k \in 0 .. find.n - 1 : ~HitAt(k)
  BY <1>1, <1>2 DEF FirstOf
<1>3. CASE /\ Found \in 0 .. find.n - 1 /\ HitAt(Found)
           /\ \A k \in 0 .. find.n - 1 : HitAt(k) => ~Comp(k, Found)
  <2>1. Found \in S /\ \A k \in S : Found <= k
    BY <1>1, <1>3 DEF Comp, Backward
  <2> QED BY <1>1, <2>1, IsFirst
<1> QED BY <1>2, <1>3, FoundBest

LEMMA FoundIsLast ==
  ASSUME SearchRight, AllDone, find.name = "find_end"
  PROVE  Found = LastOf({k \in 0 .. find.n - 1 : HitAt(k)}, find.n)
<1> DEFINE S == {k \in 0 .. find.n - 1 : HitAt(k)}
<1>1. find.n \in Nat /\ S \in SUBSET Nat /\ find.name \in FindCalls
  BY DEF SearchRight, CallOK, FindCalls
<1>2. CASE Found = find.n /\ \A k \in 0 .. find.n - 1 : ~HitAt(k)
  BY <1>1, <1>2 DEF LastOf
<1>3. CASE /\ Found \in 0 .. find.n - 1 /\ HitAt(Found)
           /\ \A k \in 0 .. find.n - 1 : HitAt(k) => ~Comp(k, Found)
  <2>1. Found \in S /\ \A k \in S : Found >= k
    BY <1>1, <1>3 DEF Comp, Backward
  <2> QED BY <1>1, <2>1, IsLast
<1> QED BY <1>1, <1>2, <1>3, FoundBest

\* ... and before it there are none, when the search goes forward.
LEMMA NoneBefore ==
  ASSUME SearchRight, AllDone, find.name \in FindCalls, find.name # "find_end"
  PROVE  /\ Found \in 0 .. find.n /\ find.n \in Nat
         /\ \A k \in 0 .. Found - 1 : ~HitAt(k)
         /\ Found < find.n => HitAt(Found)
<1>1. find.n \in Nat
  BY DEF SearchRight, CallOK
<1>2. CASE Found = find.n /\ \A k \in 0 .. find.n - 1 : ~HitAt(k)
  BY <1>1, <1>2
<1>3. CASE /\ Found \in 0 .. find.n - 1 /\ HitAt(Found)
           /\ \A k \in 0 .. find.n - 1 : HitAt(k) => ~Comp(k, Found)
  <2>1. ASSUME NEW k \in 0 .. Found - 1
        PROVE  ~HitAt(k)
    <3>1. k \in 0 .. find.n - 1 /\ k < Found
      BY <1>1, <1>3
    <3> QED BY <1>3, <3>1 DEF Comp, Backward
  <2> QED BY <1>1, <1>3, <2>1
<1> QED BY <1>2, <1>3, FoundBest

\* Keys at places are numbers.
LEMMA KeysAt ==
  ASSUME NEW s \in Seq([key : Int, tag : Nat]), NEW k \in 0 .. Len(s) - 1
  PROVE  At(s, k) \in Int
<1>1. k + 1 \in 1 .. Len(s)
  BY LenProperties
<1>2. s[k + 1] \in [key : Int, tag : Nat]
  BY <1>1, ElementOfSeq
<1> QED BY <1>2 DEF At

\* Calls that return a place
LEMMA PlaceAsSerial ==
  ASSUME SearchRight, AllDone, ~SeeksNone,
         find.name \in FindCalls \ {"lexicographical_compare"}
  PROVE  Found = Wanted
<1> DEFINE p == find.p
           q == find.q
           n == find.n
           S == {k \in 0 .. n - 1 : HitAt(k)}
<1>1. /\ p \in Seq([key : Int, tag : Nat]) /\ q \in Seq([key : Int, tag : Nat])
      /\ n = CutLen(find.name, p, q) /\ Comes(find.name, p, q)
  BY DEF SearchRight, CallOK
<1>2. Len(p) \in Nat /\ Len(q) \in Nat
  BY <1>1, LenProperties
<1>3. q # <<>> => Len(q) > 0
  BY <1>1, <1>2, EmptySeq, SeqEqual
<1>4. CASE find.name = "find_if"
  <2>1. n = Len(p) /\ \A k : HitAt(k) <=> At(p, k) = 0
    BY <1>1, <1>4 DEF CutLen, HitAt
  <2>2. S = {k \in 0 .. Len(p) - 1 : At(p, k) = 0}
    BY <2>1
  <2>3. Found = FirstOf(S, n)
    BY <1>4, FoundIsFirst DEF FindCalls
  <2> QED BY <1>4, <2>1, <2>2, <2>3 DEF Wanted
<1>5. CASE find.name \in {"search", "search_n", "find_end"} /\ q # <<>>
  <2>1. n = Len(p) /\ \A k : HitAt(k) <=> Occurs(k)
    BY <1>1, <1>5 DEF CutLen, HitAt
  <2>2. ~Occurs(Len(p))
    <3>1. Len(q) > 0
      BY <1>3, <1>5
    <3>2. \A x, y \in Nat : y > 0 => ~(x + y <= x)
      OBVIOUS
    <3>3. ~(Len(p) + Len(q) <= Len(p))
      BY <1>2, <3>1, <3>2
    <3> QED BY <3>3 DEF Occurs
  <2>3. S = {k \in Places : Occurs(k)}
    BY <1>2, <2>1, <2>2 DEF Places
  <2>4. CASE find.name \in {"search", "search_n"}
    <3>1. Found = FirstOf(S, n)
      BY <2>4, FoundIsFirst DEF FindCalls
    <3> HIDE DEF S
    <3> QED BY <1>5, <2>1, <2>3, <2>4, <3>1 DEF Wanted
  <2>5. CASE find.name = "find_end"
    <3>1. Found = LastOf(S, n)
      BY <2>5, FoundIsLast
    <3> HIDE DEF S
    <3> QED BY <1>5, <2>1, <2>3, <2>5, <3>1 DEF Wanted
  <2> QED BY <1>5, <2>4, <2>5
<1>6. CASE find.name = "search" /\ q = <<>>
  <2>1. n = Len(p) /\ n > 0 /\ \A k : HitAt(k) <=> Occurs(k)
    <3>1. Len(p) # Len(q) /\ Len(q) = 0
      BY <1>1, <1>6, EmptySeq DEF Comes
    <3> QED BY <1>1, <1>2, <1>6, <3>1 DEF CutLen, HitAt
  <2>2. \A k \in Nat : k <= Len(p) => Occurs(k)
    BY <1>1, <1>6, EmptySought
  <2>3. Found \in 0 .. n /\ \A k \in 0 .. Found - 1 : ~Occurs(k)
    BY <1>6, <2>1, NoneBefore DEF FindCalls
  <2>4. Found = 0
    <3>1. Occurs(0)
      BY <1>2, <2>2
    <3>2. ~(0 \in 0 .. Found - 1)
      BY <2>3, <3>1
    <3> QED BY <1>2, <2>1, <2>3, <3>2
  <2> DEFINE P == {k \in Places : Occurs(k)}
  <2>5. P \in SUBSET Nat /\ Found \in P /\ \A k \in P : Found <= k
    BY <1>2, <2>2, <2>4 DEF Places
  <2>6. Wanted = FirstOf(P, Len(p))
    BY <1>6 DEF Wanted
  <2> HIDE DEF P
  <2> QED BY <2>5, <2>6, IsFirst
<1>7. ~(find.name = "search_n" /\ q = <<>>)
  BY DEF SeeksNone
<1>8. CASE find.name = "find_end" /\ q = <<>>
  <2>1. n = Len(p) /\ \A k : ~HitAt(k)
    BY <1>1, <1>8 DEF CutLen, HitAt
  <2>2. Found = n
    BY <1>8, <2>1, FoundIsLast DEF LastOf
  <2>3. Occurs(Len(p))
    BY <1>1, <1>2, <1>8, EmptySought
  <2> DEFINE P == {k \in Places : Occurs(k)}
  <2>4. P \in SUBSET Nat /\ Found \in P /\ \A k \in P : Found >= k
    BY <1>2, <2>1, <2>2, <2>3 DEF Places
  <2>5. Wanted = LastOf(P, Len(p))
    BY <1>8 DEF Wanted
  <2> HIDE DEF P
  <2> QED BY <2>4, <2>5, IsLast
<1>9. CASE find.name = "is_heap_until"
  <2>1. n = Len(p) /\ \A k : HitAt(k) <=> Disordered(p, k)
    BY <1>1, <1>9 DEF CutLen, HitAt
  <2>2. /\ Found \in 0 .. n /\ (\A i \in 0 .. Found - 1 : ~HitAt(i))
        /\ Found < n => HitAt(Found)
    BY <1>9, NoneBefore DEF FindCalls
  <2>3. ASSUME NEW i \in 1 .. n - 1
        PROVE  At(p, (i - 1) \div 2) >= At(p, i) <=> ~HitAt(i)
    <3>1. (i - 1) \div 2 \in 0 .. Len(p) - 1 /\ i \in 0 .. Len(p) - 1 /\ i > 0
      BY <1>2, <2>1
    <3>2. At(p, (i - 1) \div 2) \in Int /\ At(p, i) \in Int
      BY <1>1, <3>1, KeysAt
    <3>3. Disordered(p, i) <=> At(p, (i - 1) \div 2) < At(p, i)
      BY <3>1 DEF Disordered
    <3>4. \A x, y \in Int : x >= y <=> ~(x < y)
      OBVIOUS
    <3> QED BY <2>1, <3>2, <3>3, <3>4
  <2>4. \A k \in 0 .. n : IsHeap(k) <=> \A i \in 1 .. k - 1 : ~HitAt(i)
    BY <1>2, <2>1, <2>3 DEF IsHeap
  <2> DEFINE H == {k \in Places : IsHeap(k)}
  <2>5. Found \in H
    BY <1>2, <2>1, <2>2, <2>4 DEF Places
  <2>6. ASSUME NEW k \in H, k > Found
        PROVE  FALSE
    <3>1. k \in 0 .. n /\ \A i \in 1 .. k - 1 : ~HitAt(i)
      BY <2>1, <2>4 DEF Places
    <3>2. Found < n /\ HitAt(Found)
      BY <1>2, <2>1, <2>2, <2>6, <3>1
    <3>3. Found > 0
      BY <1>2, <2>1, <2>2, <3>2 DEF Disordered
    <3> QED BY <1>2, <2>1, <2>2, <2>6, <3>1, <3>2, <3>3
  <2>7. H \in SUBSET Nat
    BY <1>2 DEF Places
  <2>8. \A k \in H : Found >= k
    BY <1>2, <2>1, <2>2, <2>6, <2>7
  <2>9. Wanted = LastOf(H, Len(p))
    BY <1>9 DEF Wanted
  <2> HIDE DEF H
  <2> QED BY <2>5, <2>7, <2>8, <2>9, IsLast
<1>10. CASE find.name = "mismatch"
  <2>1. n = Within(Len(p), Len(q)) /\ \A k : HitAt(k) <=> At(p, k) # At(q, k)
    BY <1>1, <1>10 DEF CutLen, HitAt
  <2>2. /\ Found \in 0 .. n /\ n \in Nat /\ (\A i \in 0 .. Found - 1 : ~HitAt(i))
        /\ Found < n => HitAt(Found)
    BY <1>10, NoneBefore DEF FindCalls
  <2>3. \A k \in 0 .. n : SameUpTo(k) <=> \A i \in 0 .. k - 1 : ~HitAt(i)
    BY <2>1 DEF SameUpTo
  <2> DEFINE M == {k \in 0 .. n : SameUpTo(k)}
  <2>4. Found \in M
    BY <2>2, <2>3
  <2>5. ASSUME NEW k \in M, k > Found
        PROVE  FALSE
    BY <2>2, <2>3, <2>5
  <2>6. M \in SUBSET Nat
    OBVIOUS
  <2>7. \A k \in M : Found >= k
    BY <2>2, <2>5, <2>6
  <2>8. Wanted = LastOf(M, Len(p))
    BY <1>10, <2>1 DEF Wanted
  <2> HIDE DEF M
  <2> QED BY <2>4, <2>6, <2>7, <2>8, IsLast
<1> QED BY <1>4, <1>5, <1>6, <1>7, <1>8, <1>9, <1>10 DEF FindCalls

\* The comparison, which leaves the last pair for the end
LEMMA ComparesAsSerial ==
  ASSUME SearchRight, AllDone, find.name = "lexicographical_compare"
  PROVE  Precedes <=> Wanted
<1> DEFINE p == find.p
           q == find.q
           n == find.n
<1>1. /\ p \in Seq([key : Int, tag : Nat]) /\ q \in Seq([key : Int, tag : Nat])
      /\ n = Within(Len(p), Len(q)) - 1 /\ p # <<>> /\ q # <<>>
  BY DEF SearchRight, CallOK, CutLen, Comes
<1>2. Len(p) \in Nat /\ Len(q) \in Nat /\ Len(p) > 0 /\ Len(q) > 0
  BY <1>1, LenProperties, EmptySeq, SeqEqual
<1>3. \A k : HitAt(k) <=> At(p, k) # At(q, k)
  BY DEF HitAt
<1>4. /\ Found \in 0 .. n /\ n \in Nat /\ (\A i \in 0 .. Found - 1 : At(p, i) = At(q, i))
      /\ Found < n => At(p, Found) # At(q, Found)
  BY <1>3, NoneBefore DEF FindCalls
<1>5. Found \in 0 .. Len(p) - 1 /\ Found \in 0 .. Len(q) - 1
  <2>1. n <= Len(p) - 1 /\ n <= Len(q) - 1
    <3>1. \A x, y \in Nat : Within(x, y) <= x /\ Within(x, y) <= y /\ Within(x, y) \in Nat
      BY DEF Within
    <3>2. Within(Len(p), Len(q)) <= Len(p) /\ Within(Len(p), Len(q)) <= Len(q)
      BY <1>2, <3>1
    <3>3. \A w, x \in Nat : w <= x => w - 1 <= x - 1
      OBVIOUS
    <3> QED BY <1>1, <1>2, <3>1, <3>2, <3>3
  <2>2. Found \in Nat /\ Found <= n
    BY <1>4
  <2> QED BY <1>2, <1>4, <2>1, <2>2
<1>6. At(p, Found) \in Int /\ At(q, Found) \in Int
  BY <1>1, <1>5, KeysAt
<1>7. Wanted <=> \/ Len(p) < Len(q) /\ SameUpTo(Len(p))
                 \/ \E k \in 0 .. n : SameUpTo(k) /\ At(p, k) < At(q, k)
  BY <1>1 DEF Wanted
<1>8. Precedes <=> IF Found = Len(p) - 1 /\ Found # Len(q) - 1
                   THEN ~(At(q, Found) < At(p, Found)) ELSE At(p, Found) < At(q, Found)
  BY DEF Precedes
<1>9. SameUpTo(Found)
  BY <1>4 DEF SameUpTo
<1>10. At(p, Found) # At(q, Found) => \A k \in 0 .. Len(p) : k > Found => ~SameUpTo(k)
  BY <1>2, <1>4 DEF SameUpTo
<1>11. CASE At(p, Found) # At(q, Found)
  <2>1. \A k \in 0 .. n : SameUpTo(k) => k <= Found
    BY <1>1, <1>2, <1>4, <1>10, <1>11 DEF Within
  <2>2. ~SameUpTo(Len(p))
    BY <1>2, <1>5, <1>10, <1>11
  <2>3. \A k \in 0 .. n : k < Found => At(p, k) = At(q, k) /\ At(p, k) \in Int
    <3> SUFFICES ASSUME NEW k \in 0 .. n, k < Found
                 PROVE  At(p, k) = At(q, k) /\ At(p, k) \in Int
      OBVIOUS
    <3>1. k \in 0 .. Found - 1 /\ k \in 0 .. Len(p) - 1
      BY <1>2, <1>4, <1>5
    <3> QED BY <1>1, <1>4, <3>1, KeysAt
  <2>4. Wanted <=> At(p, Found) < At(q, Found)
    <3>1. ASSUME NEW k \in 0 .. n, SameUpTo(k), At(p, k) < At(q, k)
          PROVE  k = Found
      BY <1>4, <2>1, <2>3, <3>1
    <3> QED BY <1>4, <1>7, <1>9, <2>2, <3>1
  <2>5. Precedes <=> At(p, Found) < At(q, Found)
    BY <1>6, <1>8, <1>11
  <2> QED BY <2>4, <2>5
<1>12. CASE At(p, Found) = At(q, Found)
  <2>1. Found = n
    BY <1>4, <1>12
  <2>2. \A k \in 0 .. n : At(p, k) = At(q, k) /\ At(p, k) \in Int
    <3> SUFFICES ASSUME NEW k \in 0 .. n
                 PROVE  At(p, k) = At(q, k) /\ At(p, k) \in Int
      OBVIOUS
    <3>1. k \in 0 .. Len(p) - 1 /\ (k \in 0 .. Found - 1 \/ k = Found)
      BY <1>2, <1>4, <1>5, <2>1
    <3> QED BY <1>1, <1>4, <1>12, <3>1, KeysAt
  <2>3. \A k \in 0 .. n : ~(At(p, k) < At(q, k))
    BY <2>2
  <2>4. CASE Len(p) < Len(q)
    <3>1. n = Len(p) - 1 /\ n # Len(q) - 1
      BY <1>1, <1>2, <2>4 DEF Within
    <3>2. SameUpTo(Len(p))
      BY <2>2, <3>1 DEF SameUpTo
    <3> QED BY <1>6, <1>7, <1>8, <1>12, <2>1, <2>4, <3>1, <3>2
  <2>5. CASE ~(Len(p) < Len(q))
    <3>1. ~(n = Len(p) - 1 /\ n # Len(q) - 1)
      BY <1>1, <1>2, <2>5 DEF Within
    <3> QED BY <1>4, <1>7, <1>8, <2>1, <2>3, <2>5, <3>1
  <2> QED BY <2>4, <2>5
<1> QED BY <1>11, <1>12

\* Calls that ask for any hit
LEMMA AnyAsSerial ==
  ASSUME SearchRight, AllDone, find.name \in OrCalls
  PROVE  FindAnswer <=> Wanted
<1> DEFINE p == find.p
           q == find.q
           n == find.n
<1>1. /\ p \in Seq([key : Int, tag : Nat]) /\ q \in Seq([key : Int, tag : Nat]) /\ n \in Nat
      /\ n = CutLen(find.name, p, q) /\ Comes(find.name, p, q) /\ find.name \in {"any_of", "equal"}
  BY DEF SearchRight, CallOK, OrCalls
<1>2. Len(p) \in Nat /\ Len(q) \in Nat /\ DOMAIN p = 1 .. Len(p) /\ DOMAIN q = 1 .. Len(q)
  BY <1>1, LenProperties
<1>3. shared = 0 <=> \A k \in 0 .. n - 1 : ~HitAt(k)
  <2>1. /\ shared \in {0, 1}
        /\ shared = 1 => \E i \in DOMAIN blocks : ~HasNone(i)
        /\ shared = 0 => \A i \in DOMAIN blocks : HasNone(i)
    BY DEF SearchRight, Reporting, AllDone
  <2>2. /\ \A i \in DOMAIN blocks : i \in Nat /\ blocks[i].last \in Nat /\ blocks[i].last <= n
        /\ \A k \in 0 .. n - 1 : \E i \in DOMAIN blocks : i <= k /\ k < blocks[i].last
    BY DEF SearchRight, RangeCut
  <2>3. CASE shared = 0
    <3> SUFFICES ASSUME NEW k \in 0 .. n - 1
                 PROVE  ~HitAt(k)
      BY <2>3
    <3>1. PICK i \in DOMAIN blocks : i <= k /\ k < blocks[i].last
      BY <2>2
    <3>2. HasNone(i) /\ k \in i .. blocks[i].last - 1
      BY <2>1, <2>2, <2>3, <3>1
    <3> QED BY <3>2 DEF HasNone
  <2>4. CASE shared = 1
    <3>1. PICK i \in DOMAIN blocks : ~HasNone(i)
      BY <2>1, <2>4
    <3>2. PICK k \in i .. blocks[i].last - 1 : HitAt(k)
      BY <3>1 DEF HasNone
    <3>3. k \in 0 .. n - 1
      BY <1>1, <2>2
    <3> QED BY <2>4, <3>2, <3>3
  <2> QED BY <2>1, <2>3, <2>4
<1>4. CASE find.name = "any_of"
  <2>1. n = Len(p) /\ \A k : HitAt(k) <=> p[k + 1].key = 0
    BY <1>1, <1>4 DEF CutLen, HitAt, At
  <2>2. (\E k \in 0 .. n - 1 : p[k + 1].key = 0) <=> \E i \in DOMAIN p : p[i].key = 0
    <3>1. \A k \in 0 .. n - 1 : k + 1 \in DOMAIN p
      BY <1>2, <2>1
    <3>2. \A i \in DOMAIN p : i - 1 \in 0 .. n - 1 /\ (i - 1) + 1 = i
      BY <1>2, <2>1
    <3> QED BY <3>1, <3>2
  <2>3. shared = 1 <=> \E k \in 0 .. n - 1 : HitAt(k)
    BY <1>3, <1>4 DEF SearchRight, Reporting, OrCalls
  <2>4. Wanted <=> \E i \in DOMAIN p : p[i].key = 0
    BY <1>4 DEF Wanted
  <2>5. FindAnswer <=> shared = 1
    BY <1>4 DEF FindAnswer
  <2> QED BY <2>1, <2>2, <2>3, <2>4, <2>5
<1>5. CASE find.name = "equal"
  <2>1. Len(p) = Len(q) /\ n = Len(p) /\ \A k : HitAt(k) <=> p[k + 1].key # q[k + 1].key
    BY <1>1, <1>2, <1>5 DEF CutLen, Comes, Within, HitAt, At
  <2>2. (\A k \in 0 .. n - 1 : p[k + 1].key = q[k + 1].key)
          <=> \A i \in 1 .. Len(p) : p[i].key = q[i].key
    <3>1. \A k \in 0 .. n - 1 : k + 1 \in 1 .. Len(p)
      BY <1>2, <2>1
    <3>2. \A i \in 1 .. Len(p) : i - 1 \in 0 .. n - 1 /\ (i - 1) + 1 = i
      BY <1>2, <2>1
    <3> QED BY <3>1, <3>2
  <2>3. Alike(p) = Alike(q) <=> \A i \in 1 .. Len(p) : p[i].key = q[i].key
    BY <1>2, <2>1 DEF Alike
  <2>4. Wanted <=> Alike(p) = Alike(q)
    BY <1>5 DEF Wanted
  <2>5. FindAnswer <=> shared = 0
    BY <1>5 DEF FindAnswer
  <2> QED BY <1>3, <2>1, <2>2, <2>3, <2>4, <2>5
<1> QED BY <1>1, <1>4, <1>5

\* What the invariant says of the answer
LEMMA FindInvFollows ==
  ASSUME SearchRight
  PROVE  FindInv
<1>1. HitNotLost
  <2> SUFFICES ASSUME find.name \in FindCalls, NEW i \in DOMAIN blocks,
                      blocks[i].stage = "done", blocks[i].hit # blocks[i].last
               PROVE  shared = blocks[i].hit \/ Comp(shared, blocks[i].hit)
    BY DEF HitNotLost
  <2>1. BlockRight(i) /\ shared \in Int /\ i \in Nat /\ blocks[i].last \in Nat
    BY DEF SearchRight, Improving, RangeCut
  <2>2. /\ blocks[i].hit \in i .. blocks[i].last - 1
        /\ ~Comp(blocks[i].hit, shared)
    BY <2>1 DEF BlockRight, NoneBetter
  <2> QED BY <2>1, <2>2 DEF Comp
<1>2. AnswersAsSerial
  <2> SUFFICES ASSUME AllDone, ~SeeksNone
               PROVE  FindAnswer = Wanted
    BY DEF AnswersAsSerial
  <2>1. CASE find.name \in FindCalls \ {"lexicographical_compare"}
    <3>1. FindAnswer = Found
      BY <2>1 DEF FindAnswer, FindCalls
    <3> QED BY <2>1, <3>1, PlaceAsSerial
  <2>2. CASE find.name = "lexicographical_compare"
    <3>1. FindAnswer = Precedes
      BY <2>2 DEF FindAnswer
    <3>2. Precedes = Wanted
      <4>1. Precedes \in BOOLEAN
        <5>1. (At(find.p, Found) < At(find.q, Found)) \in BOOLEAN
          OBVIOUS
        <5>2. (~(At(find.q, Found) < At(find.p, Found))) \in BOOLEAN
          OBVIOUS
        <5> QED BY <5>1, <5>2, Zenon DEF Precedes
      <4>2. Wanted \in BOOLEAN
        BY <2>2 DEF Wanted
      <4> QED BY <2>2, <4>1, <4>2, ComparesAsSerial
    <3> QED BY <3>1, <3>2
  <2>3. CASE find.name \in OrCalls
    <3>1. find.name \in {"any_of", "equal"}
      BY <2>3 DEF SearchRight, CallOK, OrCalls
    <3>2. FindAnswer \in BOOLEAN
      BY <3>1 DEF FindAnswer
    <3>3. Wanted \in BOOLEAN
      BY <3>1 DEF Wanted
    <3> QED BY <2>3, <3>2, <3>3, AnyAsSerial
  <2> QED BY <2>1, <2>2, <2>3 DEF SearchRight, CallOK
<1> QED BY <1>1, <1>2 DEF FindInv

\* Whatever the ranges are, however the range is cut and in whatever order the
\* blocks run: no hit is lost, and the answer is that of the serial function,
\* but for a search_n() that seeks no elements.  Of includes() nothing is said,
\* which searches in each block.
THEOREM FindRight == FindSpec => [](find.name # "includes" => FindInv)
<1>1. FIInv => (find.name # "includes" => FindInv)
  BY FindInvFollows DEF FIInv
<1> QED BY InitFI, StepFI, <1>1, PTL DEF FindSpec

=============================================================================
