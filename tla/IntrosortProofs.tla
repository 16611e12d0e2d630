-------------------------- MODULE IntrosortProofs ---------------------------
(***************************************************************************)
(* sort(), nth_element(), partial_sort() and sequences of heap             *)
(* operations, for any keys and lengths, any depth limits, and any         *)
(* threshold of 3 or more.  The operators on heaps are recursive           *)
(* functions, so the lemmas of RecursiveDefinitions say first that there   *)
(* are such functions, and then what they do: holes go up and down one     *)
(* path, what is in them is moved and not lost, and what was a heap is     *)
(* one again.  The rest is about the ranges of the frames: both their      *)
(* ends split the array, so what is rearranged within one disturbs no      *)
(* other.                                                                  *)
(***************************************************************************)
EXTENDS Introsort, RecursiveDefinitions, FiniteSetTheorems, SequenceTheorems, TLAPS

LEMMA ParentOf ==
  /\ \A c \in Nat \ {0} : Parent(c) \in Nat /\ Parent(c) < c /\ (c = 2 * Parent(c) + 1 \/ c = 2 * Parent(c) + 2)
  /\ \A h \in Nat : Parent(2 * h + 1) = h /\ Parent(2 * h + 2) = h
BY DEF Parent

-----------------------------------------------------------------------------
(* The holes of a heap                                                     *)

\* What the hole of __push_heap() leaves on its way up
UpRight(W, e, s, first, hole, top, value) ==
  /\ W \subseteq 0 .. hole /\ hole \in W /\ e \in W
  /\ \A d \in W : e <= d
  /\ \A d \in W \ {e} : d > top /\ Parent(d) \in W /\ Less(s[first + Parent(d)], value)
  /\ e > top => ~Less(s[first + Parent(e)], value)
  /\ \A d \in W \ {hole} : \E c \in W \ {e} : Parent(c) = d

LEMMA UpStep ==
  ASSUME NEW s, NEW first, NEW hole \in Nat, NEW top \in Nat, NEW value, hole > top,
         Less(s[first + Parent(hole)], value),
         NEW W, NEW e, UpRight(W, e, s, first, Parent(hole), top, value)
  PROVE  UpRight({hole} \cup W, e, s, first, hole, top, value)
<1> DEFINE p == Parent(hole)
<1>1. p \in Nat /\ p < hole
  BY ParentOf
<1>2. hole \notin W /\ e # hole /\ W \subseteq 0 .. hole
  BY <1>1 DEF UpRight
<1>3. \A d \in {hole} \cup W : e <= d
  BY <1>1 DEF UpRight
<1>4. ASSUME NEW d \in ({hole} \cup W) \ {e}
      PROVE  d > top /\ Parent(d) \in {hole} \cup W /\ Less(s[first + Parent(d)], value)
  BY DEF UpRight
<1>5. ASSUME NEW d \in ({hole} \cup W) \ {hole}
      PROVE  \E c \in ({hole} \cup W) \ {e} : Parent(c) = d
  BY <1>2 DEF UpRight
<1> QED BY <1>1, <1>2, <1>3, <1>4, <1>5 DEF UpRight

LEMMA HolesUpRight ==
  ASSUME NEW s, NEW first, NEW hole \in Nat, NEW top \in Nat, NEW value
  PROVE  \E e \in Nat : UpRight(HolesUp(s, first, hole, top, value), e, s, first, hole, top, value)
<1> DEFINE D == 0 .. hole
           S == SUBSET Nat
           Goes(h) == h > top /\ Less(s[first + Parent(h)], value)
           Body(h, F) == {h} \cup IF Goes(h) THEN F[Parent(h)] ELSE {}
           m == [h \in D |-> h]
           stop == [h \in D |-> ~Goes(h)]
           next == [h \in D |-> IF Goes(h) THEN Parent(h) ELSE h]
           base == [h \in D |-> {h}]
           comb == [q \in D \X S |-> {q[1]} \cup q[2]]
           Right(F) == F = [h \in D |-> Body(h, F)]
           C == CHOOSE F : Right(F)
<1>1. ASSUME NEW h \in D, Goes(h)
      PROVE  Parent(h) \in D /\ Parent(h) < h
  <2>1. h \in Nat \ {0}
    BY <1>1
  <2> QED BY <2>1, ParentOf
<1> HIDE DEF Goes
<1>2. m \in [D -> Nat] /\ stop \in [D -> BOOLEAN] /\ next \in [D -> D] /\ base \in [D -> S]
  BY <1>1
<1>3. comb \in [D \X S -> S]
  OBVIOUS
<1>4. \A h \in D : ~stop[h] => m[next[h]] < m[h]
  BY <1>1
<1>5. \E F : Right(F)
  <2>1. GoesDown(D, S, m, stop, next, base, comb)
    <3>1. S # {}
      OBVIOUS
    <3> HIDE DEF D, S, m, stop, next, base, comb
    <3> QED BY <1>2, <1>3, <1>4, <3>1 DEF GoesDown
  <2> HIDE DEF D, S, m, stop, next, base, comb
  <2>2. PICK F : Follows(F, D, S, stop, next, base, comb)
    BY <2>1, Chained
  <2>3. ASSUME NEW h \in D
        PROVE  F[h] = Body(h, F)
    <3>1. next[h] \in D /\ F[next[h]] \in S
      BY <1>2, <2>2 DEF Follows
    <3>2. comb[<<h, F[next[h]]>>] = {h} \cup F[next[h]]
      BY <3>1 DEF comb
    <3> QED BY <2>2, <3>2 DEF stop, next, base, Follows
  <2>4. F \in [D -> S]
    BY <2>2 DEF Follows
  <2> HIDE DEF Body
  <2> QED BY <2>3, <2>4
<1>6. Right(C)
  BY <1>5
<1>7. HolesUp(s, first, hole, top, value) = C[hole]
  BY DEF HolesUp, Goes
<1> HIDE DEF C
<1>8. \A h \in D : C[h] = Body(h, C)
  BY <1>6
<1> DEFINE Q == {h \in D : \E e \in Nat : UpRight(C[h], e, s, first, h, top, value)}
<1>9. ASSUME NEW h \in D, \A g \in D : m[g] < m[h] => g \in Q
      PROVE  h \in Q
  <2>1. CASE ~Goes(h)
    <3>1. C[h] = {h}
      BY <1>8, <2>1
    <3>2. UpRight({h}, h, s, first, h, top, value)
      BY <2>1 DEF UpRight, Goes
    <3> QED BY <3>1, <3>2
  <2>2. CASE Goes(h)
    <3>1. Parent(h) \in Q
      BY <1>1, <1>9, <2>2
    <3>2. PICK e \in Nat : UpRight(C[Parent(h)], e, s, first, Parent(h), top, value)
      BY <3>1
    <3>3. UpRight({h} \cup C[Parent(h)], e, s, first, h, top, value)
      BY <2>2, <3>2, UpStep DEF Goes
    <3>4. C[h] = {h} \cup C[Parent(h)]
      BY <1>8, <2>2
    <3> QED BY <3>3, <3>4
  <2> QED BY <2>1, <2>2
<1>10. Q = D
  <2>1. Q \in SUBSET D
    OBVIOUS
  <2> HIDE DEF Q, D, m
  <2> QED BY <1>2, <1>9, <2>1, ByMeasure
<1> QED BY <1>7, <1>10

Elem == [key : SortKeys, tag : Nat]
Arrays(n) == [1 .. n -> Elem]

\* A hole of s has been filled, and value found a place, by moves from lo to hi.
Refilled(s, r, lo, hi, hole, value) ==
  /\ \A i \in DOMAIN s : i \notin lo .. hi => r[i] = s[i]
  /\ \A i \in lo .. hi : r[i] = value \/ \E j \in (lo .. hi) \ {hole} : r[i] = s[j]
  /\ \E i \in lo .. hi : r[i] = value
  /\ \A j \in (lo .. hi) \ {hole} : \E i \in lo .. hi : r[i] = s[j]

\* From parent p on, no child is greater than its parent.
HeapFrom(s, first, len, p) ==
  \A c \in 1 .. len - 1 : Parent(c) >= p => ~Less(s[first + Parent(c)], s[first + c])

LEMMA LessOrder ==
  ASSUME NEW x \in Elem, NEW y \in Elem, NEW z \in Elem
  PROVE  /\ ~Less(x, x)
         /\ ~(Less(x, y) /\ Less(y, x))
         /\ ~Less(x, y) /\ ~Less(y, z) => ~Less(x, z)
         /\ Less(x, y) /\ ~Less(z, y) => ~Less(z, x)
<1>1. x.key \in Int /\ y.key \in Int /\ z.key \in Int
  BY KeysAreNumbers DEF Elem
<1> QED BY <1>1 DEF Less

\* Each element that the hole has passed is where the hole was below it.
LEMMA PushPlaces ==
  ASSUME NEW n \in Nat, NEW s \in Arrays(n), NEW first \in 1 .. n, NEW hole \in Nat, NEW top \in Nat,
         NEW value \in Elem, first + hole <= n, NEW W, NEW e, W = HolesUp(s, first, hole, top, value),
         UpRight(W, e, s, first, hole, top, value)
  PROVE  LET r == PushHeap(s, first, hole, top, value)
         IN  /\ r \in Arrays(n)
             /\ r[first + e] = value
             /\ \A d \in W \ {e} : r[first + d] = s[first + Parent(d)]
             /\ \A i \in 1 .. n : i - first \notin W => r[i] = s[i]
<1> DEFINE r == PushHeap(s, first, hole, top, value)
           End(h) == \A g \in W : h <= g
           At(i) == IF i - first \notin W THEN s[i]
                    ELSE IF End(i - first) THEN value ELSE s[first + Parent(i - first)]
<1>1. r = [i \in 1 .. n |-> At(i)]
  BY DEF PushHeap, Arrays
<1>2. W \subseteq 0 .. hole /\ e \in W
  BY DEF UpRight
<1>3. \A d \in W : End(d) <=> d = e
  BY <1>2 DEF UpRight
<1>4. \A d \in W \ {e} : Parent(d) \in W
  BY DEF UpRight
<1>5. ASSUME NEW i \in 1 .. n
      PROVE  At(i) \in Elem
  <2>1. CASE i - first \notin W
    BY <2>1 DEF Arrays
  <2>2. CASE i - first \in W /\ i - first = e
    BY <1>3, <2>2
  <2>3. CASE i - first \in W /\ i - first # e
    <3>1. Parent(i - first) \in 0 .. hole
      BY <1>2, <1>4, <2>3
    <3>2. first + Parent(i - first) \in 1 .. n
      BY <3>1
    <3> QED BY <1>3, <2>3, <3>2 DEF Arrays
  <2> QED BY <2>1, <2>2, <2>3
<1>6. r \in Arrays(n)
  <2> HIDE DEF r, At
  <2> QED BY <1>1, <1>5 DEF Arrays
<1>7. ASSUME NEW d \in W
      PROVE  first + d \in 1 .. n /\ (first + d) - first = d
  BY <1>2
<1>8. r[first + e] = value
  <2> HIDE DEF End
  <2> QED BY <1>1, <1>2, <1>3, <1>7
<1>9. \A d \in W \ {e} : r[first + d] = s[first + Parent(d)]
  <2> HIDE DEF End
  <2> QED BY <1>1, <1>3, <1>7
<1>10. \A i \in 1 .. n : i - first \notin W => r[i] = s[i]
  BY <1>1
<1> QED BY <1>6, <1>8, <1>9, <1>10

\* __push_heap() loses nothing but what was in the hole, and touches nothing behind it.
LEMMA PushRefills ==
  ASSUME NEW n \in Nat, NEW s \in Arrays(n), NEW first \in 1 .. n, NEW hole \in Nat, NEW top \in Nat,
         NEW value \in Elem, first + hole <= n
  PROVE  LET r == PushHeap(s, first, hole, top, value)
         IN  r \in Arrays(n) /\ Refilled(s, r, first, first + hole, first + hole, value)
<1> DEFINE r == PushHeap(s, first, hole, top, value)
           W == HolesUp(s, first, hole, top, value)
<1>1. PICK e \in Nat : UpRight(W, e, s, first, hole, top, value)
  BY HolesUpRight
<1>2. /\ r \in Arrays(n)
      /\ r[first + e] = value
      /\ \A d \in W \ {e} : r[first + d] = s[first + Parent(d)]
      /\ \A i \in 1 .. n : i - first \notin W => r[i] = s[i]
  <2> HIDE DEF W
  <2>1. W = HolesUp(s, first, hole, top, value)
    BY DEF W
  <2> QED BY <1>1, <2>1, PushPlaces
<1> HIDE DEF r, W
<1>3. W \subseteq 0 .. hole /\ hole \in W /\ e \in W
  BY <1>1 DEF UpRight
<1>4. \A i \in DOMAIN s : i \notin first .. first + hole => r[i] = s[i]
  BY <1>2, <1>3 DEF Arrays
<1>5. ASSUME NEW i \in first .. first + hole
      PROVE  r[i] = value \/ \E j \in (first .. first + hole) \ {first + hole} : r[i] = s[j]
  <2> DEFINE d == i - first
  <2>1. d \in 0 .. hole /\ i = first + d /\ i \in 1 .. n
    OBVIOUS
  <2>2. CASE d \notin W
    BY <1>2, <1>3, <2>1, <2>2
  <2>3. CASE d \in W \ {e}
    <3>1. Parent(d) \in W /\ d \in Nat \ {0}
      BY <1>1, <1>3, <2>1, <2>3 DEF UpRight
    <3>2. Parent(d) < d /\ Parent(d) \in Nat
      BY <3>1, ParentOf
    <3>3. first + Parent(d) \in (first .. first + hole) \ {first + hole}
      BY <2>1, <3>2
    <3>4. r[i] = s[first + Parent(d)]
      BY <1>2, <2>1, <2>3
    <3> QED BY <3>3, <3>4
  <2>4. CASE d = e
    BY <1>2, <2>1, <2>4
  <2> QED BY <2>2, <2>3, <2>4
<1>6. \E i \in first .. first + hole : r[i] = value
  BY <1>2, <1>3
<1>7. ASSUME NEW j \in (first .. first + hole) \ {first + hole}
      PROVE  \E i \in first .. first + hole : r[i] = s[j]
  <2> DEFINE d == j - first
  <2>1. d \in 0 .. hole /\ d # hole /\ j = first + d /\ j \in 1 .. n
    OBVIOUS
  <2>2. CASE d \notin W
    BY <1>2, <2>1, <2>2
  <2>3. CASE d \in W
    <3>1. PICK c \in W \ {e} : Parent(c) = d
      BY <1>1, <2>1, <2>3 DEF UpRight
    <3>2. r[first + c] = s[first + d]
      BY <1>2, <3>1
    <3>3. first + c \in first .. first + hole
      BY <1>3
    <3> QED BY <2>1, <3>2, <3>3
  <2> QED BY <2>2, <2>3
<1>8. Refilled(s, r, first, first + hole, first + hole, value)
  BY <1>4, <1>5, <1>6, <1>7 DEF Refilled
<1> QED BY <1>2, <1>8 DEF r

\* An element that is pushed makes a heap of one more.
LEMMA PushKeepsHeap ==
  ASSUME NEW n \in Nat, NEW s \in Arrays(n), NEW first \in 1 .. n, NEW hole \in Nat,
         NEW value \in Elem, first + hole <= n, HeapFrom(s, first, hole, 0)
  PROVE  HeapFrom(PushHeap(s, first, hole, 0, value), first, hole + 1, 0)
<1> DEFINE r == PushHeap(s, first, hole, 0, value)
           W == HolesUp(s, first, hole, 0, value)
<1>1. PICK e \in Nat : UpRight(W, e, s, first, hole, 0, value)
  BY HolesUpRight
<1>2. /\ r \in Arrays(n)
      /\ r[first + e] = value
      /\ \A d \in W \ {e} : r[first + d] = s[first + Parent(d)]
      /\ \A i \in 1 .. n : i - first \notin W => r[i] = s[i]
  <2> HIDE DEF W
  <2>1. W = HolesUp(s, first, hole, 0, value)
    BY DEF W
  <2> QED BY <1>1, <2>1, PushPlaces
<1> HIDE DEF r, W
<1>3. W \subseteq 0 .. hole /\ hole \in W /\ e \in W
  BY <1>1 DEF UpRight
<1>4. \A h \in 0 .. hole : s[first + h] \in Elem /\ (h \notin W => r[first + h] = s[first + h])
  <2>1. \A h \in 0 .. hole : first + h \in 1 .. n /\ (first + h) - first = h
    OBVIOUS
  <2> QED BY <1>2, <2>1 DEF Arrays
<1> SUFFICES ASSUME NEW c \in 1 .. (hole + 1) - 1
             PROVE  ~Less(r[first + Parent(c)], r[first + c])
  BY DEF r, HeapFrom
<1> DEFINE p == Parent(c)
<1>5. p \in Nat /\ p < c /\ c \in 0 .. hole /\ p \in 0 .. hole
  BY ParentOf
<1>6. c # hole => ~Less(s[first + p], s[first + c])
  BY <1>5 DEF HeapFrom
\* What comes down to a hole is not less than what was there.
<1>7. ASSUME NEW d \in W \ {hole}
      PROVE  r[first + d] \in Elem /\ ~Less(r[first + d], s[first + d])
  <2>1. d \in 0 .. hole /\ s[first + d] \in Elem
    BY <1>3, <1>4
  <2>2. CASE d = e
    <3>1. PICK b \in W \ {e} : Parent(b) = d
      BY <1>1 DEF UpRight
    <3>2. Less(s[first + d], value)
      BY <1>1, <3>1 DEF UpRight
    <3> QED BY <1>2, <2>1, <2>2, <3>2, LessOrder
  <2>3. CASE d # e
    <3>1. Parent(d) \in W /\ d > 0
      BY <1>1, <2>3 DEF UpRight
    <3>2. r[first + d] = s[first + Parent(d)] /\ s[first + Parent(d)] \in Elem
      BY <1>2, <1>3, <1>4, <2>3, <3>1
    <3>3. d \in 1 .. hole - 1 /\ Parent(d) >= 0
      <4>1. Parent(d) \in 0 .. hole /\ d # hole
        BY <1>3, <3>1
      <4> QED BY <2>1, <3>1, <4>1
    <3>4. ~Less(s[first + Parent(d)], s[first + d])
      BY <3>3 DEF HeapFrom
    <3> QED BY <3>2, <3>4
  <2> QED BY <2>2, <2>3
<1>8. CASE c \notin W
  <2>1. c # hole /\ r[first + c] = s[first + c]
    BY <1>3, <1>4, <1>5, <1>8
  <2>2. CASE p \notin W
    BY <1>4, <1>5, <1>6, <2>1, <2>2
  <2>3. CASE p \in W
    <3>1. r[first + p] \in Elem /\ ~Less(r[first + p], s[first + p])
      BY <1>5, <1>7, <2>3
    <3> QED BY <1>4, <1>5, <1>6, <2>1, <3>1, LessOrder
  <2> QED BY <2>2, <2>3
<1>9. CASE c \in W
  <2>1. CASE c = e
    <3>1. p \notin W
      BY <1>1, <1>5, <2>1 DEF UpRight
    <3>2. r[first + p] = s[first + p] /\ ~Less(s[first + p], value)
      BY <1>1, <1>4, <1>5, <2>1, <3>1 DEF UpRight
    <3> QED BY <1>2, <2>1, <3>2
  <2>2. CASE c # e
    <3>1. p \in W /\ r[first + c] = s[first + p]
      BY <1>1, <1>2, <1>9, <2>2 DEF UpRight
    <3>2. r[first + p] \in Elem /\ ~Less(r[first + p], s[first + p])
      BY <1>5, <1>7, <3>1
    <3> QED BY <3>1, <3>2
  <2> QED BY <2>1, <2>2
<1> QED BY <1>8, <1>9

-----------------------------------------------------------------------------
\* What the hole of __adjust_heap() leaves on its way down
DownRight(V, end, s, first, hole, len) ==
  /\ V \subseteq hole .. len - 1 /\ hole \in V /\ end \in V /\ 2 * end + 1 >= len
  /\ \A d \in V : d <= end
  /\ \A d \in V \ {hole} : d > 0 /\ Parent(d) \in V
  /\ \A c \in V \ {hole} : \A d \in V : d < c => d <= Parent(c)
  /\ \A d \in V \ {end} : \E c \in V \ {hole} : Parent(c) = d
  /\ \A d \in V \ {hole} : \A c \in 1 .. len - 1 :
        Parent(c) = Parent(d) => ~Less(s[first + d], s[first + c])

LEMMA DownStep ==
  ASSUME NEW s, NEW first, NEW hole \in Nat, NEW len \in Nat, NEW c \in Nat,
         c \in {2 * hole + 1, 2 * hole + 2}, c < len,
         \A b \in 1 .. len - 1 : Parent(b) = hole => ~Less(s[first + c], s[first + b]),
         NEW V, NEW end, DownRight(V, end, s, first, c, len)
  PROVE  DownRight({hole} \cup V, end, s, first, hole, len)
<1> DEFINE U == {hole} \cup V
<1>1. Parent(c) = hole /\ hole < c /\ c \in V /\ V \subseteq c .. len - 1
  <2>1. Parent(c) = hole /\ hole < c
    <3>1. c = 2 * hole + 1 \/ c = 2 * hole + 2
      OBVIOUS
    <3>2. CASE c = 2 * hole + 1
      BY <3>2 DEF Parent
    <3>3. CASE c = 2 * hole + 2
      BY <3>3 DEF Parent
    <3> QED BY <3>1, <3>2, <3>3
  <2> QED BY <2>1 DEF DownRight
<1>2. hole \notin V /\ end # hole /\ U \subseteq hole .. len - 1
  BY <1>1 DEF DownRight
<1>3. \A d \in U : d <= end
  BY <1>1 DEF DownRight
<1>4. ASSUME NEW d \in U \ {hole}
      PROVE  d > 0 /\ Parent(d) \in U
  BY <1>1 DEF DownRight
<1>5. ASSUME NEW b \in U \ {hole}, NEW d \in U, d < b
      PROVE  d <= Parent(b)
  <2>1. b \in V /\ b >= c /\ b \in Nat
    BY <1>1
  <2>2. CASE b = c
    <3>1. d = hole
      BY <1>1, <1>5, <2>2
    <3> QED BY <1>1, <2>2, <3>1
  <2>3. CASE b # c
    <3>1. Parent(b) \in V
      BY <2>1, <2>3 DEF DownRight
    <3>2. CASE d \in V
      BY <1>5, <2>1, <2>3, <3>2 DEF DownRight
    <3>3. CASE d = hole
      <4>1. Parent(b) \in c .. len - 1
        BY <1>1, <3>1
      <4> QED BY <1>1, <3>3, <4>1
    <3> QED BY <3>2, <3>3
  <2> QED BY <2>2, <2>3
<1>6. ASSUME NEW d \in U \ {end}
      PROVE  \E b \in U \ {hole} : Parent(b) = d
  <2>1. CASE d = hole
    BY <1>1, <1>2, <2>1
  <2>2. CASE d # hole
    <3>1. PICK b \in V \ {c} : Parent(b) = d
      BY <2>2 DEF DownRight
    <3> QED BY <1>2, <3>1
  <2> QED BY <2>1, <2>2
<1>7. ASSUME NEW d \in U \ {hole}, NEW b \in 1 .. len - 1, Parent(b) = Parent(d)
      PROVE  ~Less(s[first + d], s[first + b])
  <2>1. CASE d = c
    BY <1>1, <1>7, <2>1
  <2>2. CASE d # c
    BY <1>7, <2>2 DEF DownRight
  <2> QED BY <2>1, <2>2
<1>8. hole \in U /\ end \in U /\ 2 * end + 1 >= len
  BY DEF DownRight
<1> QED BY <1>2, <1>3, <1>4, <1>5, <1>6, <1>7, <1>8 DEF DownRight

\* Without right child the one with a left child is the last parent.
LeftOnly(h, len) == len % 2 = 0 /\ 2 * h + 2 = len
DownBody(s, first, len, h, F) ==
  {h} \cup IF h < (len - 1) \div 2 THEN F[LargerChild(s, first, h)]
           ELSE IF LeftOnly(h, len) THEN {2 * h + 1} ELSE {}

LEMMA DownSolved ==
  ASSUME NEW s, NEW first, NEW len \in Nat
  PROVE  \E C : /\ \A hole : HolesDown(s, first, hole, len) = C[hole]
               /\ \A h \in 0 .. len : C[h] = DownBody(s, first, len, h, C)
<1> DEFINE D == 0 .. len
           S == SUBSET Nat
           Goes(h) == h < (len - 1) \div 2
           Larger(h) == LargerChild(s, first, h)
           Alone(h) == LeftOnly(h, len)
           Body(h, F) == DownBody(s, first, len, h, F)
           m == [h \in D |-> len - h]
           stop == [h \in D |-> ~Goes(h)]
           next == [h \in D |-> IF Goes(h) THEN Larger(h) ELSE h]
           base == [h \in D |-> {h} \cup IF Alone(h) THEN {2 * h + 1} ELSE {}]
           comb == [q \in D \X S |-> {q[1]} \cup q[2]]
           Right(F) == F = [h \in D |-> Body(h, F)]
           C == CHOOSE F : Right(F)
<1>1. ASSUME NEW h \in D, Goes(h)
      PROVE  Larger(h) \in D /\ h < Larger(h)
  BY <1>1 DEF LargerChild
<1> HIDE DEF Goes, Larger, Alone
<1>4. m \in [D -> Nat] /\ stop \in [D -> BOOLEAN] /\ next \in [D -> D] /\ base \in [D -> S]
  BY <1>1
<1>5. comb \in [D \X S -> S]
  OBVIOUS
<1>6. \A h \in D : ~stop[h] => m[next[h]] < m[h]
  <2> SUFFICES ASSUME NEW h \in D, Goes(h)
               PROVE  m[Larger(h)] < m[h]
    OBVIOUS
  <2> QED BY <1>1
<1>7. \E F : Right(F)
  <2>1. GoesDown(D, S, m, stop, next, base, comb)
    <3>1. S # {}
      OBVIOUS
    <3> HIDE DEF D, S, m, stop, next, base, comb
    <3> QED BY <1>4, <1>5, <1>6, <3>1 DEF GoesDown
  <2> HIDE DEF D, S, m, stop, next, base, comb
  <2>2. PICK F : Follows(F, D, S, stop, next, base, comb)
    BY <2>1, Chained
  <2>3. ASSUME NEW h \in D
        PROVE  F[h] = Body(h, F)
    <3>1. next[h] \in D /\ F[next[h]] \in S
      BY <1>4, <2>2 DEF Follows
    <3>2. comb[<<h, F[next[h]]>>] = {h} \cup F[next[h]]
      BY <3>1 DEF comb
    <3>3. Body(h, F) = {h} \cup IF Goes(h) THEN F[Larger(h)] ELSE IF Alone(h) THEN {2 * h + 1} ELSE {}
      BY DEF DownBody, Goes, Larger, Alone
    <3> QED BY <2>2, <3>2, <3>3 DEF stop, next, base, Follows
  <2>4. F \in [D -> S]
    BY <2>2 DEF Follows
  <2> HIDE DEF Body
  <2> QED BY <2>3, <2>4
<1>8. Right(C)
  BY <1>7
<1>9. \A hole : HolesDown(s, first, hole, len) = C[hole]
  BY DEF HolesDown, DownBody, LeftOnly
<1> HIDE DEF C, Body
<1>10. \A h \in D : C[h] = Body(h, C)
  BY <1>8
<1> QED BY <1>9, <1>10 DEF Body

LEMMA HolesDownRight ==
  ASSUME NEW n \in Nat, NEW s \in Arrays(n), NEW first \in 1 .. n, NEW len \in Nat,
         NEW hole \in 0 .. len - 1, first + len - 1 <= n
  PROVE  \E end \in Nat : DownRight(HolesDown(s, first, hole, len), end, s, first, hole, len)
<1> DEFINE D == 0 .. len
           Goes(h) == h < (len - 1) \div 2
           Larger(h) == LargerChild(s, first, h)
           Alone(h) == LeftOnly(h, len)
           m == [h \in D |-> len - h]
<1>1. ASSUME NEW h \in D, Goes(h)
      PROVE  Larger(h) \in D /\ h < Larger(h) /\ 2 * h + 2 < len
  BY <1>1 DEF LargerChild
<1>2. ASSUME NEW h \in D, ~Goes(h), h < len
      PROVE  IF Alone(h) THEN 2 * h + 2 = len ELSE 2 * h + 1 >= len
  BY <1>2 DEF LeftOnly
<1>3. ASSUME NEW h \in D, Goes(h), NEW b \in 1 .. len - 1, Parent(b) = h
      PROVE  ~Less(s[first + Larger(h)], s[first + b])
  <2>1. b \in {2 * h + 1, 2 * h + 2}
    <3>1. b \in Nat \ {0}
      OBVIOUS
    <3> QED BY <1>3, <3>1, ParentOf
  <2>2. first + 2 * h + 1 \in 1 .. n /\ first + 2 * h + 2 \in 1 .. n
    BY <1>1, <1>3
  <2>3. s[first + 2 * h + 1] \in Elem /\ s[first + 2 * h + 2] \in Elem
    BY <2>2 DEF Arrays
  <2>4. first + (2 * h + 1) = first + 2 * h + 1 /\ first + (2 * h + 2) = first + 2 * h + 2
    OBVIOUS
  <2> QED BY <2>1, <2>3, <2>4, LessOrder DEF LargerChild
<1> HIDE DEF Goes, Larger, Alone
<1>4. m \in [D -> Nat]
  OBVIOUS
<1>8. PICK C : /\ HolesDown(s, first, hole, len) = C[hole]
               /\ \A h \in D : C[h] = DownBody(s, first, len, h, C)
  BY DownSolved
<1>9. HolesDown(s, first, hole, len) = C[hole]
  BY <1>8
<1>10. \A h \in D : C[h] = {h} \cup IF Goes(h) THEN C[Larger(h)] ELSE IF Alone(h) THEN {2 * h + 1} ELSE {}
  BY <1>8 DEF DownBody, Goes, Larger, Alone
<1> DEFINE Q == {h \in D : h < len => \E end \in Nat : DownRight(C[h], end, s, first, h, len)}
<1>11. ASSUME NEW h \in D, \A g \in D : m[g] < m[h] => g \in Q
       PROVE  h \in Q
  <2> SUFFICES ASSUME h < len
               PROVE  \E end \in Nat : DownRight(C[h], end, s, first, h, len)
    OBVIOUS
  <2>1. CASE ~Goes(h) /\ ~Alone(h)
    <3>1. C[h] = {h}
      BY <1>10, <2>1
    <3>2. DownRight({h}, h, s, first, h, len)
      BY <1>2, <2>1 DEF DownRight
    <3> QED BY <3>1, <3>2
  <2>2. CASE ~Goes(h) /\ Alone(h)
    <3> DEFINE c == 2 * h + 1
    <3>1. C[h] = {h} \cup {c}
      BY <1>10, <2>2
    <3>2. c \in Nat /\ c = len - 1 /\ 2 * h + 2 = len
      BY <1>2, <2>2
    <3>3. DownRight({c}, c, s, first, c, len)
      BY <3>2 DEF DownRight
    <3>4. ASSUME NEW b \in 1 .. len - 1, Parent(b) = h
          PROVE  ~Less(s[first + c], s[first + b])
      <4>1. b = c
        <5>1. b \in Nat \ {0}
          OBVIOUS
        <5>2. b = 2 * h + 1 \/ b = 2 * h + 2
          BY <3>4, <5>1, ParentOf
        <5> QED BY <3>2, <5>2
      <4>2. first + c \in 1 .. n
        BY <3>2
      <4>3. s[first + c] \in Elem
        BY <4>2 DEF Arrays
      <4> QED BY <4>1, <4>3, LessOrder
    <3>5. c \in {2 * h + 1, 2 * h + 2} /\ c < len /\ h \in Nat
      BY <3>2
    <3> HIDE DEF c
    <3>6. DownRight({h} \cup {c}, c, s, first, h, len)
      BY <3>2, <3>3, <3>4, <3>5, DownStep
    <3> QED BY <3>1, <3>2, <3>6
  <2>3. CASE Goes(h)
    <3> DEFINE c == Larger(h)
    <3>1. c \in D /\ h < c /\ c < len /\ c \in {2 * h + 1, 2 * h + 2} /\ c \in Nat /\ h \in Nat
      BY <1>1, <2>3 DEF Larger, LargerChild
    <3>2. c \in Q
      BY <1>11, <3>1
    <3>3. PICK end \in Nat : DownRight(C[c], end, s, first, c, len)
      BY <3>1, <3>2
    <3>4. \A b \in 1 .. len - 1 : Parent(b) = h => ~Less(s[first + c], s[first + b])
      BY <1>3, <2>3
    <3>5. C[h] = {h} \cup C[c]
      BY <1>10, <2>3
    <3> HIDE DEF c
    <3>6. DownRight({h} \cup C[c], end, s, first, h, len)
      BY <3>1, <3>3, <3>4, DownStep
    <3> QED BY <3>5, <3>6
  <2> QED BY <2>1, <2>2, <2>3
<1>12. Q = D
  <2>1. Q \in SUBSET D
    OBVIOUS
  <2> HIDE DEF Q, D, m
  <2> QED BY <1>4, <1>11, <2>1, ByMeasure
<1>13. hole \in D /\ hole < len
  OBVIOUS
<1> QED BY <1>9, <1>12, <1>13

\* On the way up the hole comes to places that it has come to on its way down.
LEMMA WayBack ==
  ASSUME NEW s, NEW t, NEW first, NEW hole \in Nat, NEW len \in Nat, NEW value, NEW e \in Nat, NEW end \in Nat,
         NEW V, NEW W, DownRight(V, end, s, first, hole, len), UpRight(W, e, t, first, end, hole, value)
  PROVE  W \subseteq V /\ hole <= e /\ \A d \in V : e <= d => d \in W
<1>1. W \subseteq 0 .. end /\ end \in W /\ e \in W
  BY DEF UpRight
<1>2. V \subseteq hole .. len - 1 /\ end \in V /\ hole \in V /\ \A d \in V : d <= end
  BY DEF DownRight
<1>3. W \subseteq V
  <2> SUFFICES ASSUME W \ V # {}
               PROVE  FALSE
    OBVIOUS
  <2>1. W \ V \in SUBSET (0 .. end)
    BY <1>1
  <2>2. PICK k \in W \ V : \A l \in W \ V : l <= k
    BY <2>1, Greatest
  <2>3. k # end
    BY <1>2
  <2>4. PICK c \in W \ {e} : Parent(c) = k
    BY <2>2, <2>3 DEF UpRight
  <2>5. c > hole /\ c \in Nat
    BY <1>1 DEF UpRight
  <2>6. k < c /\ k \in Nat
    BY <2>4, <2>5, ParentOf
  <2>7. c \in V
    BY <2>2, <2>5, <2>6
  <2>8. Parent(c) \in V
    BY <2>5, <2>7 DEF DownRight
  <2> QED BY <2>4, <2>8
<1>4. hole <= e
  BY <1>1, <1>2, <1>3
<1>5. ASSUME NEW d \in V, e <= d
      PROVE  d \in W
  <2> SUFFICES ASSUME d \notin W
               PROVE  FALSE
    OBVIOUS
  <2> DEFINE B == {c \in W : d < c}
  <2>1. d \in Nat /\ d < end
    BY <1>1, <1>2
  <2>2. B \in SUBSET Nat /\ B # {}
    <3>1. end \in B
      BY <1>1, <2>1
    <3>2. \A b \in B : b \in Nat
      BY <1>1
    <3> QED BY <3>1, <3>2
  <2> HIDE DEF B
  <2>3. PICK c \in B : \A b \in B : c <= b
    BY <2>2, Least
  <2>4. c \in W /\ d < c /\ c \in Nat /\ c # e
    BY <1>1, <1>5, <2>1, <2>3 DEF B
  <2>5. Parent(c) \in W /\ Parent(c) \in Nat /\ Parent(c) < c /\ c # hole
    <3>1. c > hole /\ Parent(c) \in W
      BY <2>4 DEF UpRight
    <3> QED BY <2>4, <3>1, ParentOf
  <2>6. d <= Parent(c)
    BY <1>3, <2>4, <2>5 DEF DownRight
  <2>7. Parent(c) # d
    BY <2>5
  <2>8. Parent(c) \in B
    BY <2>1, <2>5, <2>6, <2>7 DEF B
  <2> QED BY <2>3, <2>4, <2>5, <2>8
<1> QED BY <1>3, <1>4, <1>5

\* The array in the middle of __adjust_heap()
Sunk(s, first, hole, V, end) ==
  LET Next1(h) == CHOOSE g \in V \ {hole} : Parent(g) = h
  IN  [i \in DOMAIN s |-> IF i - first \in V \ {end} THEN s[first + Next1(i - first)] ELSE s[i]]

LEMMA SunkPlaces ==
  ASSUME NEW n \in Nat, NEW s \in Arrays(n), NEW first \in 1 .. n, NEW hole \in Nat, NEW len \in Nat,
         first + len - 1 <= n, NEW end \in Nat, NEW V, DownRight(V, end, s, first, hole, len)
  PROVE  LET t == Sunk(s, first, hole, V, end)
         IN  /\ t \in Arrays(n)
             /\ \A c \in V \ {hole} : t[first + Parent(c)] = s[first + c]
             /\ \A i \in 1 .. n : i - first \notin V \ {end} => t[i] = s[i]
<1> DEFINE t == Sunk(s, first, hole, V, end)
           Next1(h) == CHOOSE g \in V \ {hole} : Parent(g) = h
           At(i) == IF i - first \in V \ {end} THEN s[first + Next1(i - first)] ELSE s[i]
<1>1. t = [i \in 1 .. n |-> At(i)]
  BY DEF Sunk, Arrays
<1>2. V \subseteq 0 .. len - 1 /\ \A d \in V : d <= end
  BY DEF DownRight
<1>3. \A d \in V : first + d \in 1 .. n /\ (first + d) - first = d /\ d \in Nat
  BY <1>2
<1>4. ASSUME NEW d \in V \ {end}
      PROVE  Next1(d) \in V \ {hole} /\ Parent(Next1(d)) = d
  BY DEF DownRight
<1>5. ASSUME NEW c \in V \ {hole}
      PROVE  Parent(c) \in V \ {end} /\ Next1(Parent(c)) = c
  <2>1. Parent(c) \in V /\ c > 0 /\ c \in Nat
    BY <1>3 DEF DownRight
  <2>2. Parent(c) < c /\ Parent(c) \in Nat
    BY <2>1, ParentOf
  <2>3. Parent(c) # end
    BY <1>2, <2>1, <2>2
  <2> DEFINE b == Next1(Parent(c))
  <2>4. b \in V \ {hole} /\ Parent(b) = Parent(c)
    BY <1>4, <2>1, <2>3
  <2>5. b \in Nat /\ b > 0 /\ Parent(b) < b
    <3>1. b > 0 /\ b \in Nat
      BY <1>3, <2>4 DEF DownRight
    <3> QED BY <3>1, ParentOf
  <2> HIDE DEF b
  <2>6. ~(b < c)
    <3>1. b < c => b <= Parent(c)
      BY <2>4 DEF DownRight
    <3> QED BY <2>1, <2>2, <2>4, <2>5, <3>1
  <2>7. ~(c < b)
    <3>1. c < b => c <= Parent(b)
      BY <2>4 DEF DownRight
    <3> QED BY <2>1, <2>2, <2>4, <2>5, <3>1
  <2> QED BY <2>1, <2>3, <2>5, <2>6, <2>7 DEF b
<1> HIDE DEF Next1
<1>6. ASSUME NEW i \in 1 .. n
      PROVE  At(i) \in Elem
  <2>1. i - first \in V \ {end} => first + Next1(i - first) \in 1 .. n
    BY <1>3, <1>4
  <2> QED BY <2>1 DEF Arrays
<1>7. t \in Arrays(n)
  <2> HIDE DEF t, At
  <2> QED BY <1>1, <1>6 DEF Arrays
<1> HIDE DEF t
<1>8. ASSUME NEW c \in V \ {hole}
      PROVE  t[first + Parent(c)] = s[first + c]
  <2>1. Parent(c) \in V \ {end} /\ Next1(Parent(c)) = c
    BY <1>5
  <2>2. first + Parent(c) \in 1 .. n /\ (first + Parent(c)) - first = Parent(c)
    BY <1>3, <2>1
  <2> QED BY <1>1, <2>1, <2>2
<1>9. \A i \in 1 .. n : i - first \notin V \ {end} => t[i] = s[i]
  BY <1>1
<1> QED BY <1>7, <1>8, <1>9 DEF t

\* Of the places on the way down, those below e keep what they had, e has the value,
\* and what was above e has come up by one.
Adjusted(r, V, e, end, s, first, hole, len, value) ==
  /\ DownRight(V, end, s, first, hole, len) /\ e \in V
  /\ r[first + e] = value
  /\ \A d \in V : d > e => r[first + d] = s[first + d]
  /\ \A c \in V \ {hole} : c <= e => r[first + Parent(c)] = s[first + c]
  /\ \A c \in V \ {hole} : Parent(c) = e => Less(s[first + c], value)
  /\ e # hole => ~Less(s[first + e], value)

AdjustTraced(n, s, first, hole, len, value) ==
  \E r \in Arrays(n) : \E V, e, end :
    /\ r = AdjustHeap(s, first, hole, len, value)
    /\ Adjusted(r, V, e, end, s, first, hole, len, value)
    /\ \A i \in 1 .. n : i - first \notin V => r[i] = s[i]

\* What __adjust_heap() does: the hole goes down to where no child is left, and value up
\* from there to a place whose parent is not less than it.
LEMMA AdjustPlaces ==
  ASSUME NEW n \in Nat, NEW s \in Arrays(n), NEW first \in 1 .. n, NEW len \in Nat,
         NEW hole \in 0 .. len - 1, first + len - 1 <= n, NEW value \in Elem
  PROVE  AdjustTraced(n, s, first, hole, len, value)
<1> DEFINE V == HolesDown(s, first, hole, len)
           r == AdjustHeap(s, first, hole, len, value)
<1>1. PICK end \in Nat : DownRight(V, end, s, first, hole, len)
  BY HolesDownRight
<1> DEFINE t == Sunk(s, first, hole, V, end)
           W == HolesUp(t, first, end, hole, value)
<1>2. (CHOOSE h \in V : \A g \in V : g <= h) = end
  <2> DEFINE z == CHOOSE h \in V : \A g \in V : g <= h
  <2>1. end \in V /\ (\A g \in V : g <= end) /\ V \subseteq hole .. len - 1
    BY <1>1 DEF DownRight
  <2> HIDE DEF V
  <2>2. z \in V /\ \A g \in V : g <= z
    BY <2>1
  <2> HIDE DEF z
  <2>3. z <= end /\ end <= z /\ z \in Int
    BY <2>1, <2>2
  <2>4. z = end
    BY <2>3
  <2> QED BY <2>4 DEF z
<1>3. r = PushHeap(t, first, end, hole, value)
  <2> HIDE DEF V
  <2>1. r = LET holes == V
                e1 == CHOOSE h \in holes : \A g \in holes : g <= h
            IN  PushHeap(Sunk(s, first, hole, V, e1), first, e1, hole, value)
    BY DEF AdjustHeap, Sunk, V
  <2> QED BY <1>2, <2>1
<1>4. /\ t \in Arrays(n)
      /\ \A c \in V \ {hole} : t[first + Parent(c)] = s[first + c]
      /\ \A i \in 1 .. n : i - first \notin V \ {end} => t[i] = s[i]
  <2> HIDE DEF V
  <2> QED BY <1>1, SunkPlaces
<1> HIDE DEF V, t
<1>5. PICK e \in Nat : UpRight(W, e, t, first, end, hole, value)
  BY HolesUpRight
<1>6. V \subseteq hole .. len - 1 /\ end \in V /\ hole \in V /\ first + end <= n /\ \A d \in V : d <= end
  BY <1>1 DEF DownRight
<1>7. /\ r \in Arrays(n)
      /\ r[first + e] = value
      /\ \A d \in W \ {e} : r[first + d] = t[first + Parent(d)]
      /\ \A i \in 1 .. n : i - first \notin W => r[i] = t[i]
  <2>1. W = HolesUp(t, first, end, hole, value)
    OBVIOUS
  <2> HIDE DEF W, r
  <2> QED BY <1>3, <1>4, <1>5, <1>6, <2>1, PushPlaces
<1> HIDE DEF r, W
<1>8. W \subseteq V /\ hole <= e /\ \A d \in V : e <= d => d \in W
  BY <1>1, <1>5, WayBack
<1>9. e \in W /\ e \in V /\ \A d \in W : e <= d
  BY <1>5, <1>8 DEF UpRight
<1>10. \A d \in V : first + d \in 1 .. n /\ (first + d) - first = d /\ d \in Nat
  BY <1>6
<1>11. ASSUME NEW d \in V, d > e
       PROVE  r[first + d] = s[first + d]
  <2>1. d \in W \ {e} /\ d # hole
    BY <1>8, <1>10, <1>11
  <2> QED BY <1>4, <1>7, <2>1
<1>12. ASSUME NEW c \in V \ {hole}
       PROVE  Parent(c) \in V \ {end} /\ Parent(c) < c /\ Parent(c) \in Nat /\ c \in Nat
  <2>1. Parent(c) \in V /\ c \in Nat \ {0}
    BY <1>1, <1>10 DEF DownRight
  <2>2. Parent(c) < c /\ Parent(c) \in Nat
    BY <2>1, ParentOf
  <2> QED BY <1>6, <2>1, <2>2
<1>13. ASSUME NEW c \in V \ {hole}, c <= e
       PROVE  r[first + Parent(c)] = s[first + c]
  <2>1. Parent(c) \in V /\ Parent(c) \notin W
    BY <1>9, <1>12, <1>13
  <2>2. r[first + Parent(c)] = t[first + Parent(c)]
    BY <1>7, <1>10, <2>1
  <2> QED BY <1>4, <2>2
<1>14. ASSUME NEW c \in V \ {hole}, Parent(c) = e
       PROVE  Less(s[first + c], value)
  <2>1. e # end
    BY <1>12, <1>14
  <2>2. PICK b \in W \ {e} : Parent(b) = e
    BY <1>5, <1>9, <2>1 DEF UpRight
  <2>3. Less(t[first + e], value)
    BY <1>5, <2>2 DEF UpRight
  <2> QED BY <1>4, <1>14, <2>3
<1>15. e # hole => ~Less(s[first + e], value)
  <2> SUFFICES ASSUME e # hole
               PROVE  ~Less(s[first + e], value)
    OBVIOUS
  <2>1. t[first + Parent(e)] = s[first + e]
    BY <1>4, <1>9
  <2>2. ~Less(t[first + Parent(e)], value)
    BY <1>5, <1>8 DEF UpRight
  <2> QED BY <2>1, <2>2
<1>16. \A i \in 1 .. n : i - first \notin V => r[i] = s[i]
  BY <1>4, <1>7, <1>8
<1>17. Adjusted(r, V, e, end, s, first, hole, len, value)
  BY <1>1, <1>7, <1>9, <1>11, <1>13, <1>14, <1>15 DEF Adjusted
<1>18. r = AdjustHeap(s, first, hole, len, value)
  BY DEF r, V
<1> HIDE DEF V
<1> QED BY <1>7, <1>16, <1>17, <1>18 DEF AdjustTraced

\* __adjust_heap() loses nothing but what was in the hole, and stays within the heap.
LEMMA AdjustRefills ==
  ASSUME NEW n \in Nat, NEW s \in Arrays(n), NEW first \in 1 .. n, NEW len \in Nat,
         NEW hole \in 0 .. len - 1, first + len - 1 <= n, NEW value \in Elem
  PROVE  LET r == AdjustHeap(s, first, hole, len, value)
         IN  r \in Arrays(n) /\ Refilled(s, r, first, first + len - 1, first + hole, value)
<1> DEFINE last == first + len - 1
<1>0. PICK r \in Arrays(n) : \E V, e, end :
         /\ r = AdjustHeap(s, first, hole, len, value)
         /\ Adjusted(r, V, e, end, s, first, hole, len, value)
         /\ \A i \in 1 .. n : i - first \notin V => r[i] = s[i]
  <2>1. AdjustTraced(n, s, first, hole, len, value)
    BY AdjustPlaces
  <2> QED BY <2>1 DEF AdjustTraced
<1>1. PICK V, e, end :
         /\ r = AdjustHeap(s, first, hole, len, value)
         /\ Adjusted(r, V, e, end, s, first, hole, len, value)
         /\ \A i \in 1 .. n : i - first \notin V => r[i] = s[i]
  BY <1>0
<1>2. /\ Adjusted(r, V, e, end, s, first, hole, len, value)
      /\ \A i \in 1 .. n : i - first \notin V => r[i] = s[i]
  BY <1>1
<1>3. /\ V \subseteq hole .. len - 1 /\ hole \in V /\ e \in V /\ end \in V /\ \A d \in V : d <= end
      /\ \A c \in V \ {hole} : Parent(c) \in V
      /\ \A c \in V \ {hole} : \A d \in V : d < c => d <= Parent(c)
      /\ \A d \in V \ {end} : \E c \in V \ {hole} : Parent(c) = d
  BY <1>2 DEF Adjusted, DownRight
<1>4. /\ r[first + e] = value
      /\ \A d \in V : d > e => r[first + d] = s[first + d]
      /\ \A c \in V \ {hole} : c <= e => r[first + Parent(c)] = s[first + c]
  BY <1>2 DEF Adjusted
<1>5. \A i \in DOMAIN s : i \notin first .. last => r[i] = s[i]
  BY <1>2, <1>3 DEF Arrays
<1>6. first .. last \subseteq 1 .. n /\ last \in Int
  OBVIOUS
<1> HIDE DEF last
<1>7. \A d \in V : first + d \in first .. last /\ d \in Nat
  BY <1>3 DEF last
<1>8. ASSUME NEW i \in first .. last
      PROVE  r[i] = value \/ \E j \in (first .. last) \ {first + hole} : r[i] = s[j]
  <2> DEFINE d == i - first
  <2>1. d \in Nat /\ i = first + d /\ i \in 1 .. n
    BY <1>6
  <2> HIDE DEF d
  <2>2. CASE d \notin V
    <3>1. i # first + hole
      BY <1>3, <2>1, <2>2
    <3> QED BY <1>2, <2>1, <2>2, <3>1 DEF d
  <2>3. CASE d \in V /\ d = e
    BY <1>4, <2>1, <2>3
  <2>4. CASE d \in V /\ d > e
    <3>1. i # first + hole
      BY <1>3, <2>1, <2>4
    <3> QED BY <1>4, <2>1, <2>4, <3>1
  <2>5. CASE d \in V /\ d < e
    <3>1. d # end
      BY <1>3, <2>5
    <3>2. PICK c \in V \ {hole} : Parent(c) = d
      BY <1>3, <2>5, <3>1
    <3>3. c <= e
      <4>1. e < c => e <= Parent(c)
        BY <1>3
      <4>2. c \in Nat /\ e \in Nat
        BY <1>7, <1>3
      <4> QED BY <2>5, <3>2, <4>1, <4>2
    <3>4. r[i] = s[first + c]
      BY <1>4, <2>1, <3>2, <3>3
    <3>5. first + c \in (first .. last) \ {first + hole}
      BY <1>3, <1>7, <3>2
    <3> QED BY <3>4, <3>5
  <2>6. e \in Nat
    BY <1>3, <1>7
  <2> QED BY <2>1, <2>2, <2>3, <2>4, <2>5, <2>6
<1>9. \E i \in first .. last : r[i] = value
  BY <1>3, <1>4, <1>7
<1>10. ASSUME NEW j \in (first .. last) \ {first + hole}
       PROVE  \E i \in first .. last : r[i] = s[j]
  <2> DEFINE d == j - first
  <2>1. d \in Nat /\ j = first + d /\ j \in 1 .. n /\ d # hole
    BY <1>6
  <2> HIDE DEF d
  <2>2. CASE d \notin V
    BY <1>2, <2>1, <2>2 DEF d
  <2>3. CASE d \in V /\ d > e
    BY <1>4, <2>1, <2>3
  <2>4. CASE d \in V /\ d <= e
    <3>1. Parent(d) \in V /\ r[first + Parent(d)] = s[j]
      BY <1>3, <1>4, <2>1, <2>4
    <3> QED BY <1>7, <3>1
  <2>5. e \in Nat
    BY <1>3, <1>7
  <2> QED BY <2>1, <2>2, <2>3, <2>4, <2>5
<1>11. Refilled(s, r, first, last, first + hole, value)
  BY <1>5, <1>8, <1>9, <1>10 DEF Refilled
<1> QED BY <1>1, <1>11 DEF last

\* __adjust_heap() of a hole above heaps makes a heap of the hole, too.
LEMMA AdjustMakesHeap ==
  ASSUME NEW n \in Nat, NEW s \in Arrays(n), NEW first \in 1 .. n, NEW len \in Nat,
         NEW hole \in 0 .. len - 1, first + len - 1 <= n, NEW value \in Elem,
         HeapFrom(s, first, len, hole + 1)
  PROVE  HeapFrom(AdjustHeap(s, first, hole, len, value), first, len, hole)
<1>0. PICK r \in Arrays(n) : \E V, e, end :
         /\ r = AdjustHeap(s, first, hole, len, value)
         /\ Adjusted(r, V, e, end, s, first, hole, len, value)
         /\ \A i \in 1 .. n : i - first \notin V => r[i] = s[i]
  <2>1. AdjustTraced(n, s, first, hole, len, value)
    BY AdjustPlaces
  <2> QED BY <2>1 DEF AdjustTraced
<1>1. PICK V, e, end :
         /\ r = AdjustHeap(s, first, hole, len, value)
         /\ Adjusted(r, V, e, end, s, first, hole, len, value)
         /\ \A i \in 1 .. n : i - first \notin V => r[i] = s[i]
  BY <1>0
<1>2. /\ V \subseteq hole .. len - 1 /\ hole \in V /\ e \in V /\ end \in V
      /\ 2 * end + 1 >= len /\ \A d \in V : d <= end
      /\ \A c \in V \ {hole} : Parent(c) \in V
      /\ \A c \in V \ {hole} : \A d \in V : d < c => d <= Parent(c)
      /\ \A d \in V \ {end} : \E c \in V \ {hole} : Parent(c) = d
      /\ \A d \in V \ {hole} : \A c \in 1 .. len - 1 :
            Parent(c) = Parent(d) => ~Less(s[first + d], s[first + c])
  BY <1>1 DEF Adjusted, DownRight
<1>3. /\ r[first + e] = value
      /\ \A d \in V : d > e => r[first + d] = s[first + d]
      /\ \A c \in V \ {hole} : c <= e => r[first + Parent(c)] = s[first + c]
      /\ \A c \in V \ {hole} : Parent(c) = e => Less(s[first + c], value)
      /\ e # hole => ~Less(s[first + e], value)
  BY <1>1 DEF Adjusted
<1>4. \A h \in 0 .. len - 1 : s[first + h] \in Elem /\ (h \notin V => r[first + h] = s[first + h])
  <2>1. \A h \in 0 .. len - 1 : first + h \in 1 .. n /\ (first + h) - first = h
    OBVIOUS
  <2> QED BY <1>1, <2>1 DEF Arrays
<1> SUFFICES ASSUME NEW c \in 1 .. len - 1, Parent(c) >= hole
             PROVE  ~Less(r[first + Parent(c)], r[first + c])
  BY <1>1 DEF HeapFrom
<1> DEFINE p == Parent(c)
<1>5. /\ p \in Nat /\ p < c /\ c \in 0 .. len - 1 /\ p \in 0 .. len - 1 /\ p >= hole /\ c # hole
      /\ c = 2 * p + 1 \/ c = 2 * p + 2
  <2>1. c \in Nat \ {0} /\ c \in 0 .. len - 1 /\ c < len /\ len \in Nat /\ hole \in Nat
    OBVIOUS
  <2>2. p \in Nat /\ p < c /\ (c = 2 * p + 1 \/ c = 2 * p + 2)
    BY <2>1, ParentOf
  <2>3. p \in 0 .. len - 1
    BY <2>1, <2>2
  <2> QED BY <2>1, <2>2, <2>3
<1>6. p # hole => ~Less(s[first + p], s[first + c])
  <2>1. p # hole => Parent(c) >= hole + 1
    BY <1>5
  <2> QED BY <2>1 DEF HeapFrom
<1>7. e \in Nat /\ e \in 0 .. len - 1
  BY <1>2
<1>8. CASE p \notin V
  <2>1. c \notin V
    BY <1>2, <1>5, <1>8
  <2>2. p # hole
    BY <1>2, <1>8
  <2> QED BY <1>4, <1>5, <1>6, <1>8, <2>1, <2>2
<1>9. CASE p \in V
  <2>1. p # end
    BY <1>2, <1>5
  <2>2. PICK d \in V \ {hole} : Parent(d) = p
    BY <1>2, <1>9, <2>1
  <2>3. ~Less(s[first + d], s[first + c]) /\ d \in 0 .. len - 1
    BY <1>2, <1>5, <2>2
  <2>4. c \in V => c = d
    <3> SUFFICES ASSUME c \in V, c # d
                 PROVE  FALSE
      OBVIOUS
    <3>1. c < d => c <= p
      BY <1>2, <2>2
    <3>2. d < c => d <= p
      BY <1>2, <1>5
    <3>3. d \in Nat \ {0}
      BY <2>3, <1>2, <2>2
    <3>4. p < d
      BY <2>2, <3>3, ParentOf
    <3> QED BY <1>5, <3>1, <3>2, <3>3, <3>4
  <2>5. d <= e \/ e = p \/ e < p
    <3>1. e < d => e <= p
      BY <1>2, <1>7, <2>2
    <3> QED BY <1>5, <1>7, <2>3, <3>1
\* The parent has what the larger child had.
  <2>6. CASE d <= e
    <3>1. r[first + p] = s[first + d]
      BY <1>3, <2>2, <2>6
    <3>2. CASE c \notin V
      BY <1>4, <1>5, <2>3, <3>1, <3>2
    <3>3. CASE c = d /\ d = e
      BY <1>2, <1>3, <2>2, <3>1, <3>3
    <3>4. CASE c = d /\ d < e
      <4>1. d # end
        BY <1>2, <3>4
      <4>2. PICK b \in V \ {hole} : Parent(b) = d
        BY <1>2, <2>2, <4>1
      <4>3. b <= e
        <5>1. e < b => e <= d
          BY <1>2, <1>7, <4>2
        <5>2. b \in Nat
          BY <1>2, <4>2
        <5> QED BY <1>7, <2>3, <3>4, <5>1, <5>2
      <4>4. r[first + d] = s[first + b]
        BY <1>3, <4>2, <4>3
      <4>5. b \in 1 .. len - 1 /\ Parent(b) >= hole + 1
        <5>1. b \in hole .. len - 1 /\ b # hole /\ d \in hole .. len - 1 /\ d # hole
          BY <1>2, <2>2, <4>2
        <5> QED BY <4>2, <5>1
      <4>6. ~Less(s[first + d], s[first + b])
        BY <4>2, <4>5 DEF HeapFrom
      <4> QED BY <3>1, <3>4, <4>4, <4>6
    <3> QED BY <1>7, <2>3, <2>4, <2>6, <3>2, <3>3, <3>4
  <2>7. CASE e = p
    <3>1. r[first + p] = value /\ Less(s[first + d], value)
      BY <1>3, <2>2, <2>7
    <3>2. r[first + c] = s[first + c]
      <4>1. CASE c \notin V
        BY <1>4, <1>5, <4>1
      <4>2. CASE c \in V
        BY <1>3, <1>5, <2>7, <4>2
      <4> QED BY <4>1, <4>2
    <3> QED BY <1>4, <1>5, <2>3, <3>1, <3>2, LessOrder
  <2>8. CASE e < p
    <3>1. r[first + p] = s[first + p]
      BY <1>3, <1>9, <2>8
    <3>2. r[first + c] = s[first + c]
      <4>1. CASE c \notin V
        BY <1>4, <1>5, <4>1
      <4>2. CASE c \in V
        BY <1>3, <1>5, <1>7, <2>8, <4>2
      <4> QED BY <4>1, <4>2
    <3>3. p # hole
      BY <1>2, <1>7, <2>8
    <3> QED BY <1>6, <3>1, <3>2, <3>3
  <2> QED BY <2>5, <2>6, <2>7, <2>8
<1> QED BY <1>8, <1>9

\* The first of a heap is its greatest.
LEMMA TopGreatest ==
  ASSUME NEW n \in Nat, NEW s \in Arrays(n), NEW first \in 1 .. n, NEW len \in Nat,
         first + len - 1 <= n, HeapFrom(s, first, len, 0)
  PROVE  \A i \in first .. first + len - 1 : ~Less(s[first], s[i])
<1> DEFINE D == 0 .. len - 1
           m == [c \in D |-> c]
           Q == {c \in D : ~Less(s[first], s[first + c])}
<1>1. \A c \in D : s[first + c] \in Elem
  <2>1. \A c \in D : first + c \in 1 .. n
    OBVIOUS
  <2> QED BY <2>1 DEF Arrays
<1>2. ASSUME NEW c \in D, \A d \in D : m[d] < m[c] => d \in Q
      PROVE  c \in Q
  <2>1. CASE c = 0
    <3>1. s[first] \in Elem /\ first + c = first
      BY <2>1 DEF Arrays
    <3> QED BY <2>1, <3>1, LessOrder
  <2>2. CASE c # 0
    <3>1. c \in Nat \ {0} /\ c \in 1 .. len - 1
      BY <2>2
    <3>2. Parent(c) < c /\ Parent(c) \in Nat
      BY <3>1, ParentOf
    <3>3. Parent(c) \in D /\ Parent(c) \in Q
      BY <1>2, <3>1, <3>2
    <3>4. ~Less(s[first + Parent(c)], s[first + c])
      BY <3>1, <3>2 DEF HeapFrom
    <3>5. s[first] \in Elem
      BY DEF Arrays
    <3> QED BY <1>1, <3>3, <3>4, <3>5, LessOrder
  <2> QED BY <2>1, <2>2
<1>3. Q = D
  <2>1. Q \in SUBSET D /\ m \in [D -> Nat]
    OBVIOUS
  <2> HIDE DEF Q, D, m
  <2> QED BY <1>2, <2>1, ByMeasure
<1> SUFFICES ASSUME NEW i \in first .. first + len - 1
             PROVE  ~Less(s[first], s[i])
  OBVIOUS
<1>4. i - first \in D /\ first + (i - first) = i
  OBVIOUS
<1> QED BY <1>3, <1>4

-----------------------------------------------------------------------------
(* What is moved within a range                                            *)

Rearranged(s, r, lo, hi) ==
  /\ \A i \in DOMAIN s : i \notin lo .. hi => r[i] = s[i]
  /\ \A i \in lo .. hi : \E j \in lo .. hi : r[i] = s[j]
  /\ \A j \in lo .. hi : \E i \in lo .. hi : s[j] = r[i]

LEMMA RearrangedWider ==
  ASSUME NEW s, NEW r, NEW lo \in Int, NEW hi \in Int, NEW lo2 \in Int, NEW hi2 \in Int,
         lo2 <= lo, hi <= hi2, lo2 .. hi2 \subseteq DOMAIN s, Rearranged(s, r, lo, hi)
  PROVE  Rearranged(s, r, lo2, hi2)
<1>1. lo .. hi \subseteq lo2 .. hi2
  OBVIOUS
<1>2. ASSUME NEW i \in lo2 .. hi2
      PROVE  (\E j \in lo2 .. hi2 : r[i] = s[j]) /\ \E j \in lo2 .. hi2 : s[i] = r[j]
  <2>1. CASE i \in lo .. hi
    BY <1>1, <2>1 DEF Rearranged
  <2>2. CASE i \notin lo .. hi
    <3>1. r[i] = s[i]
      BY <2>2 DEF Rearranged
    <3> QED BY <3>1
  <2> QED BY <2>1, <2>2
<1>3. \A i \in DOMAIN s : i \notin lo2 .. hi2 => r[i] = s[i]
  BY <1>1 DEF Rearranged
<1> QED BY <1>2, <1>3 DEF Rearranged

\* One rearrangement after another is one.
LEMMA RearrangedThen ==
  ASSUME NEW s, NEW r, NEW t, NEW lo \in Int, NEW hi \in Int, DOMAIN r = DOMAIN s,
         Rearranged(s, r, lo, hi), Rearranged(r, t, lo, hi)
  PROVE  Rearranged(s, t, lo, hi)
<1>1. \A i \in DOMAIN s : i \notin lo .. hi => t[i] = s[i]
  BY DEF Rearranged
<1>2. ASSUME NEW i \in lo .. hi
      PROVE  (\E j \in lo .. hi : t[i] = s[j]) /\ \E j \in lo .. hi : s[i] = t[j]
  <2>1. PICK j \in lo .. hi : t[i] = r[j]
    BY DEF Rearranged
  <2>2. PICK k \in lo .. hi : r[j] = s[k]
    BY DEF Rearranged
  <2>3. PICK x \in lo .. hi : s[i] = r[x]
    BY DEF Rearranged
  <2>4. PICK y \in lo .. hi : r[x] = t[y]
    BY DEF Rearranged
  <2> QED BY <2>1, <2>2, <2>3, <2>4
<1> QED BY <1>1, <1>2 DEF Rearranged

LEMMA RearrangedSame ==
  ASSUME NEW s, NEW lo \in Int, NEW hi \in Int
  PROVE  Rearranged(s, s, lo, hi)
BY DEF Rearranged

LEMMA RefilledAll ==
  ASSUME NEW s, NEW r, NEW lo \in Int, NEW hi \in Int, NEW hole \in lo .. hi,
         Refilled(s, r, lo, hi, hole, s[hole])
  PROVE  Rearranged(s, r, lo, hi)
<1>1. ASSUME NEW j \in lo .. hi
      PROVE  \E i \in lo .. hi : s[j] = r[i]
  BY DEF Refilled
<1> QED BY <1>1 DEF Refilled, Rearranged

LEMMA RearrangedTyped ==
  ASSUME NEW n \in Nat, NEW s \in Arrays(n), NEW i \in 1 .. n, NEW j \in 1 .. n
  PROVE  LET r == Exchange2(s, i, j)
         IN  r \in Arrays(n) /\ \A k \in 1 .. n : r[k] = IF k = i THEN s[j] ELSE IF k = j THEN s[i] ELSE s[k]
<1>1. s[i] \in Elem /\ s[j] \in Elem /\ DOMAIN s = 1 .. n
  BY DEF Arrays
<1> QED BY <1>1 DEF Exchange2, Arrays

LEMMA ExchangeRearranges ==
  ASSUME NEW n \in Nat, NEW s \in Arrays(n), NEW lo \in 1 .. n, NEW hi \in 1 .. n,
         NEW i \in lo .. hi, NEW j \in lo .. hi
  PROVE  Rearranged(s, Exchange2(s, i, j), lo, hi)
<1> DEFINE r == Exchange2(s, i, j)
<1>1. i \in 1 .. n /\ j \in 1 .. n /\ DOMAIN s = 1 .. n /\ lo .. hi \subseteq 1 .. n
  BY DEF Arrays
<1>2. \A k \in 1 .. n : r[k] = IF k = i THEN s[j] ELSE IF k = j THEN s[i] ELSE s[k]
  BY <1>1, RearrangedTyped
<1> HIDE DEF r
<1>3. ASSUME NEW k \in lo .. hi
      PROVE  (\E l \in lo .. hi : r[k] = s[l]) /\ \E l \in lo .. hi : s[k] = r[l]
  BY <1>1, <1>2
<1>4. Rearranged(s, r, lo, hi)
  BY <1>1, <1>2, <1>3 DEF Rearranged
<1> QED BY <1>4 DEF r

-----------------------------------------------------------------------------
(* Operations on heaps                                                     *)

\* Without a heap the value goes where the first element was.
LEMMA AdjustNothing ==
  ASSUME NEW n \in Nat, NEW s \in Arrays(n), NEW first \in 1 .. n, NEW value \in Elem
  PROVE  LET r == AdjustHeap(s, first, 0, 0, value)
         IN  r \in Arrays(n) /\ Refilled(s, r, first, first, first, value)
<1> DEFINE V == HolesDown(s, first, 0, 0)
           end == CHOOSE h \in V : \A g \in V : g <= h
           r == AdjustHeap(s, first, 0, 0, value)
<1>1. V = {0}
  <2>1. PICK C : /\ \A hole : HolesDown(s, first, hole, 0) = C[hole]
                 /\ \A h \in 0 .. 0 : C[h] = DownBody(s, first, 0, h, C)
    BY DownSolved
  <2>2. C[0] = DownBody(s, first, 0, 0, C)
    BY <2>1
  <2>3. DownBody(s, first, 0, 0, C) = {0}
    BY DEF DownBody, LeftOnly
  <2> QED BY <2>1, <2>2, <2>3
<1>2. end = 0
  <2> HIDE DEF V
  <2>1. \A h \in V : \A g \in V : g <= h
    BY <1>1
  <2> QED BY <1>1, <2>1
<1>3. r = PushHeap(Sunk(s, first, 0, V, end), first, end, 0, value)
  BY DEF AdjustHeap, Sunk
<1> HIDE DEF V, end, r
<1>4. Sunk(s, first, 0, V, end) = s
  <2>1. V \ {end} = {}
    BY <1>1, <1>2
  <2>2. DOMAIN s = 1 .. n /\ s = [i \in 1 .. n |-> s[i]]
    BY DEF Arrays
  <2>3. Sunk(s, first, 0, V, end) = [i \in 1 .. n |-> s[i]]
    BY <2>1, <2>2 DEF Sunk
  <2> QED BY <2>2, <2>3
<1>5. r = PushHeap(s, first, 0, 0, value)
  BY <1>2, <1>3, <1>4
<1>6. first + 0 = first /\ 0 \in Nat /\ first + 0 <= n
  OBVIOUS
<1>7. r \in Arrays(n) /\ Refilled(s, r, first, first + 0, first + 0, value)
  BY <1>5, <1>6, PushRefills
<1> QED BY <1>6, <1>7 DEF r

\* What __pop_heap() of a heap of length len leaves
Popped(s, r, first, len, result) ==
  /\ r[result] = s[first] /\ Rearranged(s, r, first, result)
  /\ len > 0 => /\ \A i \in first + len .. result - 1 : r[i] = s[i]
                /\ \A i \in first .. first + len - 1 :
                      r[i] = s[result] \/ \E j \in first .. first + len - 1 : r[i] = s[j]

LEMMA PopRight ==
  ASSUME NEW n \in Nat, NEW s \in Arrays(n), NEW first \in 1 .. n, NEW len \in Nat, NEW result \in 1 .. n,
         first < result, first + len <= result
  PROVE  LET r == PopHeap(s, first, first + len, result)
         IN  r \in Arrays(n) /\ Popped(s, r, first, len, result)
<1> DEFINE t == [s EXCEPT ![result] = s[first]]
           value == s[result]
           top == IF len = 0 THEN first ELSE first + len - 1
           r == PopHeap(s, first, first + len, result)
<1>1. r = AdjustHeap(t, first, 0, len, value)
  <2>1. (first + len) - first = len
    OBVIOUS
  <2> QED BY <2>1 DEF PopHeap
<1>2. /\ t \in Arrays(n) /\ value \in Elem /\ DOMAIN s = 1 .. n /\ DOMAIN t = 1 .. n
      /\ t[result] = s[first] /\ \A i \in 1 .. n : i # result => t[i] = s[i]
  <2>1. s[first] \in Elem /\ DOMAIN s = 1 .. n
    BY DEF Arrays
  <2> QED BY <2>1 DEF Arrays
<1> HIDE DEF t, r
<1>3. r \in Arrays(n) /\ Refilled(t, r, first, top, first, value)
  <2>1. CASE len = 0
    BY <1>1, <1>2, <2>1, AdjustNothing
  <2>2. CASE len # 0
    <3>1. 0 \in 0 .. len - 1 /\ first + 0 = first /\ first + len - 1 <= n
      BY <2>2
    <3>2. r \in Arrays(n) /\ Refilled(t, r, first, first + len - 1, first + 0, value)
      BY <1>1, <1>2, <3>1, AdjustRefills
    <3> QED BY <2>2, <3>1, <3>2
  <2> QED BY <2>1, <2>2
<1>4. top \in Int /\ first <= top /\ top < result /\ (len > 0 => top = first + len - 1)
  OBVIOUS
<1> HIDE DEF top, value
<1>5. r[result] = s[first]
  BY <1>2, <1>3, <1>4 DEF Refilled
<1>6. \A i \in 1 .. n : i \notin first .. top /\ i # result => r[i] = s[i]
  BY <1>2, <1>3, <1>4 DEF Refilled
<1>7. ASSUME NEW i \in first .. top
      PROVE  r[i] = value \/ \E j \in first .. top : r[i] = s[j]
  <2>1. CASE r[i] = value
    BY <2>1
  <2>2. CASE \E j \in (first .. top) \ {first} : r[i] = t[j]
    <3>1. PICK j \in (first .. top) \ {first} : r[i] = t[j]
      BY <2>2
    <3>2. j \in 1 .. n /\ j # result
      BY <1>4
    <3> QED BY <1>2, <3>1, <3>2
  <2> QED BY <1>3, <2>1, <2>2 DEF Refilled
<1>8. ASSUME NEW i \in first .. result
      PROVE  \E j \in first .. result : r[i] = s[j]
  <2>1. CASE i \in first .. top
    <3>1. CASE r[i] = value
      BY <1>4, <3>1 DEF value
    <3>2. CASE \E j \in first .. top : r[i] = s[j]
      <4>1. first .. top \subseteq first .. result
        BY <1>4
      <4> QED BY <3>2, <4>1
    <3> QED BY <1>7, <2>1, <3>1, <3>2
  <2>2. CASE i \notin first .. top /\ i # result
    <3>1. i \in 1 .. n
      OBVIOUS
    <3> QED BY <1>6, <2>2, <3>1
  <2>3. CASE i = result
    <3>1. first \in first .. result
      OBVIOUS
    <3> QED BY <1>5, <2>3, <3>1
  <2> QED BY <2>1, <2>2, <2>3
<1>9. ASSUME NEW j \in first .. result
      PROVE  \E i \in first .. result : s[j] = r[i]
  <2>1. first .. top \subseteq first .. result /\ result \in first .. result /\ result \in Int
    BY <1>4
  <2>2. CASE j = first
    BY <1>5, <2>1, <2>2
  <2>3. CASE j = result
    <3>1. \E i \in first .. top : r[i] = value
      BY <1>3 DEF Refilled
    <3> QED BY <2>1, <2>3, <3>1 DEF value
  <2>4. CASE j \in (first .. top) \ {first}
    <3>1. \E i \in first .. top : r[i] = t[j]
      BY <1>3, <2>4 DEF Refilled
    <3>2. t[j] = s[j]
      <4>1. j \in 1 .. n /\ j # result
        BY <1>4, <2>4
      <4> QED BY <1>2, <4>1
    <3> QED BY <2>1, <3>1, <3>2
  <2>5. CASE j \notin first .. top /\ j # result
    <3>1. j \in 1 .. n
      OBVIOUS
    <3> QED BY <1>6, <2>5, <3>1
  <2> QED BY <2>2, <2>3, <2>4, <2>5
<1>10. Rearranged(s, r, first, result)
  <2>1. \A i \in DOMAIN s : i \notin first .. result => r[i] = s[i]
    BY <1>2, <1>4, <1>6
  <2> QED BY <1>8, <1>9, <2>1 DEF Rearranged
<1>11. ASSUME len > 0
       PROVE  /\ \A i \in first + len .. result - 1 : r[i] = s[i]
              /\ \A i \in first .. first + len - 1 :
                    r[i] = s[result] \/ \E j \in first .. first + len - 1 : r[i] = s[j]
  <2>1. \A i \in first + len .. result - 1 : i \in 1 .. n /\ i \notin first .. top /\ i # result
    BY <1>4, <1>11
  <2>2. first .. top = first .. first + len - 1
    BY <1>4, <1>11
  <2> QED BY <1>6, <1>7, <2>1, <2>2 DEF value
<1> QED BY <1>3, <1>5, <1>10, <1>11 DEF Popped, r

\* __pop_heap() leaves a heap of what is in front of result.
LEMMA PopKeepsHeap ==
  ASSUME NEW n \in Nat, NEW s \in Arrays(n), NEW first \in 1 .. n, NEW len \in Nat, NEW result \in 1 .. n,
         first < result, first + len <= result, HeapFrom(s, first, len, 0)
  PROVE  HeapFrom(PopHeap(s, first, first + len, result), first, len, 0)
<1> DEFINE t == [s EXCEPT ![result] = s[first]]
           value == s[result]
           r == PopHeap(s, first, first + len, result)
<1>1. r = AdjustHeap(t, first, 0, len, value)
  <2>1. (first + len) - first = len
    OBVIOUS
  <2> QED BY <2>1 DEF PopHeap
<1>2. /\ t \in Arrays(n) /\ value \in Elem
      /\ \A i \in 1 .. n : i # result => t[i] = s[i]
  <2>1. s[first] \in Elem /\ DOMAIN s = 1 .. n
    BY DEF Arrays
  <2> QED BY <2>1 DEF Arrays
<1> HIDE DEF t, r, value
<1>3. CASE len = 0
  BY <1>3 DEF HeapFrom
<1>4. CASE len # 0
  <2>1. HeapFrom(t, first, len, 0 + 1)
    <3> SUFFICES ASSUME NEW c \in 1 .. len - 1, Parent(c) >= 0 + 1
                 PROVE  ~Less(t[first + Parent(c)], t[first + c])
      BY DEF HeapFrom
    <3>1. c \in Nat \ {0}
      OBVIOUS
    <3>2. Parent(c) \in Nat /\ Parent(c) < c
      BY <3>1, ParentOf
    <3>3. first + Parent(c) \in 1 .. n /\ first + Parent(c) # result
      BY <3>2
    <3>4. first + c \in 1 .. n /\ first + c # result
      OBVIOUS
    <3>5. ~Less(s[first + Parent(c)], s[first + c])
      BY <3>2 DEF HeapFrom
    <3> QED BY <1>2, <3>3, <3>4, <3>5
  <2>2. 0 \in 0 .. len - 1 /\ first + len - 1 <= n
    BY <1>4
  <2>3. HeapFrom(AdjustHeap(t, first, 0, len, value), first, len, 0)
    BY <1>2, <2>1, <2>2, AdjustMakesHeap
  <2> QED BY <1>1, <2>3 DEF r
<1> QED BY <1>3, <1>4

\* What __make_heap() makes
Heaped(n, s, r, first, last) ==
  r \in Arrays(n) /\ Rearranged(s, r, first, last - 1) /\ HeapFrom(r, first, last - first, 0)

LEMMA MakeRight ==
  ASSUME NEW n \in Nat, NEW s \in Arrays(n), NEW first \in 1 .. n, NEW last \in first .. n + 1
  PROVE  Heaped(n, s, MakeHeap(s, first, last), first, last)
<1> DEFINE len == last - first
<1>1. CASE len < 2
  <2>1. MakeHeap(s, first, last) = s
    BY <1>1 DEF MakeHeap
  <2>2. HeapFrom(s, first, len, 0)
    BY <1>1 DEF HeapFrom
  <2>3. Rearranged(s, s, first, last - 1)
    BY RearrangedSame
  <2> QED BY <2>1, <2>2, <2>3 DEF Heaped
<1>2. CASE ~(len < 2)
  <2> DEFINE D == 0 .. len
             S == Arrays(n)
             top == Parent(len - 1)
             Body(p, F) == IF p > top THEN s ELSE AdjustHeap(F[p + 1], first, p, len, F[p + 1][first + p])
             m == [p \in D |-> len - p]
             stop == [p \in D |-> p > top]
             next == [p \in D |-> IF p > top THEN p ELSE p + 1]
             base == [p \in D |-> s]
             comb == [q \in D \X S |-> IF q[1] > top THEN s
                                       ELSE AdjustHeap(q[2], first, q[1], len, q[2][first + q[1]])]
             Right(F) == F = [p \in D |-> Body(p, F)]
             C == CHOOSE F : Right(F)
  <2>1. /\ len \in Nat /\ first + len - 1 <= n /\ last - 1 = first + len - 1
        /\ top \in Nat /\ top < len - 1 /\ top + 1 \in D
    <3>1. len - 1 \in Nat \ {0}
      BY <1>2
    <3> QED BY <3>1, ParentOf
  <2> HIDE DEF len, top
  <2>2. ASSUME NEW p \in D, ~(p > top)
        PROVE  p \in 0 .. len - 1 /\ p + 1 \in D /\ first + p \in 1 .. n
    BY <2>1, <2>2
  <2>3. ASSUME NEW p \in D, ~(p > top), NEW t \in S
        PROVE  AdjustHeap(t, first, p, len, t[first + p]) \in S
    <3>1. t[first + p] \in Elem
      BY <2>2, <2>3 DEF Arrays
    <3> QED BY <2>1, <2>2, <2>3, <3>1, AdjustRefills
  <2>4. m \in [D -> Nat] /\ stop \in [D -> BOOLEAN] /\ next \in [D -> D] /\ base \in [D -> S]
    BY <2>1, <2>2
  <2>5. comb \in [D \X S -> S]
    <3> SUFFICES ASSUME NEW q \in D \X S
                 PROVE  (IF q[1] > top THEN s
                         ELSE AdjustHeap(q[2], first, q[1], len, q[2][first + q[1]])) \in S
      OBVIOUS
    <3>1. q[1] \in D /\ q[2] \in S
      OBVIOUS
    <3> QED BY <2>3, <3>1
  <2>6. \A p \in D : ~stop[p] => m[next[p]] < m[p]
    <3> SUFFICES ASSUME NEW p \in D, ~(p > top)
                 PROVE  m[p + 1] < m[p]
      OBVIOUS
    <3> QED BY <2>1, <2>2
  <2>7. \E F : Right(F)
    <3>1. GoesDown(D, S, m, stop, next, base, comb)
      <4>1. S # {}
        OBVIOUS
      <4> HIDE DEF D, S, m, stop, next, base, comb
      <4> QED BY <2>4, <2>5, <2>6, <4>1 DEF GoesDown
    <3> HIDE DEF D, S, m, stop, next, base, comb
    <3>2. PICK F : Follows(F, D, S, stop, next, base, comb)
      BY <3>1, Chained
    <3>3. ASSUME NEW p \in D
          PROVE  F[p] = Body(p, F)
      <4>1. next[p] \in D /\ F[next[p]] \in S
        BY <2>4, <3>2 DEF Follows
      <4>2. <<p, F[next[p]]>> \in D \X S
        BY <4>1
      <4>3. CASE p > top
        BY <3>2, <4>3 DEF stop, base, Follows
      <4>4. CASE ~(p > top)
        <5>1. next[p] = p + 1
          BY <4>4 DEF next
        <5>2. comb[<<p, F[p + 1]>>] = AdjustHeap(F[p + 1], first, p, len, F[p + 1][first + p])
          BY <4>2, <4>4, <5>1 DEF comb
        <5>3. F[p] = comb[<<p, F[p + 1]>>]
          BY <3>2, <4>4, <5>1 DEF stop, Follows
        <5> QED BY <4>4, <5>2, <5>3
      <4> QED BY <4>3, <4>4
    <3>4. F \in [D -> S]
      BY <3>2 DEF Follows
    <3> HIDE DEF Body
    <3> QED BY <3>3, <3>4
  <2>8. Right(C)
    BY <2>7
  <2>9. MakeHeap(s, first, last) = C[0]
    BY <1>2 DEF MakeHeap, len, top
  <2> HIDE DEF C
  <2>10. \A p \in D : C[p] = Body(p, C)
    BY <2>8
  <2> DEFINE Q == {p \in D : p <= top + 1 => /\ C[p] \in S /\ Rearranged(s, C[p], first, last - 1)
                                             /\ HeapFrom(C[p], first, len, p)}
  <2>11. ASSUME NEW p \in D, \A x \in D : m[x] < m[p] => x \in Q
         PROVE  p \in Q
    <3>1. CASE p > top + 1
      BY <2>1, <3>1
    <3>2. CASE p = top + 1
      <4>1. C[p] = s
        BY <2>1, <2>10, <3>2
      <4>2. HeapFrom(s, first, len, p)
        <5> SUFFICES ASSUME NEW c \in 1 .. len - 1
                     PROVE  ~(Parent(c) >= p)
          BY DEF HeapFrom
        <5>1. c \in Nat \ {0} /\ len - 1 \in Nat \ {0} /\ c <= len - 1
          BY <2>1
        <5>2. Parent(c) <= Parent(len - 1)
          BY <5>1 DEF Parent
        <5>3. Parent(c) \in Nat
          BY <5>1, ParentOf
        <5> QED BY <2>1, <3>2, <5>2, <5>3 DEF top
      <4>3. Rearranged(s, s, first, last - 1)
        BY RearrangedSame
      <4> QED BY <4>1, <4>2, <4>3
    <3>3. CASE p <= top
      <4>1. p + 1 \in D /\ p \in 0 .. len - 1 /\ first + p \in 1 .. n /\ ~(p > top)
        BY <2>1, <2>2, <3>3
      <4>2. p + 1 \in Q
        BY <2>1, <2>11, <4>1
      <4> DEFINE t == C[p + 1]
                 r == AdjustHeap(t, first, p, len, t[first + p])
      <4>3. t \in S /\ Rearranged(s, t, first, last - 1) /\ HeapFrom(t, first, len, p + 1)
        BY <2>1, <3>3, <4>2
      <4>4. C[p] = r
        BY <2>10, <4>1
      <4> HIDE DEF t
      <4>5. t[first + p] \in Elem
        BY <4>1, <4>3 DEF Arrays
      <4>6. r \in S /\ Refilled(t, r, first, first + len - 1, first + p, t[first + p])
        BY <2>1, <4>1, <4>3, <4>5, AdjustRefills
      <4>7. HeapFrom(r, first, len, p)
        BY <2>1, <4>1, <4>3, <4>5, AdjustMakesHeap
      <4> HIDE DEF r
      <4>8. first + p \in first .. last - 1 /\ last - 1 \in Int
        BY <2>1, <4>1
      <4>9. Rearranged(t, r, first, last - 1)
        BY <2>1, <4>6, <4>8, RefilledAll
      <4>10. DOMAIN t = DOMAIN s
        BY <4>3 DEF Arrays
      <4>11. Rearranged(s, r, first, last - 1)
        BY <4>3, <4>8, <4>9, <4>10, RearrangedThen
      <4> QED BY <4>4, <4>6, <4>7, <4>11
    <3> QED BY <2>1, <3>1, <3>2, <3>3
  <2>12. Q = D
    <3>1. Q \in SUBSET D
      OBVIOUS
    <3> HIDE DEF Q, D, m
    <3> QED BY <2>4, <2>11, <3>1, ByMeasure
  <2>13. 0 \in Q /\ 0 <= top + 1
    BY <2>1, <2>12
  <2> QED BY <2>9, <2>13 DEF Heaped, len
<1> QED BY <1>1, <1>2

Ascending(s, lo, hi) == \A i, j \in lo .. hi : i < j => ~Less(s[j], s[i])

\* From i on, nothing is less than anything before it.
SettledFrom(s, first, i, last) ==
  \A k \in i .. last - 1 : \A j \in first .. k - 1 : ~Less(s[k], s[j])

\* The same for the rounds of loops that pop
LEMMA PopTyped ==
  ASSUME NEW n \in Nat, NEW t \in Arrays(n), NEW first \in 1 .. n, NEW middle \in first .. n,
         NEW i \in middle .. n, first < i
  PROVE  PopHeap(t, first, middle, i) \in Arrays(n) /\ Popped(t, PopHeap(t, first, middle, i), first, middle - first, i)
<1> DEFINE len == middle - first
<1>1. len \in Nat /\ first + len = middle /\ i \in 1 .. n
  OBVIOUS
<1> HIDE DEF len
<1>2. LET r == PopHeap(t, first, first + len, i)
      IN  r \in Arrays(n) /\ Popped(t, r, first, len, i)
  BY <1>1, PopRight
<1> QED BY <1>1, <1>2 DEF len

\* A round of __sort_heap() puts the greatest that is left behind all the others.
LEMMA PopSettles ==
  ASSUME NEW n \in Nat, NEW t \in Arrays(n), NEW first \in 1 .. n, NEW last \in first .. n + 1,
         NEW i \in first + 1 .. last - 1,
         HeapFrom(t, first, i + 1 - first, 0), SettledFrom(t, first, i + 1, last)
  PROVE  LET r == PopHeap(t, first, i, i)
         IN  /\ r \in Arrays(n) /\ Rearranged(t, r, first, last - 1)
             /\ HeapFrom(r, first, i - first, 0) /\ SettledFrom(r, first, i, last)
<1> DEFINE len == i - first
           r == PopHeap(t, first, i, i)
<1>1. len \in Nat \ {0} /\ first + len = i /\ i \in 1 .. n /\ first < i /\ last - 1 \in 1 .. n
  OBVIOUS
<1> HIDE DEF len
<1>2. r = PopHeap(t, first, first + len, i)
  BY <1>1
<1>3. r \in Arrays(n) /\ Popped(t, r, first, len, i)
  BY <1>1, <1>2, PopRight
<1>4. HeapFrom(t, first, len, 0)
  <2> SUFFICES ASSUME NEW c \in 1 .. len - 1, Parent(c) >= 0
               PROVE  ~Less(t[first + Parent(c)], t[first + c])
    BY DEF HeapFrom
  <2>1. c \in 1 .. (i + 1 - first) - 1
    BY DEF len
  <2> QED BY <2>1 DEF HeapFrom
<1>5. HeapFrom(r, first, len, 0)
  BY <1>1, <1>2, <1>4, PopKeepsHeap
<1> HIDE DEF r
<1>6. /\ r[i] = t[first] /\ Rearranged(t, r, first, i)
      /\ \A k \in first .. i - 1 : r[k] = t[i] \/ \E j \in first .. i - 1 : r[k] = t[j]
  BY <1>1, <1>3 DEF Popped
<1>7. DOMAIN t = 1 .. n
  BY DEF Arrays
<1>8. Rearranged(t, r, first, last - 1)
  <2>1. i <= last - 1 /\ first .. last - 1 \subseteq DOMAIN t
    BY <1>1, <1>7
  <2> QED BY <1>1, <1>6, <2>1, RearrangedWider
<1>9. \A k \in first .. i : \E j \in first .. i : r[k] = t[j]
  BY <1>6 DEF Rearranged
<1>10. \A k \in i + 1 .. last - 1 : r[k] = t[k]
  <2>1. \A k \in i + 1 .. last - 1 : k \in DOMAIN t /\ k \notin first .. i
    BY <1>1, <1>7
  <2> QED BY <1>6, <2>1 DEF Rearranged
<1>11. \A j \in first .. i : ~Less(t[first], t[j])
  <2>1. i + 1 - first \in Nat /\ first + (i + 1 - first) - 1 = i
    BY <1>1
  <2> QED BY <1>1, <2>1, TopGreatest
<1>12. SettledFrom(r, first, i, last)
  <2> SUFFICES ASSUME NEW k \in i .. last - 1, NEW j \in first .. k - 1
               PROVE  ~Less(r[k], r[j])
    BY DEF SettledFrom
  <2>1. CASE k = i
    <3>1. PICK x \in first .. i : r[j] = t[x]
      BY <1>9, <2>1
    <3> QED BY <1>6, <1>11, <2>1, <3>1
  <2>2. CASE k # i /\ j \in first .. i
    <3>1. PICK x \in first .. i : r[j] = t[x]
      BY <1>9, <2>2
    <3>2. k \in i + 1 .. last - 1 /\ x \in first .. k - 1
      BY <2>2
    <3> QED BY <1>10, <3>1, <3>2 DEF SettledFrom
  <2>3. CASE k # i /\ j \notin first .. i
    <3>1. k \in i + 1 .. last - 1 /\ j \in i + 1 .. last - 1
      BY <2>3
    <3> QED BY <1>10, <3>1 DEF SettledFrom
  <2> QED BY <2>1, <2>2, <2>3
<1> QED BY <1>3, <1>5, <1>8, <1>12 DEF r, len

\* __sort_heap() sorts a heap.
LEMMA SortHeapRight ==
  ASSUME NEW n \in Nat, NEW s \in Arrays(n), NEW first \in 1 .. n, NEW last \in first .. n + 1,
         HeapFrom(s, first, last - first, 0)
  PROVE  LET r == SortHeap(s, first, last)
         IN  r \in Arrays(n) /\ Rearranged(s, r, first, last - 1) /\ Ascending(r, first, last - 1)
<1>1. CASE ~(last - first > 1)
  <2>1. SortHeap(s, first, last) = s
    BY <1>1 DEF SortHeap
  <2>2. Ascending(s, first, last - 1)
    BY <1>1 DEF Ascending
  <2>3. Rearranged(s, s, first, last - 1)
    BY RearrangedSame
  <2> QED BY <2>1, <2>2, <2>3
<1>2. CASE last - first > 1
  <2> DEFINE D == first + 1 .. last
             S == Arrays(n)
             Body(i, F) == IF i = last THEN s ELSE PopHeap(F[i + 1], first, i, i)
             m == [i \in D |-> last - i]
             stop == [i \in D |-> i = last]
             next == [i \in D |-> IF i = last THEN i ELSE i + 1]
             base == [i \in D |-> s]
             comb == [q \in D \X S |-> IF q[1] = last THEN s ELSE PopHeap(q[2], first, q[1], q[1])]
             Right(F) == F = [i \in D |-> Body(i, F)]
             C == CHOOSE F : Right(F)
  <2>1. ASSUME NEW i \in D, i # last
        PROVE  i + 1 \in D /\ i \in 1 .. n /\ i \in Nat /\ first < i
    BY <2>1
  <2>2. ASSUME NEW i \in D, i # last, NEW t \in S
        PROVE  PopHeap(t, first, i, i) \in S
    <3>1. i \in first .. n /\ i \in i .. n
      BY <2>1, <2>2
    <3> QED BY <2>1, <2>2, <3>1, PopTyped
  <2>3. m \in [D -> Nat] /\ stop \in [D -> BOOLEAN] /\ next \in [D -> D] /\ base \in [D -> S]
    BY <2>1
  <2>4. comb \in [D \X S -> S]
    <3> SUFFICES ASSUME NEW q \in D \X S
                 PROVE  (IF q[1] = last THEN s ELSE PopHeap(q[2], first, q[1], q[1])) \in S
      OBVIOUS
    <3>1. q[1] \in D /\ q[2] \in S
      OBVIOUS
    <3> QED BY <2>2, <3>1
  <2>5. \A i \in D : ~stop[i] => m[next[i]] < m[i]
    <3> SUFFICES ASSUME NEW i \in D, i # last
                 PROVE  m[i + 1] < m[i]
      OBVIOUS
    <3> QED BY <2>1
  <2>6. \E F : Right(F)
    <3>1. GoesDown(D, S, m, stop, next, base, comb)
      <4>1. S # {}
        OBVIOUS
      <4> HIDE DEF D, S, m, stop, next, base, comb
      <4> QED BY <2>3, <2>4, <2>5, <4>1 DEF GoesDown
    <3> HIDE DEF D, S, m, stop, next, base, comb
    <3>2. PICK F : Follows(F, D, S, stop, next, base, comb)
      BY <3>1, Chained
    <3>3. ASSUME NEW i \in D
          PROVE  F[i] = Body(i, F)
      <4>1. next[i] \in D /\ F[next[i]] \in S
        BY <2>3, <3>2 DEF Follows
      <4>2. <<i, F[next[i]]>> \in D \X S
        BY <4>1
      <4>3. CASE i = last
        BY <3>2, <4>3 DEF stop, base, Follows
      <4>4. CASE i # last
        <5>1. next[i] = i + 1
          BY <4>4 DEF next
        <5>2. comb[<<i, F[i + 1]>>] = PopHeap(F[i + 1], first, i, i)
          BY <4>2, <4>4, <5>1 DEF comb
        <5>3. F[i] = comb[<<i, F[i + 1]>>]
          BY <3>2, <4>4, <5>1 DEF stop, Follows
        <5> QED BY <4>4, <5>2, <5>3
      <4> QED BY <4>3, <4>4
    <3>4. F \in [D -> S]
      BY <3>2 DEF Follows
    <3> HIDE DEF Body
    <3> QED BY <3>3, <3>4
  <2>7. Right(C)
    BY <2>6
  <2>8. SortHeap(s, first, last) = C[first + 1]
    BY <1>2 DEF SortHeap
  <2> HIDE DEF C
  <2>9. \A i \in D : C[i] = Body(i, C)
    BY <2>7
  <2> DEFINE Q == {i \in D : /\ C[i] \in S /\ Rearranged(s, C[i], first, last - 1)
                             /\ HeapFrom(C[i], first, i - first, 0) /\ SettledFrom(C[i], first, i, last)}
  <2>10. ASSUME NEW i \in D, \A x \in D : m[x] < m[i] => x \in Q
         PROVE  i \in Q
    <3>1. CASE i = last
      <4>1. C[i] = s
        BY <2>9, <3>1
      <4>2. SettledFrom(s, first, i, last)
        BY <3>1 DEF SettledFrom
      <4>3. Rearranged(s, s, first, last - 1)
        BY RearrangedSame
      <4> QED BY <3>1, <4>1, <4>2, <4>3
    <3>2. CASE i # last
      <4>1. i + 1 \in Q
        BY <2>1, <2>10, <3>2
      <4> DEFINE t == C[i + 1]
                 r == PopHeap(t, first, i, i)
      <4>2. /\ t \in S /\ Rearranged(s, t, first, last - 1)
            /\ HeapFrom(t, first, i + 1 - first, 0) /\ SettledFrom(t, first, i + 1, last)
        BY <4>1
      <4>3. C[i] = r
        BY <2>9, <3>2
      <4> HIDE DEF t
      <4>4. i \in first + 1 .. last - 1 /\ last - 1 \in Int
        BY <3>2
      <4>5. /\ r \in S /\ Rearranged(t, r, first, last - 1)
            /\ HeapFrom(r, first, i - first, 0) /\ SettledFrom(r, first, i, last)
        BY <4>2, <4>4, PopSettles
      <4> HIDE DEF r
      <4>6. DOMAIN t = DOMAIN s
        BY <4>2 DEF Arrays
      <4>7. Rearranged(s, r, first, last - 1)
        BY <4>2, <4>4, <4>5, <4>6, RearrangedThen
      <4> QED BY <4>3, <4>5, <4>7
    <3> QED BY <3>1, <3>2
  <2>11. Q = D
    <3>1. Q \in SUBSET D
      OBVIOUS
    <3> HIDE DEF Q, D, m
    <3> QED BY <2>3, <2>10, <3>1, ByMeasure
  <2> DEFINE r == C[first + 1]
  <2>12. r \in S /\ Rearranged(s, r, first, last - 1) /\ SettledFrom(r, first, first + 1, last)
    <3>1. first + 1 \in D
      BY <1>2
    <3> QED BY <2>11, <3>1
  <2> HIDE DEF r
  <2>13. Ascending(r, first, last - 1)
    <3> SUFFICES ASSUME NEW i \in first .. last - 1, NEW j \in first .. last - 1, i < j
                 PROVE  ~Less(r[j], r[i])
      BY DEF Ascending
    <3>1. j \in first + 1 .. last - 1 /\ i \in first .. j - 1
      OBVIOUS
    <3> QED BY <2>12, <3>1 DEF SettledFrom
  <2> QED BY <2>8, <2>12, <2>13 DEF r
<1> QED BY <1>1, <1>2

-----------------------------------------------------------------------------
(* __heap_select() and partial_sort()                                      *)

\* A heap of what is in front of middle, and nothing behind it up to k that is less
\* than its top
HeapLeast(t, first, middle, k) ==
  /\ HeapFrom(t, first, middle - first, 0)
  /\ first < middle => \A j \in middle .. k - 1 : ~Less(t[j], t[first])

SelectRound(t, first, middle, i) ==
  IF Less(t[i - 1], t[first]) THEN PopHeap(t, first, middle, i - 1) ELSE t

\* A round of __heap_select() leaves the least of what it has looked at in the heap.
LEMMA SelectRoundRight ==
  ASSUME NEW n \in Nat, NEW t \in Arrays(n), NEW first \in 1 .. n, NEW middle \in first .. n,
         NEW i \in middle + 1 .. n + 1
  PROVE  LET r == SelectRound(t, first, middle, i)
         IN  /\ r \in Arrays(n) /\ Rearranged(t, r, first, i - 1)
             /\ HeapLeast(t, first, middle, i - 1) => HeapLeast(r, first, middle, i)
<1> DEFINE r == SelectRound(t, first, middle, i)
           k == i - 1
           len == middle - first
<1>1. /\ k \in middle .. n /\ k \in 1 .. n /\ len \in Nat /\ first + len = middle /\ i - 1 = k
      /\ first <= k
  OBVIOUS
<1> HIDE DEF k, len
<1>2. CASE ~Less(t[k], t[first])
  <2>1. r = t
    BY <1>1, <1>2 DEF SelectRound
  <2>2. Rearranged(t, t, first, k)
    BY <1>1, RearrangedSame
  <2>3. ASSUME HeapLeast(t, first, middle, k)
        PROVE  HeapLeast(t, first, middle, i)
    <3> SUFFICES ASSUME first < middle, NEW j \in middle .. i - 1
                 PROVE  ~Less(t[j], t[first])
      BY <2>3 DEF HeapLeast
    <3>1. CASE j = k
      BY <1>2, <3>1
    <3>2. CASE j # k
      <4>1. j \in middle .. k - 1
        BY <1>1, <3>2
      <4> QED BY <2>3, <4>1 DEF HeapLeast
    <3> QED BY <3>1, <3>2
  <2> QED BY <1>1, <2>1, <2>2, <2>3
<1>3. CASE Less(t[k], t[first])
  <2>1. first < k
    <3>1. t[first] \in Elem
      BY DEF Arrays
    <3>2. first # k
      BY <1>3, <3>1, LessOrder
    <3> QED BY <1>1, <3>2
  <2>2. r = PopHeap(t, first, middle, k)
    BY <1>1, <1>3 DEF SelectRound
  <2>3. r \in Arrays(n) /\ Popped(t, r, first, len, k)
    <3>1. k \in middle .. n
      BY <1>1
    <3> QED BY <2>1, <2>2, <3>1, PopTyped DEF len
  <2>4. ASSUME HeapLeast(t, first, middle, k)
        PROVE  HeapLeast(r, first, middle, i)
    <3>1. HeapFrom(t, first, len, 0)
      BY <2>4 DEF HeapLeast, len
    <3>2. HeapFrom(r, first, len, 0)
      BY <1>1, <2>1, <2>2, <3>1, PopKeepsHeap
    <3>3. ASSUME first < middle, NEW j \in middle .. i - 1
          PROVE  ~Less(r[j], r[first])
      <4>1. /\ len > 0 /\ first .. first + len - 1 \subseteq 1 .. n /\ first \in first .. first + len - 1
            /\ first + len - 1 <= n
        BY <1>1, <3>3
      <4>2. /\ r[k] = t[first] /\ \A x \in first + len .. k - 1 : r[x] = t[x]
            /\ (r[first] = t[k] \/ \E x \in first .. first + len - 1 : r[first] = t[x])
        BY <2>3, <4>1 DEF Popped
      <4>3. \A x \in first .. first + len - 1 : ~Less(t[first], t[x])
        BY <1>1, <3>1, <4>1, TopGreatest
      <4>4. t[first] \in Elem /\ t[k] \in Elem /\ r[first] \in Elem
        BY <1>1, <2>3 DEF Arrays
      <4>5. ~Less(t[first], r[first])
        <5>1. CASE r[first] = t[k]
          BY <1>3, <4>4, <5>1, LessOrder
        <5>2. CASE \E x \in first .. first + len - 1 : r[first] = t[x]
          BY <4>3, <5>2
        <5> QED BY <4>2, <5>1, <5>2
      <4>6. CASE j = k
        BY <4>2, <4>5, <4>6
      <4>7. CASE j # k
        <5>1. j \in middle .. k - 1 /\ j \in first + len .. k - 1 /\ j \in 1 .. n
          BY <1>1, <3>3, <4>7
        <5>2. r[j] = t[j]
          BY <4>2, <5>1
        <5>3. ~Less(t[j], t[first])
          BY <2>4, <3>3, <5>1 DEF HeapLeast
        <5>4. t[j] \in Elem
          BY <5>1 DEF Arrays
        <5> QED BY <4>4, <4>5, <5>2, <5>3, <5>4, LessOrder
      <4> QED BY <4>6, <4>7
    <3> QED BY <3>2, <3>3 DEF HeapLeast, len
  <2> HIDE DEF r
  <2> QED BY <1>1, <2>3, <2>4 DEF Popped, r
<1> QED BY <1>2, <1>3

\* What __heap_select() makes
HeapSelected(n, s, r, first, middle, last) ==
  r \in Arrays(n) /\ Rearranged(s, r, first, last - 1) /\ HeapLeast(r, first, middle, last)

LEMMA HeapSelectRight ==
  ASSUME NEW n \in Nat, NEW s \in Arrays(n), NEW first \in 1 .. n, NEW middle \in first .. n + 1,
         NEW last \in middle .. n + 1
  PROVE  HeapSelected(n, s, HeapSelect(s, first, middle, last), first, middle, last)
<1> DEFINE D == middle .. last
           S == Arrays(n)
           made == MakeHeap(s, first, middle)
           Body(i, F) == IF i = middle THEN made ELSE SelectRound(F[i - 1], first, middle, i)
           m == [i \in D |-> i - middle]
           stop == [i \in D |-> i = middle]
           next == [i \in D |-> IF i = middle THEN i ELSE i - 1]
           base == [i \in D |-> made]
           comb == [q \in D \X S |-> IF q[1] = middle THEN made ELSE SelectRound(q[2], first, middle, q[1])]
           Right(F) == F = [i \in D |-> Body(i, F)]
           C == CHOOSE F : Right(F)
<1>1. Heaped(n, s, made, first, middle) /\ made \in S
  BY MakeRight DEF Heaped
<1> HIDE DEF made
<1>2. ASSUME NEW i \in D, i # middle
      PROVE  i - 1 \in D /\ middle \in first .. n /\ i \in middle + 1 .. n + 1
  BY <1>2
<1>3. ASSUME NEW i \in D, i # middle, NEW t \in S
      PROVE  SelectRound(t, first, middle, i) \in S
  BY <1>2, <1>3, SelectRoundRight
<1>4. m \in [D -> Nat] /\ stop \in [D -> BOOLEAN] /\ next \in [D -> D] /\ base \in [D -> S]
  BY <1>1, <1>2
<1>5. comb \in [D \X S -> S]
  <2> SUFFICES ASSUME NEW q \in D \X S
               PROVE  (IF q[1] = middle THEN made ELSE SelectRound(q[2], first, middle, q[1])) \in S
    OBVIOUS
  <2>1. q[1] \in D /\ q[2] \in S
    OBVIOUS
  <2> QED BY <1>1, <1>3, <2>1
<1>6. \A i \in D : ~stop[i] => m[next[i]] < m[i]
  <2> SUFFICES ASSUME NEW i \in D, i # middle
               PROVE  m[i - 1] < m[i]
    OBVIOUS
  <2> QED BY <1>2
<1>7. \E F : Right(F)
  <2>1. GoesDown(D, S, m, stop, next, base, comb)
    <3>1. S # {}
      OBVIOUS
    <3> HIDE DEF D, S, m, stop, next, base, comb
    <3> QED BY <1>4, <1>5, <1>6, <3>1 DEF GoesDown
  <2> HIDE DEF D, S, m, stop, next, base, comb
  <2>2. PICK F : Follows(F, D, S, stop, next, base, comb)
    BY <2>1, Chained
  <2>3. ASSUME NEW i \in D
        PROVE  F[i] = Body(i, F)
    <3>1. next[i] \in D /\ F[next[i]] \in S
      BY <1>4, <2>2 DEF Follows
    <3>2. <<i, F[next[i]]>> \in D \X S
      BY <3>1
    <3>3. CASE i = middle
      BY <2>2, <3>3 DEF stop, base, Follows
    <3>4. CASE i # middle
      <4>1. next[i] = i - 1
        BY <3>4 DEF next
      <4>2. comb[<<i, F[i - 1]>>] = SelectRound(F[i - 1], first, middle, i)
        BY <3>2, <3>4, <4>1 DEF comb
      <4>3. F[i] = comb[<<i, F[i - 1]>>]
        BY <2>2, <3>4, <4>1 DEF stop, Follows
      <4> QED BY <3>4, <4>2, <4>3
    <3> QED BY <3>3, <3>4
  <2>4. F \in [D -> S]
    BY <2>2 DEF Follows
  <2> HIDE DEF Body
  <2> QED BY <2>3, <2>4
<1>8. Right(C)
  BY <1>7
<1>9. HeapSelect(s, first, middle, last) = C[last]
  BY DEF HeapSelect, SelectRound, made
<1> HIDE DEF C
<1>10. \A i \in D : C[i] = Body(i, C)
  BY <1>8
<1> DEFINE Q == {i \in D : HeapSelected(n, s, C[i], first, middle, i)}
<1>11. ASSUME NEW i \in D, \A x \in D : m[x] < m[i] => x \in Q
       PROVE  i \in Q
  <2>1. CASE i = middle
    <3>1. C[i] = made
      BY <1>10, <2>1
    <3>2. HeapLeast(made, first, middle, middle)
      BY <1>1 DEF HeapLeast, Heaped
    <3> QED BY <1>1, <2>1, <3>1, <3>2 DEF HeapSelected, Heaped
  <2>2. CASE i # middle
    <3>1. i - 1 \in Q
      BY <1>2, <1>11, <2>2
    <3> DEFINE t == C[i - 1]
               r == SelectRound(t, first, middle, i)
    <3>2. t \in S /\ Rearranged(s, t, first, i - 1 - 1) /\ HeapLeast(t, first, middle, i - 1)
      BY <3>1 DEF HeapSelected
    <3>3. C[i] = r
      BY <1>10, <2>2
    <3> HIDE DEF t
    <3>4. /\ r \in S /\ Rearranged(t, r, first, i - 1)
          /\ HeapLeast(t, first, middle, i - 1) => HeapLeast(r, first, middle, i)
      BY <1>2, <2>2, <3>2, SelectRoundRight
    <3> HIDE DEF r
    <3>5. DOMAIN t = DOMAIN s /\ DOMAIN s = 1 .. n
      BY <3>2 DEF Arrays
    <3>6. i - 1 \in Int /\ i - 1 - 1 \in Int /\ i - 1 - 1 <= i - 1 /\ first .. i - 1 \subseteq 1 .. n
      OBVIOUS
    <3>7. Rearranged(s, t, first, i - 1)
      BY <3>2, <3>5, <3>6, RearrangedWider
    <3>8. Rearranged(s, r, first, i - 1)
      BY <3>4, <3>5, <3>6, <3>7, RearrangedThen
    <3> QED BY <3>2, <3>3, <3>4, <3>8 DEF HeapSelected
  <2> QED BY <2>1, <2>2
<1>12. Q = D
  <2>1. Q \in SUBSET D
    OBVIOUS
  <2> HIDE DEF Q, D, m
  <2> QED BY <1>4, <1>11, <2>1, ByMeasure
<1> QED BY <1>9, <1>12

\* What partial_sort() makes
PartlySorted(n, s, r, first, middle, last) ==
  /\ r \in Arrays(n) /\ Rearranged(s, r, first, last - 1) /\ Ascending(r, first, middle - 1)
  /\ \A i \in first .. middle - 1 : \A j \in middle .. last - 1 : ~Less(r[j], r[i])

LEMMA PartialSortRight ==
  ASSUME NEW n \in Nat, NEW s \in Arrays(n), NEW first \in 1 .. n, NEW middle \in first .. n + 1,
         NEW last \in middle .. n + 1
  PROVE  PartlySorted(n, s, PartialSort(s, first, middle, last), first, middle, last)
<1> DEFINE t == HeapSelect(s, first, middle, last)
           r == PartialSort(s, first, middle, last)
<1>1. t \in Arrays(n) /\ Rearranged(s, t, first, last - 1) /\ HeapLeast(t, first, middle, last)
  BY HeapSelectRight DEF HeapSelected
<1>2. r = SortHeap(t, first, middle)
  BY DEF PartialSort
<1> HIDE DEF t, r
<1>3. r \in Arrays(n) /\ Rearranged(t, r, first, middle - 1) /\ Ascending(r, first, middle - 1)
  <2>1. HeapFrom(t, first, middle - first, 0)
    BY <1>1 DEF HeapLeast
  <2> QED BY <1>1, <1>2, <2>1, SortHeapRight
<1>4. DOMAIN t = 1 .. n /\ DOMAIN s = 1 .. n
  BY <1>1 DEF Arrays
<1>5. Rearranged(s, r, first, last - 1)
  <2>1. first .. last - 1 \subseteq DOMAIN t /\ middle - 1 <= last - 1 /\ last - 1 \in Int /\ middle - 1 \in Int
    BY <1>4
  <2>2. Rearranged(t, r, first, last - 1)
    BY <1>3, <2>1, RearrangedWider
  <2> QED BY <1>1, <1>4, <2>1, <2>2, RearrangedThen
<1>6. ASSUME NEW i \in first .. middle - 1, NEW j \in middle .. last - 1
      PROVE  ~Less(r[j], r[i])
  <2>1. PICK x \in first .. middle - 1 : r[i] = t[x]
    BY <1>3 DEF Rearranged
  <2>2. j \in 1 .. n /\ j \notin first .. middle - 1
    OBVIOUS
  <2>3. r[j] = t[j]
    BY <1>3, <1>4, <2>2 DEF Rearranged
  <2>4. ~Less(t[j], t[first])
    BY <1>1 DEF HeapLeast
  <2>5. ~Less(t[first], t[x])
    <3>1. middle - first \in Nat /\ first + (middle - first) - 1 = middle - 1
      OBVIOUS
    <3>2. \A y \in first .. first + (middle - first) - 1 : ~Less(t[first], t[y])
      <4>1. first + (middle - first) - 1 <= n /\ HeapFrom(t, first, middle - first, 0)
        BY <1>1 DEF HeapLeast
      <4> QED BY <1>1, <3>1, <4>1, TopGreatest
    <3> QED BY <3>1, <3>2
  <2>6. t[first] \in Elem /\ t[x] \in Elem /\ t[j] \in Elem
    <3>1. x \in 1 .. n
      OBVIOUS
    <3> QED BY <1>1, <2>2, <3>1 DEF Arrays
  <2> QED BY <2>1, <2>3, <2>4, <2>5, <2>6, LessOrder
<1> QED BY <1>3, <1>5, <1>6 DEF PartlySorted, r

-----------------------------------------------------------------------------
(* Insertion                                                               *)

\* Where an element is moved down, those that it passes move up by one.
LEMMA MovedPlaces ==
  ASSUME NEW n \in Nat, NEW s \in Arrays(n), NEW i \in 1 .. n, NEW j \in 1 .. i
  PROVE  LET r == Moved(s, i, j)
         IN  /\ r \in Arrays(n)
             /\ \A k \in 1 .. n : r[k] = IF k < j \/ k > i THEN s[k] ELSE IF k = j THEN s[i] ELSE s[k - 1]
<1> DEFINE front == SubSeq(s, 1, j - 1)
           mid == SubSeq(s, j, i - 1)
           back == SubSeq(s, i + 1, n)
           one == <<s[i]>>
           r == Moved(s, i, j)
<1>1. s \in Seq(Elem) /\ Len(s) = n /\ \A k \in 1 .. n : s[k] \in Elem
  <2>1. s \in [1 .. n -> Elem]
    BY DEF Arrays
  <2> QED BY <2>1
<1>2. front \in Seq(Elem) /\ Len(front) = j - 1 /\ \A k \in 1 .. j - 1 : front[k] = s[k]
  BY <1>1
<1>3. mid \in Seq(Elem) /\ Len(mid) = i - j /\ \A k \in 1 .. i - j : mid[k] = s[k + j - 1]
  BY <1>1
<1>4. back \in Seq(Elem) /\ Len(back) = n - i /\ \A k \in 1 .. n - i : back[k] = s[k + i]
  BY <1>1
<1>5. one \in Seq(Elem) /\ Len(one) = 1 /\ one[1] = s[i]
  BY <1>1
<1>6. r = front \o one \o mid \o back
  BY <1>1 DEF Moved
<1> HIDE DEF front, mid, back, one, r
<1> DEFINE x == front \o one
           y == x \o mid
<1>7. x \in Seq(Elem) /\ Len(x) = j /\ x[j] = s[i] /\ \A k \in 1 .. j - 1 : x[k] = s[k]
  <2>0. front \in Seq(Elem) /\ one \in Seq(Elem) /\ Len(front) \in Nat /\ Len(one) \in Nat
    BY <1>2, <1>5
  <2>1. /\ x \in Seq(Elem) /\ Len(x) = Len(front) + Len(one)
        /\ \A k \in 1 .. Len(front) : x[k] = front[k]
        /\ \A k \in Len(front) + 1 .. Len(front) + Len(one) : x[k] = one[k - Len(front)]
    BY <2>0, ConcatProperties
  <2>2. j \in Len(front) + 1 .. Len(front) + Len(one) /\ j - Len(front) = 1
    BY <1>2, <1>5
  <2> QED BY <1>2, <1>5, <2>1, <2>2
<1> HIDE DEF x
<1>8. y \in Seq(Elem) /\ Len(y) = i /\ (\A k \in 1 .. j : y[k] = x[k]) /\ \A k \in j + 1 .. i : y[k] = s[k - 1]
  <2>0. x \in Seq(Elem) /\ mid \in Seq(Elem) /\ Len(x) \in Nat /\ Len(mid) \in Nat
    BY <1>3, <1>7
  <2>1. /\ y \in Seq(Elem) /\ Len(y) = Len(x) + Len(mid)
        /\ \A k \in 1 .. Len(x) : y[k] = x[k]
        /\ \A k \in Len(x) + 1 .. Len(x) + Len(mid) : y[k] = mid[k - Len(x)]
    BY <2>0, ConcatProperties
  <2>2. \A k \in j + 1 .. i : k - j \in 1 .. i - j /\ k - j + j - 1 = k - 1
    OBVIOUS
  <2>3. \A k \in j + 1 .. i : mid[k - j] = s[k - j + j - 1]
    BY <1>3, <2>2
  <2>4. \A k \in j + 1 .. i : mid[k - j] = s[k - 1]
    BY <2>2, <2>3
  <2>5. Len(x) = j /\ Len(x) + Len(mid) = i
    BY <1>3, <1>7
  <2> QED BY <2>1, <2>4, <2>5
<1> HIDE DEF y
<1>9. r = y \o back
  BY <1>6 DEF x, y
<1>10. r \in Seq(Elem) /\ Len(r) = n /\ (\A k \in 1 .. i : r[k] = y[k]) /\ \A k \in i + 1 .. n : r[k] = s[k]
  <2>0. y \in Seq(Elem) /\ back \in Seq(Elem) /\ Len(y) \in Nat /\ Len(back) \in Nat
    BY <1>4, <1>8
  <2>1. /\ r \in Seq(Elem) /\ Len(r) = Len(y) + Len(back)
        /\ \A k \in 1 .. Len(y) : r[k] = y[k]
        /\ \A k \in Len(y) + 1 .. Len(y) + Len(back) : r[k] = back[k - Len(y)]
    BY <1>9, <2>0, ConcatProperties
  <2>2. \A k \in i + 1 .. n : k - i \in 1 .. n - i /\ k - i + i = k
    OBVIOUS
  <2>3. \A k \in i + 1 .. n : back[k - i] = s[k - i + i]
    BY <1>4, <2>2
  <2>4. \A k \in i + 1 .. n : back[k - i] = s[k]
    BY <2>2, <2>3
  <2>5. Len(y) = i /\ Len(y) + Len(back) = n
    BY <1>4, <1>8
  <2> QED BY <2>1, <2>4, <2>5
<1>11. r \in Arrays(n)
  BY <1>10 DEF Arrays
<1>12. ASSUME NEW k \in 1 .. n
       PROVE  r[k] = IF k < j \/ k > i THEN s[k] ELSE IF k = j THEN s[i] ELSE s[k - 1]
  <2>1. CASE k < j
    BY <1>7, <1>8, <1>10, <2>1
  <2>2. CASE k = j
    BY <1>7, <1>8, <1>10, <2>2
  <2>3. CASE k > j /\ k <= i
    BY <1>8, <1>10, <2>3
  <2>4. CASE k > i
    BY <1>10, <2>4
  <2> QED BY <2>1, <2>2, <2>3, <2>4
<1> QED BY <1>11, <1>12 DEF r

LEMMA MovedRearranges ==
  ASSUME NEW n \in Nat, NEW s \in Arrays(n), NEW first \in 1 .. n, NEW i \in first .. n, NEW j \in first .. i
  PROVE  Rearranged(s, Moved(s, i, j), first, i)
<1> DEFINE r == Moved(s, i, j)
<1>1. i \in 1 .. n /\ j \in 1 .. i
  OBVIOUS
<1>2. \A k \in 1 .. n : r[k] = IF k < j \/ k > i THEN s[k] ELSE IF k = j THEN s[i] ELSE s[k - 1]
  BY <1>1, MovedPlaces
<1> HIDE DEF r
<1>3. \A k \in 1 .. n : k \notin first .. i => r[k] = s[k]
  BY <1>2
<1>4. ASSUME NEW k \in first .. i
      PROVE  (\E l \in first .. i : r[k] = s[l]) /\ \E l \in first .. i : s[k] = r[l]
  <2>1. r[k] = s[k] \/ r[k] = s[i] \/ (k - 1 \in first .. i /\ r[k] = s[k - 1])
    BY <1>2
  <2>2. k \in 1 .. n /\ i \in first .. i /\ j \in first .. i /\ j \in 1 .. n
    OBVIOUS
  <2>3. CASE k < j
    BY <1>2, <2>1, <2>2, <2>3
  <2>4. CASE k = i
    BY <1>2, <2>1, <2>2, <2>4
  <2>5. CASE k >= j /\ k # i
    <3>1. k + 1 \in 1 .. n /\ k + 1 \in first .. i /\ k + 1 > j /\ k + 1 <= i /\ k + 1 - 1 = k
      BY <2>5
    <3>2. r[k + 1] = s[k + 1 - 1]
      BY <1>2, <3>1
    <3> QED BY <2>1, <2>2, <3>1, <3>2
  <2> QED BY <2>3, <2>4, <2>5
<1>5. DOMAIN s = 1 .. n
  BY DEF Arrays
<1> QED BY <1>3, <1>4, <1>5 DEF Rearranged, r

\* An element that is moved to the right place of what is sorted leaves it sorted.
LEMMA MovedAscends ==
  ASSUME NEW n \in Nat, NEW s \in Arrays(n), NEW first \in 1 .. n, NEW i \in first .. n, NEW j \in first .. i,
         Ascending(s, first, i - 1),
         \A k \in first .. j - 1 : ~Less(s[i], s[k]), \A k \in j .. i - 1 : ~Less(s[k], s[i])
  PROVE  Ascending(Moved(s, i, j), first, i)
<1> DEFINE r == Moved(s, i, j)
<1>1. i \in 1 .. n /\ j \in 1 .. i
  OBVIOUS
<1>2. \A k \in 1 .. n : r[k] = IF k < j \/ k > i THEN s[k] ELSE IF k = j THEN s[i] ELSE s[k - 1]
  BY <1>1, MovedPlaces
<1> HIDE DEF r
<1>3. ASSUME NEW x \in first .. i, NEW y \in first .. i, x < y
      PROVE  ~Less(r[y], r[x])
  <2>1. x \in 1 .. n /\ y \in 1 .. n
    OBVIOUS
  <2>2. CASE y < j
    <3>1. r[x] = s[x] /\ r[y] = s[y] /\ x \in first .. i - 1 /\ y \in first .. i - 1
      BY <1>2, <1>3, <2>1, <2>2
    <3> QED BY <1>3, <3>1 DEF Ascending
  <2>3. CASE y = j
    <3>1. r[x] = s[x] /\ r[y] = s[i] /\ x \in first .. j - 1
      BY <1>2, <1>3, <2>1, <2>3
    <3> QED BY <3>1
  <2>4. CASE y > j /\ x = j
    <3>1. r[x] = s[i] /\ r[y] = s[y - 1] /\ y - 1 \in j .. i - 1
      BY <1>2, <1>3, <2>1, <2>4
    <3> QED BY <3>1
  <2>5. CASE y > j /\ x < j
    <3>1. r[x] = s[x] /\ r[y] = s[y - 1] /\ x < y - 1 /\ x \in first .. i - 1 /\ y - 1 \in first .. i - 1
      BY <1>2, <1>3, <2>1, <2>5
    <3> QED BY <3>1 DEF Ascending
  <2>6. CASE y > j /\ x > j
    <3>1. /\ r[x] = s[x - 1] /\ r[y] = s[y - 1] /\ x - 1 < y - 1
          /\ x - 1 \in first .. i - 1 /\ y - 1 \in first .. i - 1
      BY <1>2, <1>3, <2>1, <2>6
    <3> QED BY <3>1 DEF Ascending
  <2> QED BY <2>2, <2>3, <2>4, <2>5, <2>6
<1> QED BY <1>3 DEF Ascending, r

\* Where an element is put that has no guard: behind the last that it is not less than.
LEMMA PlaceRight ==
  ASSUME NEW n \in Nat, NEW s \in Arrays(n), NEW i \in 1 .. n
  PROVE  \/ PlaceFor(s, i) = 0 /\ \A k \in 1 .. i - 1 : Less(s[i], s[k])
         \/ /\ PlaceFor(s, i) \in 2 .. i /\ ~Less(s[i], s[PlaceFor(s, i) - 1])
            /\ \A k \in PlaceFor(s, i) .. i - 1 : Less(s[i], s[k])
<1> DEFINE stops == {j \in 1 .. i - 1 : ~Less(s[i], s[j])}
<1>1. CASE stops = {}
  <2>1. PlaceFor(s, i) = 0
    BY <1>1 DEF PlaceFor
  <2> QED BY <1>1, <2>1
<1>2. CASE stops # {}
  <2> DEFINE top == CHOOSE j \in stops : \A k \in stops : k <= j
  <2>1. PlaceFor(s, i) = top + 1
    BY <1>2 DEF PlaceFor
  <2>2. stops \in SUBSET (1 .. i - 1)
    OBVIOUS
  <2>3. \E j \in stops : \A k \in stops : k <= j
    <3> HIDE DEF stops
    <3>1. stops \in SUBSET (0 .. i) /\ i \in Nat
      BY <2>2
    <3> QED BY <1>2, <3>1, Greatest
  <2>4. top \in stops /\ \A k \in stops : k <= top
    BY <2>3
  <2> HIDE DEF top
  <2>5. top \in 1 .. i - 1 /\ ~Less(s[i], s[top]) /\ top + 1 - 1 = top
    BY <2>4
  <2>6. \A k \in top + 1 .. i - 1 : Less(s[i], s[k])
    <3> SUFFICES ASSUME NEW k \in top + 1 .. i - 1, ~Less(s[i], s[k])
                 PROVE  FALSE
      OBVIOUS
    <3>1. k \in stops
      BY <2>5
    <3> QED BY <2>4, <2>5, <3>1
  <2> QED BY <2>1, <2>5, <2>6
<1> QED BY <1>1, <1>2

\* What a step of __insertion_sort() makes of a range
InsertedIn(n, s, r, first, i) ==
  /\ r \in Arrays(n) /\ Rearranged(s, r, first, i)
  /\ Ascending(s, first, i - 1) => Ascending(r, first, i)

LEMMA InsertedRight ==
  ASSUME NEW n \in Nat, NEW s \in Arrays(n), NEW first \in 1 .. n, NEW i \in first + 1 .. n
  PROVE  InsertedIn(n, s, Inserted(s, first, i), first, i)
<1> DEFINE j == IF Less(s[i], s[first]) THEN first ELSE PlaceFor(s, i)
           r == Moved(s, i, j)
<1>1. /\ i \in 1 .. n /\ i \in first .. n /\ first \in 1 .. i - 1 /\ i - 1 \in 1 .. n
      /\ \A k \in first .. i - 1 : k \in 1 .. i - 1 /\ k \in 1 .. n
  OBVIOUS
<1>2. \A k \in 1 .. n : s[k] \in Elem
  BY DEF Arrays
<1>3. j \in first .. i
  <2>1. CASE Less(s[i], s[first])
    BY <1>1, <2>1
  <2>2. CASE ~Less(s[i], s[first])
    <3>1. PlaceFor(s, i) \in 2 .. i /\ \A k \in PlaceFor(s, i) .. i - 1 : Less(s[i], s[k])
      BY <1>1, <2>2, PlaceRight
    <3>2. ~(first \in PlaceFor(s, i) .. i - 1)
      BY <2>2, <3>1
    <3> QED BY <1>1, <2>2, <3>1, <3>2
  <2> QED BY <2>1, <2>2
<1>4. j \in 1 .. i
  BY <1>3
<1>5. r \in Arrays(n) /\ Rearranged(s, r, first, i)
  <2> HIDE DEF j
  <2>1. r \in Arrays(n)
    BY <1>1, <1>4, MovedPlaces
  <2> QED BY <1>1, <1>3, <2>1, MovedRearranges
<1>6. ASSUME Ascending(s, first, i - 1)
      PROVE  Ascending(r, first, i)
  <2>1. /\ \A k \in first .. j - 1 : ~Less(s[i], s[k])
        /\ \A k \in j .. i - 1 : ~Less(s[k], s[i])
    <3>1. CASE Less(s[i], s[first])
      <4>1. j = first
        BY <3>1
      <4>2. ASSUME NEW k \in first .. i - 1
            PROVE  ~Less(s[k], s[i])
        <5>1. ~Less(s[k], s[first])
          <6>1. CASE k = first
            BY <1>2, <6>1, LessOrder
          <6>2. CASE k # first
            <7>1. first \in first .. i - 1 /\ first < k
              BY <6>2
            <7> QED BY <1>6, <7>1 DEF Ascending
          <6> QED BY <6>1, <6>2
        <5>2. s[k] \in Elem /\ s[first] \in Elem /\ s[i] \in Elem
          BY <1>1, <1>2
        <5> QED BY <3>1, <5>1, <5>2, LessOrder
      <4> QED BY <4>1, <4>2
    <3>2. CASE ~Less(s[i], s[first])
      <4>1. /\ j \in 2 .. i /\ ~Less(s[i], s[j - 1])
            /\ \A k \in j .. i - 1 : Less(s[i], s[k])
        BY <1>1, <3>2, PlaceRight
      <4> HIDE DEF j
      <4>2. first \notin j .. i - 1
        BY <3>2, <4>1
      <4>3. j - 1 \in first .. i - 1
        BY <1>1, <4>1, <4>2
      <4>4. ASSUME NEW k \in first .. j - 1
            PROVE  ~Less(s[i], s[k])
        <5>1. CASE k = j - 1
          BY <4>1, <5>1
        <5>2. CASE k # j - 1
          <6>1. k \in first .. i - 1 /\ k < j - 1
            BY <4>3, <5>2
          <6>2. ~Less(s[j - 1], s[k])
            BY <1>6, <4>3, <6>1 DEF Ascending
          <6>3. s[k] \in Elem /\ s[j - 1] \in Elem /\ s[i] \in Elem
            BY <1>1, <1>2, <4>3, <6>1
          <6> QED BY <4>1, <6>2, <6>3, LessOrder
        <5> QED BY <5>1, <5>2
      <4>5. ASSUME NEW k \in j .. i - 1
            PROVE  ~Less(s[k], s[i])
        <5>1. k \in 1 .. n
          BY <4>1
        <5>2. s[k] \in Elem /\ s[i] \in Elem
          BY <1>1, <1>2, <5>1
        <5> QED BY <4>1, <5>2, LessOrder
      <4> QED BY <4>4, <4>5
    <3> QED BY <3>1, <3>2
  <2> HIDE DEF j
  <2> QED BY <1>1, <1>3, <1>6, <2>1, MovedAscends
<1>7. Inserted(s, first, i) = r
  BY DEF Inserted
<1> QED BY <1>5, <1>6, <1>7 DEF InsertedIn

\* The same without a guard, when there is a place
LEMMA PlacedRight ==
  ASSUME NEW n \in Nat, NEW s \in Arrays(n), NEW i \in 2 .. n, PlaceFor(s, i) # 0
  PROVE  InsertedIn(n, s, Moved(s, i, PlaceFor(s, i)), 1, i)
<1> DEFINE j == PlaceFor(s, i)
           r == Moved(s, i, j)
<1>1. i \in 1 .. n /\ 1 \in 1 .. n
  OBVIOUS
<1>2. j \in 2 .. i /\ ~Less(s[i], s[j - 1]) /\ \A k \in j .. i - 1 : Less(s[i], s[k])
  BY <1>1, PlaceRight
<1> HIDE DEF j
<1>3. j \in 1 .. i
  BY <1>2
<1>4. r \in Arrays(n) /\ Rearranged(s, r, 1, i)
  <2>1. r \in Arrays(n)
    BY <1>1, <1>3, MovedPlaces
  <2> QED BY <1>1, <1>3, <2>1, MovedRearranges
<1>5. \A k \in 1 .. n : s[k] \in Elem
  BY DEF Arrays
<1>6. ASSUME Ascending(s, 1, i - 1)
      PROVE  Ascending(r, 1, i)
  <2>1. ASSUME NEW k \in 1 .. j - 1
        PROVE  ~Less(s[i], s[k])
    <3>1. CASE k = j - 1
      BY <1>2, <3>1
    <3>2. CASE k # j - 1
      <4>1. k \in 1 .. i - 1 /\ j - 1 \in 1 .. i - 1 /\ k < j - 1 /\ k \in 1 .. n /\ j - 1 \in 1 .. n
        BY <1>2, <3>2
      <4>2. ~Less(s[j - 1], s[k])
        BY <1>6, <4>1 DEF Ascending
      <4> QED BY <1>1, <1>2, <1>5, <4>1, <4>2, LessOrder
    <3> QED BY <3>1, <3>2
  <2>2. ASSUME NEW k \in j .. i - 1
        PROVE  ~Less(s[k], s[i])
    <3>1. k \in 1 .. n
      BY <1>2
    <3> QED BY <1>1, <1>2, <1>5, <3>1, LessOrder
  <2> QED BY <1>1, <1>3, <1>6, <2>1, <2>2, MovedAscends
<1> QED BY <1>4, <1>6 DEF InsertedIn, j

\* __insertion_sort() sorts a range.
LEMMA InsertionRight ==
  ASSUME NEW n \in Nat, NEW s \in Arrays(n), NEW first \in 1 .. n, NEW last \in first + 1 .. n + 1
  PROVE  LET r == InsertionFrom(s, first, last, first + 1)
         IN  r \in Arrays(n) /\ Rearranged(s, r, first, last - 1) /\ Ascending(r, first, last - 1)
<1> DEFINE D == 0 .. last
           S == Arrays(n)
           low == first + 1
           Body(k, F) == IF k <= low THEN s ELSE Inserted(F[k - 1], first, k - 1)
           m == [k \in D |-> k]
           stop == [k \in D |-> k <= low]
           next == [k \in D |-> IF k <= low THEN k ELSE k - 1]
           base == [k \in D |-> s]
           comb == [q \in D \X S |-> IF q[1] <= low THEN s ELSE Inserted(q[2], first, q[1] - 1)]
           Right(F) == F = [k \in D |-> Body(k, F)]
           C == CHOOSE F : Right(F)
<1>1. low \in Int /\ low >= 2 /\ low <= last /\ last \in D
  OBVIOUS
<1>2. ASSUME NEW k \in D, ~(k <= low)
      PROVE  k - 1 \in D /\ k - 1 \in first + 1 .. n
  BY <1>2
<1> HIDE DEF low
<1>3. ASSUME NEW k \in D, ~(k <= low), NEW t \in S
      PROVE  Inserted(t, first, k - 1) \in S
  BY <1>2, <1>3, InsertedRight DEF InsertedIn
<1>4. m \in [D -> Nat] /\ stop \in [D -> BOOLEAN] /\ next \in [D -> D] /\ base \in [D -> S]
  BY <1>1, <1>2
<1>5. comb \in [D \X S -> S]
  <2> SUFFICES ASSUME NEW q \in D \X S
               PROVE  (IF q[1] <= low THEN s ELSE Inserted(q[2], first, q[1] - 1)) \in S
    OBVIOUS
  <2>1. q[1] \in D /\ q[2] \in S
    OBVIOUS
  <2> QED BY <1>3, <2>1
<1>6. \A k \in D : ~stop[k] => m[next[k]] < m[k]
  <2> SUFFICES ASSUME NEW k \in D, ~(k <= low)
               PROVE  m[k - 1] < m[k]
    OBVIOUS
  <2> QED BY <1>2
<1>7. \E F : Right(F)
  <2>1. GoesDown(D, S, m, stop, next, base, comb)
    <3>1. S # {}
      OBVIOUS
    <3> HIDE DEF D, S, m, stop, next, base, comb
    <3> QED BY <1>4, <1>5, <1>6, <3>1 DEF GoesDown
  <2> HIDE DEF D, S, m, stop, next, base, comb
  <2>2. PICK F : Follows(F, D, S, stop, next, base, comb)
    BY <2>1, Chained
  <2>3. ASSUME NEW k \in D
        PROVE  F[k] = Body(k, F)
    <3>1. next[k] \in D /\ F[next[k]] \in S
      BY <1>4, <2>2 DEF Follows
    <3>2. <<k, F[next[k]]>> \in D \X S
      BY <3>1
    <3>3. CASE k <= low
      BY <2>2, <3>3 DEF stop, base, Follows
    <3>4. CASE ~(k <= low)
      <4>1. next[k] = k - 1
        BY <3>4 DEF next
      <4>2. comb[<<k, F[k - 1]>>] = Inserted(F[k - 1], first, k - 1)
        BY <3>2, <3>4, <4>1 DEF comb
      <4>3. F[k] = comb[<<k, F[k - 1]>>]
        BY <2>2, <3>4, <4>1 DEF stop, Follows
      <4> QED BY <3>4, <4>2, <4>3
    <3> QED BY <3>3, <3>4
  <2>4. F \in [D -> S]
    BY <2>2 DEF Follows
  <2> HIDE DEF Body
  <2> QED BY <2>3, <2>4
<1>8. Right(C)
  BY <1>7
<1>9. InsertionFrom(s, first, last, first + 1) = C[last]
  BY DEF InsertionFrom, low
<1> HIDE DEF C
<1>10. \A k \in D : C[k] = Body(k, C)
  BY <1>8
<1> DEFINE Q == {k \in D : k >= low => /\ C[k] \in S /\ Rearranged(s, C[k], first, k - 1)
                                       /\ Ascending(C[k], first, k - 1)}
<1>11. ASSUME NEW k \in D, \A x \in D : m[x] < m[k] => x \in Q
       PROVE  k \in Q
  <2>1. CASE k < low
    BY <1>1, <2>1
  <2>2. CASE k = low
    <3>1. C[k] = s
      BY <1>1, <1>10, <2>2
    <3>2. Ascending(s, first, k - 1)
      BY <2>2 DEF Ascending, low
    <3>3. Rearranged(s, s, first, k - 1)
      BY RearrangedSame
    <3> QED BY <3>1, <3>2, <3>3
  <2>3. CASE k > low
    <3>1. ~(k <= low) /\ k - 1 \in D /\ k - 1 >= low /\ k - 1 \in first + 1 .. n
      BY <1>1, <1>2, <2>3
    <3>2. k - 1 \in Q
      BY <1>11, <3>1
    <3> DEFINE t == C[k - 1]
               r == Inserted(t, first, k - 1)
    <3>3. t \in S /\ Rearranged(s, t, first, k - 1 - 1) /\ Ascending(t, first, k - 1 - 1)
      BY <3>1, <3>2
    <3>4. C[k] = r
      BY <1>10, <3>1
    <3> HIDE DEF t
    <3>5. InsertedIn(n, t, r, first, k - 1)
      BY <3>1, <3>3, InsertedRight
    <3> HIDE DEF r
    <3>6. r \in S /\ Rearranged(t, r, first, k - 1) /\ Ascending(r, first, k - 1)
      BY <3>3, <3>5 DEF InsertedIn
    <3>7. DOMAIN t = DOMAIN s /\ DOMAIN s = 1 .. n
      BY <3>3 DEF Arrays
    <3>8. k - 1 \in Int /\ k - 1 - 1 \in Int /\ k - 1 - 1 <= k - 1 /\ first .. k - 1 \subseteq 1 .. n
      BY <3>1
    <3>9. Rearranged(s, t, first, k - 1)
      BY <3>3, <3>7, <3>8, RearrangedWider
    <3>10. Rearranged(s, r, first, k - 1)
      BY <3>6, <3>7, <3>8, <3>9, RearrangedThen
    <3> QED BY <3>4, <3>6, <3>10
  <2> QED BY <1>1, <2>1, <2>2, <2>3
<1>12. Q = D
  <2>1. Q \in SUBSET D
    OBVIOUS
  <2> HIDE DEF Q, D, m
  <2> QED BY <1>4, <1>11, <2>1, ByMeasure
<1> QED BY <1>1, <1>9, <1>12

-----------------------------------------------------------------------------
(* is_heap_until()                                                         *)

\* is_heap_until() finds a heap to be one.
LEMMA HeapUntilRight ==
  ASSUME NEW n \in Nat, NEW s \in Arrays(n), NEW len \in 0 .. n, HeapFrom(s, 1, len, 0)
  PROVE  HeapUntil(s, len) = len
<1> DEFINE D == {q \in (0 .. len) \X (0 .. len + 1) : q[1] <= q[2]}
           S == 0 .. len
           After(at) == <<IF at[2] % 2 = 0 THEN at[1] + 1 ELSE at[1], at[2] + 1>>
           Out(at) == Less(s[1 + at[1]], s[1 + at[2]])
           Body(at, F) == IF at[2] >= len THEN len ELSE IF Out(at) THEN at[2] ELSE F[After(at)]
           Ends(at) == at[2] >= len \/ Out(at)
           m == [at \in D |-> len + 1 - at[2]]
           stop == [at \in D |-> IF Ends(at) THEN TRUE ELSE FALSE]
           next == [at \in D |-> IF Ends(at) THEN at ELSE After(at)]
           base == [at \in D |-> IF at[2] >= len THEN len ELSE at[2]]
           comb == [q \in D \X S |-> q[2]]
           Right(F) == F = [at \in D |-> Body(at, F)]
           C == CHOOSE F : Right(F)
<1>1. ASSUME NEW at \in D, at[2] < len
      PROVE  After(at) \in D /\ After(at)[2] = at[2] + 1 /\ at[2] \in S
  <2>1. at[1] \in 0 .. len /\ at[2] \in 0 .. len + 1 /\ at[1] <= at[2]
    OBVIOUS
  <2> QED BY <1>1, <2>1
<1>2. \A at \in D : at[1] \in 0 .. len /\ at[2] \in 0 .. len + 1
  OBVIOUS
<1> HIDE DEF After, Out
<1>3. m \in [D -> Nat] /\ stop \in [D -> BOOLEAN] /\ comb \in [D \X S -> S]
  BY <1>2
<1>4. next \in [D -> D]
  <2> SUFFICES ASSUME NEW at \in D
               PROVE  (IF Ends(at) THEN at ELSE After(at)) \in D
    OBVIOUS
  <2> QED BY <1>1, <1>2
<1>5. base \in [D -> S]
  <2> SUFFICES ASSUME NEW at \in D
               PROVE  (IF at[2] >= len THEN len ELSE at[2]) \in S
    OBVIOUS
  <2> QED BY <1>2
<1>6. \A at \in D : ~stop[at] => m[next[at]] < m[at]
  <2> SUFFICES ASSUME NEW at \in D, ~Ends(at)
               PROVE  m[After(at)] < m[at]
    OBVIOUS
  <2> QED BY <1>1, <1>2
<1>7. \E F : Right(F)
  <2>1. GoesDown(D, S, m, stop, next, base, comb)
    <3>1. S # {}
      OBVIOUS
    <3> HIDE DEF D, S, m, stop, next, base, comb
    <3> QED BY <1>3, <1>4, <1>5, <1>6, <3>1 DEF GoesDown
  <2> HIDE DEF D, S, m, stop, next, base, comb
  <2>2. PICK F : Follows(F, D, S, stop, next, base, comb)
    BY <2>1, Chained
  <2>3. ASSUME NEW at \in D
        PROVE  F[at] = Body(at, F)
    <3>1. next[at] \in D /\ F[next[at]] \in S
      BY <1>4, <2>2 DEF Follows
    <3>2. <<at, F[next[at]]>> \in D \X S
      BY <3>1
    <3>3. CASE Ends(at)
      <4>1. stop[at] /\ F[at] = base[at]
        BY <2>2, <3>3 DEF stop, Follows
      <4> QED BY <3>3, <4>1 DEF base
    <3>4. CASE ~Ends(at)
      <4>1. next[at] = After(at) /\ ~stop[at]
        BY <3>4 DEF next, stop
      <4>2. comb[<<at, F[next[at]]>>] = F[next[at]]
        BY <3>2 DEF comb
      <4>3. F[at] = comb[<<at, F[next[at]]>>]
        BY <2>2, <4>1 DEF Follows
      <4> QED BY <3>4, <4>1, <4>2, <4>3
    <3> QED BY <3>3, <3>4
  <2>4. F \in [D -> S]
    BY <2>2 DEF Follows
  <2> HIDE DEF Body
  <2> QED BY <2>3, <2>4
<1>8. Right(C)
  BY <1>7
<1>9. HeapUntil(s, len) = C[<<0, 1>>]
  BY DEF HeapUntil, After, Out
<1> HIDE DEF C
<1>10. \A at \in D : C[at] = Body(at, C)
  BY <1>8
<1> DEFINE Q == {at \in D : at[2] > 0 /\ at[1] = Parent(at[2]) => C[at] = len}
<1>11. ASSUME NEW at \in D, \A x \in D : m[x] < m[at] => x \in Q
       PROVE  at \in Q
  <2> SUFFICES ASSUME at[2] > 0, at[1] = Parent(at[2])
               PROVE  C[at] = len
    OBVIOUS
  <2>1. CASE at[2] >= len
    BY <1>10, <2>1
  <2>2. CASE at[2] < len
    <3>1. at[2] \in 1 .. len - 1 /\ at[2] \in Nat \ {0}
      BY <1>2, <2>2
    <3>2. Parent(at[2]) \in Nat
      BY <3>1, ParentOf
    <3>3. ~Out(at)
      BY <3>1, <3>2 DEF HeapFrom, Out
    <3>4. After(at) \in D /\ After(at)[2] = at[2] + 1 /\ at[2] \in S
      BY <1>1, <2>2
    <3>5. m[After(at)] < m[at]
      BY <1>2, <3>4
    <3>6. After(at)[1] = Parent(After(at)[2])
      <4>1. After(at)[1] = IF at[2] % 2 = 0 THEN at[1] + 1 ELSE at[1]
        BY DEF After
      <4> DEFINE c == at[2]
      <4>2. (c + 1 - 1) \div 2 = IF c % 2 = 0 THEN ((c - 1) \div 2) + 1 ELSE (c - 1) \div 2
        <5> HIDE DEF c
        <5>1. c \in Nat \ {0}
          BY <3>1 DEF c
        <5> QED BY <5>1
      <4> QED BY <3>4, <4>1, <4>2 DEF Parent
    <3>7. C[After(at)] = len
      BY <1>11, <3>1, <3>4, <3>5, <3>6
    <3> QED BY <1>10, <2>2, <3>3, <3>7
  <2> QED BY <1>2, <2>1, <2>2
<1>12. Q = D
  <2>1. Q \in SUBSET D
    OBVIOUS
  <2> HIDE DEF Q, D, m
  <2> QED BY <1>3, <1>11, <2>1, ByMeasure
<1>13. <<0, 1>> \in D /\ Parent(1) = 0
  BY DEF Parent
<1> QED BY <1>9, <1>12, <1>13

-----------------------------------------------------------------------------
(* Splits and frames                                                       *)

\* Nothing from b on is less than anything before b.
Split(s, b) == \A i, j \in DOMAIN s : (i < b /\ b <= j) => ~Less(s[j], s[i])

\* What is in a range came from there, and what is not has not been moved.
LEMMA CameFrom ==
  ASSUME NEW n \in Nat, NEW s \in Arrays(n), NEW r, NEW lo \in Int, NEW hi \in Int,
         lo .. hi \subseteq 1 .. n, Rearranged(s, r, lo, hi), NEW i \in 1 .. n
  PROVE  \E j \in 1 .. n : r[i] = s[j] /\ IF i \in lo .. hi THEN j \in lo .. hi ELSE j = i
<1>1. DOMAIN s = 1 .. n
  BY DEF Arrays
<1>2. CASE i \in lo .. hi
  <2>1. PICK j \in lo .. hi : r[i] = s[j]
    BY <1>2 DEF Rearranged
  <2> QED BY <1>2, <2>1
<1>3. CASE i \notin lo .. hi
  BY <1>1, <1>3 DEF Rearranged
<1> QED BY <1>2, <1>3

\* What happens on one side of a split leaves it one.
LEMMA SplitKept ==
  ASSUME NEW n \in Nat, NEW s \in Arrays(n), NEW r \in Arrays(n), NEW lo \in Int, NEW hi \in Int,
         lo .. hi \subseteq 1 .. n, Rearranged(s, r, lo, hi),
         NEW b \in Int, b <= lo \/ hi < b, Split(s, b)
  PROVE  Split(r, b)
<1>1. DOMAIN s = 1 .. n /\ DOMAIN r = 1 .. n
  BY DEF Arrays
<1> SUFFICES ASSUME NEW i \in 1 .. n, NEW j \in 1 .. n, i < b, b <= j
             PROVE  ~Less(r[j], r[i])
  BY <1>1 DEF Split
<1>2. PICK x \in 1 .. n : r[i] = s[x] /\ IF i \in lo .. hi THEN x \in lo .. hi ELSE x = i
  BY CameFrom
<1>3. PICK y \in 1 .. n : r[j] = s[y] /\ IF j \in lo .. hi THEN y \in lo .. hi ELSE y = j
  BY CameFrom
<1>4. x < b /\ b <= y
  BY <1>2, <1>3
<1> QED BY <1>1, <1>2, <1>3, <1>4 DEF Split

LEMMA SplitEnds ==
  ASSUME NEW n \in Nat, NEW s \in Arrays(n)
  PROVE  Split(s, 1) /\ Split(s, n + 1)
BY DEF Split, Arrays

\* Between two splits what is sorted is split everywhere.
LEMMA SplitWithin ==
  ASSUME NEW n \in Nat, NEW s \in Arrays(n), NEW lo \in Int, NEW hi \in Int, NEW b \in lo .. hi + 1,
         Split(s, lo), Split(s, hi + 1),
         \A i \in lo .. b - 1 : \A j \in b .. hi : ~Less(s[j], s[i])
  PROVE  Split(s, b)
<1>1. DOMAIN s = 1 .. n
  BY DEF Arrays
<1> SUFFICES ASSUME NEW i \in 1 .. n, NEW j \in 1 .. n, i < b, b <= j
             PROVE  ~Less(s[j], s[i])
  BY <1>1 DEF Split
<1>2. CASE i < lo
  BY <1>1, <1>2 DEF Split
<1>3. CASE j > hi
  BY <1>1, <1>3 DEF Split
<1>4. CASE i >= lo /\ j <= hi
  BY <1>4
<1> QED BY <1>2, <1>3, <1>4

LEMMA AscendingSplit ==
  ASSUME NEW n \in Nat, NEW s \in Arrays(n), NEW lo \in Int, NEW hi \in Int, NEW b \in lo .. hi + 1,
         Split(s, lo), Split(s, hi + 1), Ascending(s, lo, hi)
  PROVE  Split(s, b)
<1>1. \A i \in lo .. b - 1 : \A j \in b .. hi : ~Less(s[j], s[i])
  BY DEF Ascending
<1> QED BY <1>1, SplitWithin

Tags(s) == {s[i].tag : i \in DOMAIN s}

LEMMA TagsKept ==
  ASSUME NEW n \in Nat, NEW s \in Arrays(n), NEW r \in Arrays(n), NEW lo \in Int, NEW hi \in Int,
         lo .. hi \subseteq 1 .. n, Rearranged(s, r, lo, hi)
  PROVE  Tags(r) = Tags(s)
<1>1. DOMAIN s = 1 .. n /\ DOMAIN r = 1 .. n
  BY DEF Arrays
<1>2. \A i \in 1 .. n : \E j \in 1 .. n : r[i] = s[j]
  <2> TAKE i \in 1 .. n
  <2>1. \E j \in 1 .. n : r[i] = s[j] /\ IF i \in lo .. hi THEN j \in lo .. hi ELSE j = i
    BY CameFrom
  <2> QED BY <2>1
<1>3. \A i \in 1 .. n : \E j \in 1 .. n : s[i] = r[j]
  <2> TAKE i \in 1 .. n
  <2>1. CASE i \in lo .. hi
    BY <2>1 DEF Rearranged
  <2>2. CASE i \notin lo .. hi
    BY <1>1, <2>2 DEF Rearranged
  <2> QED BY <2>1, <2>2
<1>4. \A i \in 1 .. n : r[i].tag \in Tags(s) /\ s[i].tag \in Tags(r)
  BY <1>1, <1>2, <1>3 DEF Tags
<1>5. Tags(r) \subseteq Tags(s) /\ Tags(s) \subseteq Tags(r)
  BY <1>1, <1>4 DEF Tags
<1> QED BY <1>5

Frames == [first : Nat, last : Nat, depth : Nat]

\* A frame is a range that is not empty, and both its ends are splits.
FrameIn(n, s, f) == /\ f.first \in 1 .. n /\ f.last \in f.first + 1 .. n + 1
                    /\ Split(s, f.first) /\ Split(s, f.last)

\* Inner frames are behind outer ones.
FramesIn(n, s, fs) ==
  /\ fs \in Seq(Frames)
  /\ \A x \in 1 .. Len(fs) : FrameIn(n, s, fs[x])
  /\ \A x, y \in 1 .. Len(fs) : x < y => fs[y].last <= fs[x].first

Bottom(fs) == fs[Len(fs)].first

\* The frames are right after the range of the innermost one is rearranged.
LEMMA FramesKept ==
  ASSUME NEW n \in Nat, NEW s \in Arrays(n), NEW r \in Arrays(n), NEW fs, fs # <<>>, FramesIn(n, s, fs),
         Rearranged(s, r, fs[1].first, fs[1].last - 1)
  PROVE  FramesIn(n, r, fs)
<1>1. fs \in Seq(Frames) /\ Len(fs) \in Nat /\ 1 \in 1 .. Len(fs)
  BY DEF FramesIn
<1>2. FrameIn(n, s, fs[1])
  BY <1>1 DEF FramesIn
<1>3. /\ fs[1].first \in Int /\ fs[1].last - 1 \in Int /\ fs[1].first .. fs[1].last - 1 \subseteq 1 .. n
      /\ fs[1].first < fs[1].last
  BY <1>2 DEF FrameIn
<1>4. ASSUME NEW x \in 1 .. Len(fs)
      PROVE  FrameIn(n, r, fs[x])
  <2>1. FrameIn(n, s, fs[x])
    BY DEF FramesIn
  <2>2. fs[x].first \in Int /\ fs[x].last \in Int /\ fs[x].first < fs[x].last
    BY <2>1 DEF FrameIn
  <2>3. x = 1 \/ fs[x].last <= fs[1].first
    BY <1>1 DEF FramesIn
  <2>4. /\ fs[x].first <= fs[1].first \/ fs[1].last - 1 < fs[x].first
        /\ fs[x].last <= fs[1].first \/ fs[1].last - 1 < fs[x].last
    BY <1>3, <2>2, <2>3
  <2>5. Split(s, fs[x].first) /\ Split(s, fs[x].last)
    BY <2>1 DEF FrameIn
  <2>6. Split(r, fs[x].first)
    BY <1>3, <2>2, <2>4, <2>5, SplitKept
  <2>7. Split(r, fs[x].last)
    BY <1>3, <2>2, <2>4, <2>5, SplitKept
  <2> QED BY <2>1, <2>6, <2>7 DEF FrameIn
<1> QED BY <1>4 DEF FramesIn

LEMMA FramesTail ==
  ASSUME NEW n \in Nat, NEW s, NEW fs, fs # <<>>, FramesIn(n, s, fs)
  PROVE  /\ FramesIn(n, s, Tail(fs))
         /\ Tail(fs) = <<>> => Len(fs) = 1
         /\ Tail(fs) # <<>> => Bottom(Tail(fs)) = Bottom(fs)
<1> DEFINE t == Tail(fs)
<1>1. fs \in Seq(Frames) /\ Len(fs) \in Nat /\ Len(fs) >= 1
  BY DEF FramesIn
<1>2. t \in Seq(Frames) /\ Len(t) = Len(fs) - 1
  BY <1>1
<1>3. \A x \in 1 .. Len(t) : t[x] = fs[x + 1] /\ x + 1 \in 1 .. Len(fs)
  BY <1>1
<1>4. (t = <<>> => Len(t) = 0) /\ (t # <<>> => Len(t) >= 1)
  <2>1. t \in Seq(Frames) /\ (t # <<>> => Len(t) \in Nat \ {0})
    BY <1>2, EmptySeq
  <2>2. t # <<>> => Len(t) >= 1
    BY <2>1
  <2>3. t = <<>> => Len(t) = 0
    BY EmptySeq
  <2> QED BY <2>2, <2>3
<1> HIDE DEF t
<1>5. FramesIn(n, s, t)
  <2>1. \A x \in 1 .. Len(t) : FrameIn(n, s, t[x])
    BY <1>3 DEF FramesIn
  <2>2. ASSUME NEW x \in 1 .. Len(t), NEW y \in 1 .. Len(t), x < y
        PROVE  t[y].last <= t[x].first
    <3>1. x + 1 < y + 1
      BY <2>2
    <3> QED BY <1>3, <3>1 DEF FramesIn
  <2> QED BY <1>2, <2>1, <2>2 DEF FramesIn
<1>6. t # <<>> => Bottom(t) = Bottom(fs)
  <2> SUFFICES ASSUME t # <<>>
               PROVE  t[Len(t)] = fs[Len(fs)]
    BY DEF Bottom
  <2>1. Len(t) \in 1 .. Len(t) /\ Len(t) + 1 = Len(fs)
    BY <1>1, <1>2, <1>4
  <2> QED BY <1>3, <2>1
<1>7. t = <<>> => Len(fs) = 1
  BY <1>1, <1>2, <1>4
<1> QED BY <1>5, <1>6, <1>7 DEF t

\* and after it is cut at a split.
LEMMA FramesParted ==
  ASSUME NEW n \in Nat, NEW s, NEW fs, fs # <<>>, FramesIn(n, s, fs), fs[1].depth > 0,
         NEW cut \in fs[1].first + 1 .. fs[1].last - 1, Split(s, cut)
  PROVE  LET f == fs[1]
             gs == <<Frame(cut, f.last, f.depth - 1), Frame(f.first, cut, f.depth - 1)>> \o Tail(fs)
         IN  FramesIn(n, s, gs) /\ gs # <<>> /\ Bottom(gs) = Bottom(fs)
<1> DEFINE f == fs[1]
           g1 == Frame(cut, f.last, f.depth - 1)
           g2 == Frame(f.first, cut, f.depth - 1)
           t == Tail(fs)
           gs == <<g1, g2>> \o t
<1>1. fs \in Seq(Frames) /\ Len(fs) \in Nat /\ Len(fs) >= 1 /\ f \in Frames
  BY DEF FramesIn
<1>2. /\ f.first \in 1 .. n /\ f.last \in f.first + 1 .. n + 1 /\ f.depth \in Nat
      /\ Split(s, f.first) /\ Split(s, f.last)
  <2>1. FrameIn(n, s, f)
    BY <1>1 DEF FramesIn
  <2> QED BY <1>1, <2>1 DEF FrameIn, Frames
<1>3. t \in Seq(Frames) /\ Len(t) = Len(fs) - 1 /\ \A x \in 1 .. Len(t) : t[x] = fs[x + 1]
  BY <1>1
<1> HIDE DEF f, t
<1>4. /\ g1 \in Frames /\ g1.first = cut /\ g1.last = f.last
      /\ g2 \in Frames /\ g2.first = f.first /\ g2.last = cut
  BY <1>2 DEF Frame, Frames, f
<1> HIDE DEF g1, g2
<1>5. FrameIn(n, s, g1) /\ FrameIn(n, s, g2)
  BY <1>2, <1>4 DEF FrameIn, f
<1>6. /\ <<g1, g2>> \in Seq(Frames) /\ Len(<<g1, g2>>) = 2
      /\ <<g1, g2>>[1] = g1 /\ <<g1, g2>>[2] = g2
  BY <1>4
<1>7. /\ gs \in Seq(Frames) /\ Len(gs) = Len(fs) + 1 /\ gs[1] = g1 /\ gs[2] = g2
      /\ \A x \in 3 .. Len(fs) + 1 : gs[x] = fs[x - 1]
  <2> DEFINE two == <<g1, g2>>
  <2>1. two \in Seq(Frames) /\ Len(two) = 2 /\ two[1] = g1 /\ two[2] = g2 /\ gs = two \o t
    BY <1>6
  <2> HIDE DEF two, gs
  <2>2. /\ gs \in Seq(Frames) /\ Len(gs) = Len(two) + Len(t)
        /\ \A x \in 1 .. Len(two) + Len(t) : gs[x] = IF x <= Len(two) THEN two[x] ELSE t[x - Len(two)]
    BY <1>3, <2>1, ConcatProperties
  <2>3. Len(gs) = Len(fs) + 1
    BY <1>1, <1>3, <2>1, <2>2
  <2>4. gs[1] = g1 /\ gs[2] = g2
    BY <1>1, <1>3, <2>1, <2>2
  <2>5. \A x \in 3 .. Len(fs) + 1 : gs[x] = t[x - 2] /\ x - 2 \in 1 .. Len(t) /\ x - 2 + 1 = x - 1
    BY <1>1, <1>3, <2>1, <2>2
  <2> QED BY <1>3, <2>2, <2>3, <2>4, <2>5
<1> HIDE DEF gs
<1>8. \A x \in 1 .. Len(gs) : x = 1 \/ x = 2 \/ (x \in 3 .. Len(fs) + 1 /\ x - 1 \in 2 .. Len(fs))
  BY <1>1, <1>7
<1>9. \A x \in 2 .. Len(fs) : FrameIn(n, s, fs[x]) /\ fs[x].last <= f.first
  BY <1>1 DEF FramesIn, f
<1>10. FramesIn(n, s, gs)
  <2>1. \A x \in 1 .. Len(gs) : FrameIn(n, s, gs[x])
    BY <1>5, <1>7, <1>8, <1>9
  <2>2. ASSUME NEW x \in 1 .. Len(gs), NEW y \in 1 .. Len(gs), x < y
        PROVE  gs[y].last <= gs[x].first
    <3>1. CASE x >= 3
      <4>1. /\ x - 1 \in 1 .. Len(fs) /\ y - 1 \in 1 .. Len(fs) /\ x - 1 < y - 1
            /\ gs[x] = fs[x - 1] /\ gs[y] = fs[y - 1]
        BY <1>1, <1>7, <2>2, <3>1
      <4> QED BY <4>1 DEF FramesIn
    <3>2. CASE x < 3 /\ y >= 3
      <4>1. gs[y] = fs[y - 1] /\ y - 1 \in 2 .. Len(fs)
        BY <1>1, <1>7, <3>2
      <4>2. gs[y].last <= f.first /\ gs[y].last \in Int
        BY <1>9, <4>1 DEF FrameIn
      <4>3. gs[x].first = cut \/ gs[x].first = f.first
        BY <1>4, <1>7, <1>8, <3>2
      <4>4. f.first \in Int /\ cut \in Int /\ f.first < cut
        BY <1>2 DEF f
      <4> QED BY <4>2, <4>3, <4>4
    <3>3. CASE y < 3
      <4>1. x = 1 /\ y = 2
        BY <2>2, <3>3
      <4> QED BY <1>2, <1>4, <1>7, <4>1 DEF f
    <3> QED BY <3>1, <3>2, <3>3
  <2> QED BY <1>7, <2>1, <2>2 DEF FramesIn
<1>11. gs # <<>> /\ Bottom(gs) = Bottom(fs)
  <2>3. gs # <<>>
    BY <1>1, <1>7
  <2>1. CASE Len(fs) = 1
    <3>1. Len(gs) = 2
      BY <1>7, <2>1
    <3>2. Bottom(gs) = g2.first /\ Bottom(fs) = fs[1].first
      BY <1>7, <2>1, <3>1 DEF Bottom
    <3> QED BY <1>4, <3>2, <2>3 DEF f
  <2>2. CASE Len(fs) > 1
    <3>1. Len(gs) \in 3 .. Len(fs) + 1 /\ Len(gs) - 1 = Len(fs)
      BY <1>1, <1>7, <2>2
    <3> QED BY <1>7, <2>3, <3>1 DEF Bottom
  <2>4. Len(fs) = 1 \/ Len(fs) > 1
    <3>1. Len(fs) \in Nat /\ Len(fs) >= 1
      BY <1>1
    <3>2. \A k \in Nat : k >= 1 => k = 1 \/ k > 1
      OBVIOUS
    <3> QED BY <3>1, <3>2, Zenon
  <2> QED BY <2>1, <2>2, <2>3, <2>4
<1> QED BY <1>10, <1>11 DEF gs, g1, g2, t, f

-----------------------------------------------------------------------------
(* __unguarded_partition()                                                 *)

\* What is in front of lo is not above the first element, what is from hi on not
\* below it, and a scan from lo finds one that stops it.
Partitioning(s, first, last, lo, hi) ==
  /\ lo \in first + 1 .. hi /\ hi \in lo .. last
  /\ \A i \in first + 1 .. lo - 1 : ~Less(s[first], s[i])
  /\ \A i \in hi .. last - 1 : ~Less(s[i], s[first])
  /\ \E i \in lo .. last - 1 : ~Less(s[i], s[first])

\* The two scans have stopped.
Stopped(s, first, last, lo, hi, up, down) ==
  /\ up \in lo .. last - 1 /\ ~Less(s[up], s[first])
  /\ \A i \in lo .. up - 1 : Less(s[i], s[first])
  /\ down \in first .. hi - 1 /\ ~Less(s[first], s[down])
  /\ \A i \in down + 1 .. hi - 1 : Less(s[first], s[i])

\* With the median of three in front each scan has an element that stops it.
LEMMA MedianRight ==
  ASSUME NEW n \in Nat, NEW s \in Arrays(n), NEW first \in 1 .. n, NEW last \in first + 4 .. n + 1
  PROVE  LET r == MedianToFirst(s, first, last)
         IN  /\ r \in Arrays(n) /\ Rearranged(s, r, first, last - 1)
             /\ Partitioning(r, first, last, first + 1, last)
<1> DEFINE x == first + 1
           y == first + (last - first) \div 2
           z == last - 1
           m == IF Less(s[x], s[y])
                  THEN IF Less(s[y], s[z]) THEN y ELSE IF Less(s[x], s[z]) THEN z ELSE x
                  ELSE IF Less(s[x], s[z]) THEN x ELSE IF Less(s[y], s[z]) THEN z ELSE y
           r == Exchange2(s, first, m)
<1>1. x \in first + 1 .. z /\ y \in first + 1 .. z /\ z \in 1 .. n /\ z = last - 1 /\ x # y /\ y # z /\ x # z
  <2> DEFINE l == last - first
  <2>1. l \in Nat /\ l >= 4
    OBVIOUS
  <2> HIDE DEF l
  <2>2. l \div 2 \in 2 .. l - 2
    BY <2>1
  <2> QED BY <2>1, <2>2 DEF l
<1>2. x \in 1 .. n /\ y \in 1 .. n /\ first \in 1 .. n
  BY <1>1
<1> HIDE DEF x, y, z
<1>3. s[x] \in Elem /\ s[y] \in Elem /\ s[z] \in Elem
  BY <1>1, <1>2 DEF Arrays
<1>4. /\ m \in {x, y, z}
      /\ \E k \in {x, y, z} : k # m /\ ~Less(s[k], s[m])
  <2>1. ~Less(s[x], s[y]) \/ ~Less(s[y], s[x])
    BY <1>3, LessOrder
  <2>2. ~Less(s[x], s[z]) \/ ~Less(s[z], s[x])
    BY <1>3, LessOrder
  <2>3. ~Less(s[y], s[z]) \/ ~Less(s[z], s[y])
    BY <1>3, LessOrder
  <2> QED BY <1>1, <2>1, <2>2, <2>3
<1>5. r = MedianToFirst(s, first, last)
  BY DEF MedianToFirst, x, y, z
<1> HIDE DEF m
<1>6. m \in first + 1 .. z /\ m \in 1 .. n
  BY <1>1, <1>2, <1>4
<1>7. r \in Arrays(n) /\ \A k \in 1 .. n : r[k] = IF k = first THEN s[m] ELSE IF k = m THEN s[first] ELSE s[k]
  BY <1>6, RearrangedTyped
<1>8. Rearranged(s, r, first, z)
  <2>1. first \in first .. z /\ m \in first .. z
    BY <1>1, <1>6
  <2> QED BY <1>1, <2>1, ExchangeRearranges
<1> HIDE DEF r
<1>9. \E i \in first + 1 .. last - 1 : ~Less(r[i], r[first])
  <2>1. PICK k \in {x, y, z} : k # m /\ ~Less(s[k], s[m])
    BY <1>4
  <2>2. k \in first + 1 .. last - 1 /\ k \in 1 .. n /\ k # first
    BY <1>1, <1>2, <2>1
  <2> QED BY <1>2, <1>7, <2>1, <2>2
<1>10. Partitioning(r, first, last, first + 1, last)
  BY <1>9 DEF Partitioning
<1> QED BY <1>1, <1>5, <1>7, <1>8, <1>10

\* The swap puts two behind the scans that stop the next ones.
LEMMA SwapRight ==
  ASSUME NEW n \in Nat, NEW s \in Arrays(n), NEW first \in 1 .. n, NEW last \in first + 1 .. n + 1,
         NEW lo, NEW hi, Partitioning(s, first, last, lo, hi),
         NEW up, NEW down, Stopped(s, first, last, lo, hi, up, down), up < down
  PROVE  LET r == Exchange2(s, up, down)
         IN  /\ r \in Arrays(n) /\ Rearranged(s, r, first, last - 1)
             /\ Partitioning(r, first, last, up + 1, down)
<1> DEFINE r == Exchange2(s, up, down)
<1>1. /\ lo \in first + 1 .. hi /\ hi \in lo .. last
      /\ up \in lo .. last - 1 /\ down \in first .. hi - 1
  BY DEF Partitioning, Stopped
<1>2. /\ up \in 1 .. n /\ down \in 1 .. n /\ first < up /\ first \in 1 .. n /\ last - 1 \in 1 .. n
      /\ up \in first .. last - 1 /\ down \in first .. last - 1
  BY <1>1
<1>3. r \in Arrays(n) /\ \A k \in 1 .. n : r[k] = IF k = up THEN s[down] ELSE IF k = down THEN s[up] ELSE s[k]
  BY <1>2, RearrangedTyped
<1>4. Rearranged(s, r, first, last - 1)
  BY <1>2, ExchangeRearranges
<1> HIDE DEF r
<1>5. r[first] = s[first] /\ s[first] \in Elem /\ \A k \in 1 .. n : s[k] \in Elem
  BY <1>2, <1>3 DEF Arrays
<1>6. ASSUME NEW i \in first + 1 .. up
      PROVE  ~Less(r[first], r[i])
  <2>1. i \in 1 .. n /\ i # down
    BY <1>1, <1>2
  <2>2. CASE i = up
    <3>1. r[i] = s[down]
      BY <1>2, <1>3, <2>2
    <3> QED BY <1>5, <3>1 DEF Stopped
  <2>3. CASE i < lo /\ i # up
    <3>1. r[i] = s[i] /\ i \in first + 1 .. lo - 1
      BY <1>1, <1>3, <2>1, <2>3
    <3> QED BY <1>5, <3>1 DEF Partitioning
  <2>4. CASE i >= lo /\ i # up
    <3>1. r[i] = s[i] /\ i \in lo .. up - 1
      BY <1>1, <1>3, <2>1, <2>4
    <3>2. Less(s[i], s[first])
      BY <3>1 DEF Stopped
    <3> QED BY <1>5, <2>1, <3>1, <3>2, LessOrder
  <2>5. i < lo \/ i >= lo
    BY <1>1
  <2> QED BY <2>2, <2>3, <2>4, <2>5
<1>7. ASSUME NEW i \in down .. last - 1
      PROVE  ~Less(r[i], r[first])
  <2>1. i \in 1 .. n /\ i # up
    BY <1>1, <1>2
  <2>2. CASE i = down
    <3>1. r[i] = s[up]
      BY <1>2, <1>3, <2>2
    <3> QED BY <1>5, <3>1 DEF Stopped
  <2>3. CASE i >= hi /\ i # down
    <3>1. r[i] = s[i] /\ i \in hi .. last - 1
      BY <1>1, <1>3, <2>1, <2>3
    <3> QED BY <1>5, <3>1 DEF Partitioning
  <2>4. CASE i < hi /\ i # down
    <3>1. r[i] = s[i] /\ i \in down + 1 .. hi - 1
      BY <1>1, <1>3, <2>1, <2>4
    <3>2. Less(s[first], s[i])
      BY <3>1 DEF Stopped
    <3> QED BY <1>5, <2>1, <3>1, <3>2, LessOrder
  <2>5. i < hi \/ i >= hi
    BY <1>1
  <2> QED BY <2>2, <2>3, <2>4, <2>5
<1>8. Partitioning(r, first, last, up + 1, down)
  <2>1. up + 1 \in first + 1 .. down /\ down \in up + 1 .. last /\ down \in up + 1 .. last - 1
    BY <1>1, <1>2
  <2>2. (up + 1) - 1 = up /\ down \in down .. last - 1
    BY <1>1
  <2>3. \E i \in up + 1 .. last - 1 : ~Less(r[i], r[first])
    BY <1>7, <2>1, <2>2
  <2>4. \A i \in first + 1 .. (up + 1) - 1 : ~Less(r[first], r[i])
    BY <1>6, <2>2
  <2>5. \A i \in down .. last - 1 : ~Less(r[i], r[first])
    BY <1>7
  <2>6. up + 1 \in first + 1 .. down /\ down \in up + 1 .. last
    BY <2>1
  <2> QED BY <2>3, <2>4, <2>5, <2>6 DEF Partitioning
<1> QED BY <1>3, <1>4, <1>8 DEF r

\* Where the scans meet, the range is split, and both parts are smaller.
LEMMA CutRight ==
  ASSUME NEW n \in Nat, NEW s \in Arrays(n), NEW first \in 1 .. n, NEW last \in first + 1 .. n + 1,
         NEW lo, NEW hi, Partitioning(s, first, last, lo, hi),
         NEW up, NEW down, Stopped(s, first, last, lo, hi, up, down), up >= down,
         Split(s, first), Split(s, last)
  PROVE  up \in first + 1 .. last - 1 /\ Split(s, up)
<1>1. /\ lo \in first + 1 .. hi /\ hi \in lo .. last
      /\ up \in lo .. last - 1 /\ down \in first .. hi - 1
  BY DEF Partitioning, Stopped
<1>2. \A k \in 1 .. n : s[k] \in Elem
  BY DEF Arrays
<1>3. ASSUME NEW i \in first .. up - 1
      PROVE  ~Less(s[first], s[i])
  <2>1. i \in 1 .. n /\ s[i] \in Elem /\ s[first] \in Elem
    BY <1>1, <1>2
  <2>2. CASE i = first
    BY <2>1, <2>2, LessOrder
  <2>3. CASE i # first /\ i < lo
    <3>1. i \in first + 1 .. lo - 1
      BY <1>1, <2>3
    <3> QED BY <3>1 DEF Partitioning
  <2>4. CASE i # first /\ i >= lo
    <3>1. i \in lo .. up - 1
      BY <1>1, <2>4
    <3>2. Less(s[i], s[first])
      BY <3>1 DEF Stopped
    <3> QED BY <2>1, <3>2, LessOrder
  <2>5. i < lo \/ i >= lo
    BY <1>1
  <2> QED BY <2>2, <2>3, <2>4, <2>5
<1>4. ASSUME NEW j \in up .. last - 1
      PROVE  ~Less(s[j], s[first])
  <2>1. j \in 1 .. n /\ s[j] \in Elem /\ s[first] \in Elem
    BY <1>1, <1>2
  <2>2. CASE j = up
    BY <2>2 DEF Stopped
  <2>3. CASE j >= hi
    <3>1. j \in hi .. last - 1
      BY <1>1, <2>3
    <3> QED BY <3>1 DEF Partitioning
  <2>4. CASE j # up /\ j < hi
    <3>1. j \in down + 1 .. hi - 1
      BY <1>1, <2>4
    <3>2. Less(s[first], s[j])
      BY <3>1 DEF Stopped
    <3> QED BY <2>1, <3>2, LessOrder
  <2>5. j < hi \/ j >= hi
    BY <1>1
  <2> QED BY <2>2, <2>3, <2>4, <2>5
<1>5. up \in first + 1 .. last - 1 /\ last - 1 \in Int /\ last - 1 + 1 = last /\ up \in first .. last - 1 + 1
  BY <1>1
<1>6. \A i \in first .. up - 1 : \A j \in up .. last - 1 : ~Less(s[j], s[i])
  <2> TAKE i \in first .. up - 1
  <2> TAKE j \in up .. last - 1
  <2>1. i \in 1 .. n /\ j \in 1 .. n
    BY <1>1
  <2>2. s[i] \in Elem /\ s[j] \in Elem /\ s[first] \in Elem
    BY <1>2, <2>1
  <2> QED BY <1>3, <1>4, <2>2, LessOrder
<1> QED BY <1>5, <1>6, SplitWithin

\* __introselect() without a limit left: the nth is at the top of a heap.
LEMMA NthHeapRight ==
  ASSUME NEW n \in Nat, NEW s \in Arrays(n), NEW first \in 1 .. n, NEW last \in first + 1 .. n + 1,
         NEW k \in first .. last - 1, Split(s, first), Split(s, last)
  PROVE  LET r == Exchange2(HeapSelect(s, first, k + 1, last), first, k)
         IN  /\ r \in Arrays(n) /\ Rearranged(s, r, first, last - 1)
             /\ Split(r, k) /\ Split(r, k + 1)
<1> DEFINE middle == k + 1
           t == HeapSelect(s, first, middle, last)
           r == Exchange2(t, first, k)
<1>1. middle \in first + 1 .. last /\ middle \in first .. n + 1 /\ last \in middle .. n + 1 /\ middle - 1 = k
  OBVIOUS
<1> HIDE DEF middle
<1>2. t \in Arrays(n) /\ Rearranged(s, t, first, last - 1) /\ HeapLeast(t, first, middle, last)
  BY <1>1, HeapSelectRight DEF HeapSelected
<1> HIDE DEF t
<1>3. /\ k \in 1 .. n /\ first \in first .. last - 1 /\ last - 1 \in 1 .. n /\ first \in first .. k
      /\ k \in first .. k
  OBVIOUS
<1>4. r \in Arrays(n) /\ \A i \in 1 .. n : r[i] = IF i = first THEN t[k] ELSE IF i = k THEN t[first] ELSE t[i]
  BY <1>2, <1>3, RearrangedTyped
<1>5. Rearranged(t, r, first, last - 1)
  BY <1>2, <1>3, ExchangeRearranges
<1> HIDE DEF r
<1>6. Rearranged(s, r, first, last - 1)
  <2>1. DOMAIN t = DOMAIN s
    BY <1>2 DEF Arrays
  <2> QED BY <1>2, <1>3, <1>5, <2>1, RearrangedThen
<1>7. \A i \in first .. k : ~Less(t[first], t[i])
  <2>1. middle - first \in Nat /\ first + (middle - first) - 1 = k
    BY <1>1
  <2>2. first + (middle - first) - 1 <= n /\ HeapFrom(t, first, middle - first, 0)
    BY <1>2, <2>1 DEF HeapLeast
  <2>3. \A i \in first .. first + (middle - first) - 1 : ~Less(t[first], t[i])
    BY <1>2, <2>1, <2>2, TopGreatest
  <2> QED BY <2>1, <2>3
<1>8. \A j \in k + 1 .. last - 1 : ~Less(t[j], t[first])
  BY <1>1, <1>2 DEF HeapLeast, middle
<1>9. \A i \in 1 .. n : t[i] \in Elem
  BY <1>2 DEF Arrays
<1>10. r[k] = t[first] /\ \A j \in k + 1 .. last - 1 : r[j] = t[j]
  <2>1. r[k] = t[first]
    BY <1>3, <1>4
  <2>2. \A j \in k + 1 .. last - 1 : j \in 1 .. n /\ j # first /\ j # k
    OBVIOUS
  <2> QED BY <1>4, <2>1, <2>2
<1>11. \A i \in first .. k : ~Less(t[first], r[i])
  <2> TAKE i \in first .. k
  <2>1. i \in 1 .. n
    OBVIOUS
  <2> QED BY <1>3, <1>4, <1>7, <2>1
<1>12. Split(r, first) /\ Split(r, last)
  <2>1. first .. last - 1 \subseteq 1 .. n /\ last - 1 \in Int /\ first <= first /\ last - 1 < last
    OBVIOUS
  <2>2. Split(r, first)
    BY <1>4, <1>6, <2>1, SplitKept
  <2>3. Split(r, last)
    BY <1>4, <1>6, <2>1, SplitKept
  <2> QED BY <2>2, <2>3
<1>13. ASSUME NEW i \in first .. k, NEW j \in k + 1 .. last - 1
       PROVE  ~Less(r[j], r[i])
  <2>1. ~Less(t[first], r[i]) /\ ~Less(t[j], t[first]) /\ r[j] = t[j]
    BY <1>8, <1>10, <1>11
  <2>2. i \in 1 .. n /\ j \in 1 .. n /\ r[i] \in Elem
    BY <1>4 DEF Arrays
  <2> QED BY <1>9, <2>1, <2>2, LessOrder
<1> DEFINE hi == last - 1
<1>14. hi \in Int /\ hi + 1 = last /\ Split(r, hi + 1) /\ k + 1 \in first .. hi + 1 /\ k \in first .. hi + 1
  BY <1>12
<1>15. \A i \in first .. k : \A j \in k + 1 .. hi : ~Less(r[j], r[i])
  BY <1>13
<1> HIDE DEF hi
<1>16. Split(r, k + 1)
  <2> DEFINE b == k + 1
  <2>1. b \in first .. hi + 1 /\ \A i \in first .. b - 1 : \A j \in b .. hi : ~Less(r[j], r[i])
    <3>1. b - 1 = k
      OBVIOUS
    <3> QED BY <1>14, <1>15, <3>1
  <2> HIDE DEF b
  <2>2. n \in Nat /\ r \in Arrays(n) /\ first \in Int /\ hi \in Int
    BY <1>4, <1>14
  <2>3. Split(r, first) /\ Split(r, hi + 1)
    BY <1>12, <1>14
  <2>4. Split(r, b)
    BY <2>1, <2>2, <2>3, SplitWithin
  <2> QED BY <2>4 DEF b
<1>17. Split(r, k)
  <2>1. \A i \in first .. k - 1 : \A j \in k .. hi : ~Less(r[j], r[i])
    <3> TAKE i \in first .. k - 1
    <3> TAKE j \in k .. hi
    <3>1. i \in first .. k
      OBVIOUS
    <3>2. CASE j = k
      BY <1>10, <1>11, <3>1, <3>2
    <3>3. CASE j # k
      <4>1. j \in k + 1 .. hi
        BY <3>3
      <4> QED BY <1>15, <3>1, <4>1
    <3> QED BY <3>2, <3>3
  <2> QED BY <1>4, <1>12, <1>14, <2>1, SplitWithin
<1> QED BY <1>4, <1>6, <1>16, <1>17 DEF r, t, middle

\* The scans stop, and within the range.
LEMMA StopsRight ==
  ASSUME NEW n \in Nat, a \in Arrays(n), Len(a) = n, NEW first \in 1 .. n, NEW last \in first + 1 .. n + 1,
         first = Head(frames).first, Partitioning(a, first, last, scan.lo, scan.hi)
  PROVE  Stopped(a, first, last, scan.lo, scan.hi, StopUp, StopDown)
<1> DEFINE lo == scan.lo
           hi == scan.hi
           ups == {i \in lo .. n : ~Less(a[i], a[first])}
           downs == {i \in 1 .. hi - 1 : ~Less(a[first], a[i])}
<1>1. /\ lo \in first + 1 .. hi /\ hi \in lo .. last
      /\ \E i \in lo .. last - 1 : ~Less(a[i], a[first])
  BY DEF Partitioning
<1>2. StopUp = IF ups = {} THEN n + 1 ELSE CHOOSE i \in ups : \A j \in ups : i <= j
  BY DEF StopUp
<1>3. StopDown = IF downs = {} THEN 0 ELSE CHOOSE i \in downs : \A j \in downs : i >= j
  BY DEF StopDown
<1> HIDE DEF lo, hi
<1>4. PICK i \in lo .. last - 1 : ~Less(a[i], a[first])
  BY <1>1
<1>5. i \in ups /\ ups \in SUBSET Nat
  BY <1>1, <1>4
<1>6. \E k \in ups : \A j \in ups : k <= j
  <2> HIDE DEF ups
  <2> QED BY <1>5, Least
<1>7. StopUp \in ups /\ \A j \in ups : StopUp <= j
  <2> DEFINE up == CHOOSE k \in ups : \A j \in ups : k <= j
  <2>1. StopUp = up
    BY <1>2, <1>5
  <2> HIDE DEF ups
  <2> QED BY <1>6, <2>1
<1>8. /\ StopUp \in lo .. last - 1 /\ ~Less(a[StopUp], a[first])
      /\ \A j \in lo .. StopUp - 1 : Less(a[j], a[first])
  <2>1. StopUp \in lo .. n /\ StopUp <= i /\ ~Less(a[StopUp], a[first])
    BY <1>5, <1>7
  <2>2. \A j \in lo .. StopUp - 1 : j \in lo .. n /\ ~(StopUp <= j)
    BY <1>1, <2>1
  <2>3. \A j \in lo .. StopUp - 1 : j \notin ups
    BY <1>7, <2>2
  <2>4. StopUp \in lo .. last - 1
    BY <1>1, <1>4, <2>1
  <2> QED BY <2>1, <2>2, <2>3, <2>4
<1>9. a[first] \in Elem /\ ~Less(a[first], a[first])
  <2>1. a[first] \in Elem
    BY DEF Arrays
  <2> QED BY <2>1, LessOrder
<1>10. first \in downs /\ downs \in SUBSET (0 .. n)
  BY <1>1, <1>9
<1>11. \E k \in downs : \A j \in downs : j <= k
  <2> HIDE DEF downs
  <2> QED BY <1>10, Greatest
<1>12. StopDown \in downs /\ \A j \in downs : j <= StopDown
  <2> DEFINE down == CHOOSE k \in downs : \A j \in downs : k >= j
  <2>1. StopDown = down
    BY <1>3, <1>10
  <2>2. \E k \in downs : \A j \in downs : k >= j
    BY <1>11
  <2> HIDE DEF downs
  <2> QED BY <2>1, <2>2
<1>13. /\ StopDown \in first .. hi - 1 /\ ~Less(a[first], a[StopDown])
       /\ \A j \in StopDown + 1 .. hi - 1 : Less(a[first], a[j])
  <2>1. StopDown \in 1 .. hi - 1 /\ first <= StopDown /\ ~Less(a[first], a[StopDown])
    BY <1>10, <1>12
  <2>2. \A j \in StopDown + 1 .. hi - 1 : j \in 1 .. hi - 1 /\ ~(j <= StopDown)
    BY <1>1, <2>1
  <2>3. \A j \in StopDown + 1 .. hi - 1 : j \notin downs
    BY <1>12, <2>2
  <2>4. StopDown \in first .. hi - 1
    BY <1>1, <2>1
  <2> QED BY <2>1, <2>2, <2>3, <2>4
<1> QED BY <1>8, <1>13 DEF Stopped, lo, hi

-----------------------------------------------------------------------------
\* Something within the first that insertion guards is a split, so an insertion
\* without a guard does not get below it.
LowSplit(s) == \E b \in 2 .. Threshold + 1 : Split(s, b)

\* Insertion without a guard stops at the split,
LEMMA LowStops ==
  ASSUME NEW n \in Nat, NEW s \in Arrays(n), NEW i \in 2 .. n, NEW b \in 2 .. i, Split(s, b)
  PROVE  PlaceFor(s, i) \in b .. i /\ ~Less(s[i], s[1])
<1>1. \A k \in 1 .. b - 1 : ~Less(s[i], s[k]) /\ k \in 1 .. i - 1
  BY DEF Split, Arrays
<1>2. i \in 1 .. n /\ 1 \in 1 .. b - 1 /\ b - 1 \in 1 .. b - 1
  OBVIOUS
<1>3. PlaceFor(s, i) # 0
  <2>1. ~Less(s[i], s[1]) /\ 1 \in 1 .. i - 1
    BY <1>1, <1>2
  <2>2. ~(\A k \in 1 .. i - 1 : Less(s[i], s[k]))
    BY <2>1
  <2> QED BY <1>2, <2>2, PlaceRight
<1>4. PlaceFor(s, i) \in 2 .. i /\ \A k \in PlaceFor(s, i) .. i - 1 : Less(s[i], s[k])
  BY <1>2, <1>3, PlaceRight
<1>5. ~(PlaceFor(s, i) < b)
  <2> SUFFICES ASSUME PlaceFor(s, i) < b
               PROVE  FALSE
    OBVIOUS
  <2>1. b - 1 \in PlaceFor(s, i) .. i - 1
    BY <1>4
  <2> QED BY <1>1, <1>2, <1>4, <2>1
<1> QED BY <1>1, <1>2, <1>4, <1>5

\* and leaves something split there.
LEMMA LowKept ==
  ASSUME NEW n \in Nat, NEW s \in Arrays(n), NEW i \in 2 .. n, LowSplit(s), NEW r,
         \/ r = Inserted(s, 1, i)
         \/ r = Moved(s, i, PlaceFor(s, i)) /\ PlaceFor(s, i) # 0
  PROVE  InsertedIn(n, s, r, 1, i) /\ LowSplit(r)
<1>1. InsertedIn(n, s, r, 1, i)
  <2>1. 1 \in 1 .. n /\ i \in 1 + 1 .. n
    OBVIOUS
  <2>2. CASE r = Inserted(s, 1, i)
    BY <2>1, <2>2, InsertedRight
  <2>3. CASE r = Moved(s, i, PlaceFor(s, i)) /\ PlaceFor(s, i) # 0
    BY <2>3, PlacedRight
  <2> QED BY <2>2, <2>3
<1>2. r \in Arrays(n) /\ Rearranged(s, r, 1, i)
  BY <1>1 DEF InsertedIn
<1>3. PICK b \in 2 .. Threshold + 1 : Split(s, b)
  BY DEF LowSplit
<1>4. b \in Int /\ b >= 2
  BY <1>3, ThresholdOK
<1>5. Split(r, b)
  <2>1. CASE i < b
    <3>1. 1 .. i \subseteq 1 .. n /\ i \in Int /\ 1 \in Int
      OBVIOUS
    <3> QED BY <1>2, <1>3, <1>4, <2>1, <3>1, SplitKept
  <2>2. CASE ~(i < b)
    <3>1. b \in 2 .. i
      BY <1>4, <2>2
    <3>2. PlaceFor(s, i) \in b .. i /\ ~Less(s[i], s[1])
      BY <1>3, <3>1, LowStops
    <3>3. r = Moved(s, i, PlaceFor(s, i))
      BY <3>2 DEF Inserted
    <3>4. b \in 1 .. n /\ i \in b .. n
      BY <3>1
    <3>5. Rearranged(s, r, b, i)
      BY <3>2, <3>3, <3>4, MovedRearranges
    <3>6. b .. i \subseteq 1 .. n /\ i \in Int /\ b \in Int /\ b <= b
      BY <3>1
    <3> QED BY <1>2, <1>3, <3>5, <3>6, SplitKept
  <2> QED BY <2>1, <2>2
<1> QED BY <1>1, <1>3, <1>5 DEF LowSplit

-----------------------------------------------------------------------------
(* The invariant                                                           *)

ArrayOK == Len(a) \in Nat \ {0} /\ a \in Arrays(Len(a)) /\ Tags(a) = 1 .. Len(a)

HeapState == /\ algo = "heap" /\ phase = "loop"
             /\ size \in 0 .. Len(a) /\ HeapFrom(a, 1, size, 0)

PartialState ==
  /\ algo = "partial_sort" /\ nth \in 1 .. Len(a) + 1
  /\ \/ phase = "loop"
     \/ phase = "done" /\ Ascending(a, 1, nth - 1) /\ Split(a, nth)

\* While __unguarded_partition() runs on the innermost frame
Scanning ==
  /\ phase = "scan" /\ frames # <<>>
  /\ ~Small(frames[1]) /\ frames[1].depth > 0
  /\ Partitioning(a, frames[1].first, frames[1].last, scan.lo, scan.hi)

SortState ==
  /\ algo = "sort" /\ FramesIn(Len(a), a, frames)
  /\ frames # <<>> => Bottom(frames) = 1
  /\ frames = <<>> => LowSplit(a)
  /\ \/ phase = "loop"
     \/ Scanning
     \/ phase = "insert" /\ frames = <<>> /\ size \in 2 .. Len(a) + 1 /\ Ascending(a, 1, size - 1)
     \/ phase = "done" /\ frames = <<>> /\ Ascending(a, 1, Len(a))

NthState ==
  /\ algo = "nth_element" /\ nth \in 1 .. Len(a) /\ FramesIn(Len(a), a, frames)
  /\ Len(frames) <= 1
  /\ frames # <<>> => frames[1].first <= nth /\ nth < frames[1].last
  /\ \/ phase = "loop" /\ frames # <<>>
     \/ Scanning
     \/ phase = "done" /\ Split(a, nth) /\ Split(a, nth + 1)

SortInd == ArrayOK /\ (HeapState \/ PartialState \/ SortState \/ NthState)

LEMMA ArrayLen ==
  ASSUME NEW n \in Nat, NEW s \in Arrays(n)
  PROVE  Len(s) = n /\ DOMAIN s = 1 .. n
<1>1. s \in [1 .. n -> Elem]
  BY DEF Arrays
<1> QED BY <1>1

\* An array is the same elements after a part of it is rearranged.
LEMMA Rebuilt ==
  ASSUME ArrayOK, NEW lo \in Int, NEW hi \in Int, lo .. hi \subseteq 1 .. Len(a),
         a' \in Arrays(Len(a)), Rearranged(a, a', lo, hi)
  PROVE  ArrayOK' /\ Len(a') = Len(a)
<1> DEFINE n == Len(a)
<1>1. n \in Nat \ {0} /\ a \in Arrays(n) /\ Tags(a) = 1 .. n
  BY DEF ArrayOK
<1> HIDE DEF n
<1>2. a' \in Arrays(n) /\ lo .. hi \subseteq 1 .. n
  BY DEF n
<1>3. Len(a') = n
  BY <1>1, <1>2, ArrayLen
<1>4. Tags(a') = Tags(a)
  BY <1>1, <1>2, TagsKept
<1>5. Tags(a)' = Tags(a')
  BY DEF Tags
<1> QED BY <1>1, <1>2, <1>3, <1>4, <1>5 DEF ArrayOK, n

LEMMA InHead ==
  ASSUME NEW n \in Nat, NEW s, NEW fs, fs # <<>>, FramesIn(n, s, fs)
  PROVE  /\ Head(fs) = fs[1] /\ Len(fs) \in Nat \ {0} /\ fs[1] \in Frames /\ FrameIn(n, s, fs[1])
         /\ fs[1].first \in 1 .. n /\ fs[1].last \in fs[1].first + 1 .. n + 1 /\ fs[1].depth \in Nat
         /\ Split(s, fs[1].first) /\ Split(s, fs[1].last)
<1>1. fs \in Seq(Frames)
  BY DEF FramesIn
<1>2. Len(fs) \in Nat \ {0}
  BY <1>1, EmptySeq
<1>3. Head(fs) = fs[1] /\ fs[1] \in Frames
  BY <1>1, <1>2
<1>4. FrameIn(n, s, fs[1])
  BY <1>2 DEF FramesIn
<1>5. fs[1].depth \in Nat
  BY <1>3 DEF Frames
<1> QED BY <1>2, <1>3, <1>4, <1>5 DEF FrameIn

\* The frames after what is in the innermost has been rearranged
LEMMA HeadRearranged ==
  ASSUME ArrayOK, frames # <<>>, FramesIn(Len(a), a, frames), a' \in Arrays(Len(a)),
         Rearranged(a, a', frames[1].first, frames[1].last - 1)
  PROVE  ArrayOK' /\ Len(a') = Len(a) /\ FramesIn(Len(a), a', frames)
<1> DEFINE n == Len(a)
<1>1. n \in Nat /\ a \in Arrays(n)
  BY DEF ArrayOK
<1>2. frames[1].first \in 1 .. n /\ frames[1].last \in frames[1].first + 1 .. n + 1
  BY <1>1, InHead
<1>3. frames[1].first \in Int /\ frames[1].last - 1 \in Int /\ frames[1].first .. frames[1].last - 1 \subseteq 1 .. n
  BY <1>2
<1>4. FramesIn(n, a', frames)
  <2>1. a' \in Arrays(n) /\ FramesIn(n, a, frames)
    OBVIOUS
  <2> HIDE DEF n
  <2> QED BY <1>1, <2>1, FramesKept
<1>5. ArrayOK' /\ Len(a') = Len(a)
  BY <1>3, Rebuilt
<1> QED BY <1>4, <1>5

\* The inductive invariant holds at the beginning,
LEMMA SortStart == SortInit => SortInd
<1> SUFFICES ASSUME SortInit
             PROVE  SortInd
  OBVIOUS
<1>1. PICK n \in 1 .. (IF algo = "heap" THEN QueueLen ELSE MaxLen) :
        /\ a \in Inputs(n)
        /\ nth \in CASE algo = "nth_element" -> 1 .. n
                   [] algo = "partial_sort" -> 1 .. n + 1
                   [] OTHER -> {1}
        /\ \E d \in (IF algo \in {"sort", "nth_element"} THEN Depths ELSE {0}) :
              frames = <<Frame(1, n + 1, d)>>
  BY DEF SortInit
<1>2. n \in Nat \ {0}
  BY <1>1, LengthsOK
<1>3. PICK k \in [1 .. n -> SortKeys] : a = [i \in 1 .. n |-> [key |-> k[i], tag |-> i]]
  BY <1>1 DEF Inputs
<1>4. a \in Arrays(n) /\ \A i \in 1 .. n : a[i].tag = i
  BY <1>2, <1>3 DEF Arrays, Elem
<1>5. Len(a) = n /\ DOMAIN a = 1 .. n
  BY <1>2, <1>4, ArrayLen
<1>6. ArrayOK
  BY <1>2, <1>4, <1>5 DEF ArrayOK, Tags
<1>7. algo \in {"sort", "nth_element", "partial_sort", "heap"} /\ phase = "loop" /\ size = 0
  BY DEF SortInit
<1>8. CASE algo = "heap"
  <2>1. HeapFrom(a, 1, 0, 0)
    BY DEF HeapFrom
  <2> QED BY <1>2, <1>5, <1>6, <1>7, <1>8, <2>1 DEF SortInd, HeapState
<1>9. CASE algo = "partial_sort"
  <2>1. nth \in 1 .. n + 1
    BY <1>1, <1>9
  <2> QED BY <1>5, <1>6, <1>7, <1>9, <2>1 DEF SortInd, PartialState
<1>10. CASE algo \in {"sort", "nth_element"}
  <2>1. PICK d \in Depths : frames = <<Frame(1, n + 1, d)>>
    BY <1>1, <1>10
  <2>2. d \in Nat
    BY <2>1, LengthsOK
  <2>3. Frame(1, n + 1, d) \in Frames /\ Frame(1, n + 1, d).first = 1 /\ Frame(1, n + 1, d).last = n + 1
    BY <1>2, <2>2 DEF Frame, Frames
  <2>4. frames \in Seq(Frames) /\ Len(frames) = 1 /\ frames[1] = Frame(1, n + 1, d) /\ frames # <<>>
    BY <2>1, <2>3
  <2>5. FramesIn(n, a, frames)
    <3>1. FrameIn(n, a, frames[1])
      BY <1>2, <1>4, <2>3, <2>4, SplitEnds DEF FrameIn
    <3>2. 1 .. Len(frames) = {1}
      BY <2>4
    <3> QED BY <2>4, <3>1, <3>2 DEF FramesIn
  <2>6. CASE algo = "sort"
    <3>1. Bottom(frames) = 1
      BY <2>3, <2>4 DEF Bottom
    <3> QED BY <1>5, <1>6, <1>7, <2>4, <2>5, <2>6, <3>1 DEF SortInd, SortState
  <2>7. CASE algo = "nth_element"
    <3>1. nth \in 1 .. n
      BY <1>1, <2>7
    <3> QED BY <1>5, <1>6, <1>7, <2>3, <2>4, <2>5, <2>7, <3>1 DEF SortInd, NthState
  <2> QED BY <1>10, <2>6, <2>7
<1> QED BY <1>7, <1>8, <1>9, <1>10

LEMMA PushStep ==
  ASSUME SortInd, Push
  PROVE  SortInd'
<1> DEFINE n == Len(a)
           value == a[size + 1]
<1>1. n \in Nat \ {0} /\ a \in Arrays(n) /\ ArrayOK
  BY DEF SortInd, ArrayOK
<1>2. /\ algo = "heap" /\ phase = "loop" /\ size \in 0 .. n /\ HeapFrom(a, 1, size, 0) /\ size < n
      /\ a' = PushHeap(a, 1, size, 0, value) /\ size' = size + 1 /\ algo' = algo /\ phase' = phase
  BY DEF SortInd, Push, HeapState, PartialState, SortState, NthState
<1> HIDE DEF n
<1>3. size \in Nat /\ 1 + size <= n /\ size + 1 = 1 + size /\ 1 \in 1 .. n /\ size + 1 \in 1 .. n
  BY <1>1, <1>2
<1>4. value \in Elem /\ value = a[1 + size]
  BY <1>1, <1>3 DEF Arrays
<1> HIDE DEF value
<1>5. a' \in Arrays(n) /\ Refilled(a, a', 1, 1 + size, 1 + size, value)
  BY <1>1, <1>2, <1>3, <1>4, PushRefills
<1>6. Rearranged(a, a', 1, 1 + size)
  <2> DEFINE h == 1 + size
  <2>1. 1 \in Int /\ h \in Int /\ h \in 1 .. h
    BY <1>3
  <2>2. Refilled(a, a', 1, h, h, a[h])
    BY <1>4, <1>5
  <2> HIDE DEF h
  <2>3. Rearranged(a, a', 1, h)
    BY <2>1, <2>2, RefilledAll
  <2> QED BY <2>3 DEF h
<1>7. HeapFrom(a', 1, size + 1, 0)
  BY <1>1, <1>2, <1>3, <1>4, PushKeepsHeap
<1>8. ArrayOK' /\ Len(a') = n
  <2>1. 1 .. 1 + size \subseteq 1 .. Len(a) /\ 1 + size \in Int /\ a' \in Arrays(Len(a))
    BY <1>3, <1>5 DEF n
  <2> QED BY <1>1, <1>6, <2>1, Rebuilt DEF n
<1>9. HeapState'
  BY <1>2, <1>3, <1>7, <1>8 DEF HeapState
<1> QED BY <1>8, <1>9 DEF SortInd

LEMMA Pop1Step ==
  ASSUME SortInd, Pop1
  PROVE  SortInd'
<1> DEFINE n == Len(a)
<1>1. n \in Nat \ {0} /\ a \in Arrays(n) /\ ArrayOK
  BY DEF SortInd, ArrayOK
<1>2. /\ algo = "heap" /\ phase = "loop" /\ size \in 0 .. n /\ HeapFrom(a, 1, size, 0) /\ size > 0
      /\ a' = (IF size > 1 THEN PopHeap(a, 1, size, size) ELSE a)
      /\ size' = size - 1 /\ algo' = algo /\ phase' = phase
  BY DEF SortInd, Pop1, HeapState, PartialState, SortState, NthState
<1> HIDE DEF n
<1>3. CASE size > 1
  <2> DEFINE len == size - 1
  <2>1. /\ len \in Nat /\ 1 + len = size /\ 1 \in 1 .. n /\ size \in 1 .. n /\ 1 < size /\ 1 + len <= size
        /\ size \in 1 .. n /\ size \in size .. n /\ size - 1 = len
    BY <1>1, <1>2, <1>3
  <2>2. HeapFrom(a, 1, len, 0)
    <3>1. \A c \in 1 .. len - 1 : c \in 1 .. size - 1
      BY <2>1
    <3> QED BY <1>2, <3>1 DEF HeapFrom
  <2> HIDE DEF len
  <2>3. a' = PopHeap(a, 1, 1 + len, size)
    BY <1>2, <1>3, <2>1
  <2>4. a' \in Arrays(n) /\ Popped(a, a', 1, len, size)
    BY <1>1, <2>1, <2>3, PopRight
  <2>5. HeapFrom(a', 1, len, 0)
    BY <1>1, <2>1, <2>2, <2>3, PopKeepsHeap
  <2>6. ArrayOK' /\ Len(a') = n
    <3>1. 1 .. size \subseteq 1 .. Len(a) /\ size \in Int /\ a' \in Arrays(Len(a)) /\ Rearranged(a, a', 1, size)
      BY <2>1, <2>4 DEF n, Popped
    <3> QED BY <1>1, <3>1, Rebuilt DEF n
  <2>7. HeapState'
    <3>1. len \in 0 .. n /\ size' = len
      BY <1>1, <1>2, <2>1
    <3> QED BY <1>2, <2>5, <2>6, <3>1 DEF HeapState
  <2> QED BY <2>6, <2>7 DEF SortInd
<1>4. CASE ~(size > 1)
  <2>1. a' = a /\ size' = 0
    BY <1>1, <1>2, <1>4
  <2>2. ArrayOK' /\ Len(a') = n
    BY <1>1, <2>1 DEF ArrayOK, Tags, n
  <2>3. HeapFrom(a', 1, 0, 0)
    BY DEF HeapFrom
  <2>4. HeapState'
    BY <1>1, <1>2, <2>1, <2>2, <2>3 DEF HeapState
  <2> QED BY <2>2, <2>4 DEF SortInd
<1> QED BY <1>3, <1>4

LEMMA MakeAllStep ==
  ASSUME SortInd, MakeAll
  PROVE  SortInd'
<1> DEFINE n == Len(a)
<1>1. n \in Nat \ {0} /\ a \in Arrays(n) /\ ArrayOK
  BY DEF SortInd, ArrayOK
<1>2. /\ algo = "heap" /\ phase = "loop" /\ a' = MakeHeap(a, 1, n + 1)
      /\ size' = n /\ algo' = algo /\ phase' = phase
  BY DEF SortInd, MakeAll, HeapState, PartialState, SortState, NthState
<1> HIDE DEF n
<1>3. 1 \in 1 .. n /\ n + 1 \in 1 .. n + 1 /\ (n + 1) - 1 = n
  BY <1>1
<1>4. Heaped(n, a, a', 1, n + 1)
  BY <1>1, <1>2, <1>3, MakeRight
<1>5. a' \in Arrays(n) /\ Rearranged(a, a', 1, n) /\ HeapFrom(a', 1, n, 0)
  BY <1>3, <1>4 DEF Heaped
<1>6. ArrayOK' /\ Len(a') = n
  <2>1. 1 .. n \subseteq 1 .. Len(a) /\ n \in Int /\ a' \in Arrays(Len(a))
    BY <1>1, <1>5 DEF n
  <2> QED BY <1>1, <1>5, <2>1, Rebuilt DEF n
<1>7. HeapState'
  BY <1>1, <1>2, <1>5, <1>6 DEF HeapState
<1> QED BY <1>6, <1>7 DEF SortInd

LEMMA SelectAllStep ==
  ASSUME SortInd, SelectAll
  PROVE  SortInd'
<1> DEFINE n == Len(a)
<1>1. n \in Nat \ {0} /\ a \in Arrays(n) /\ ArrayOK
  BY DEF SortInd, ArrayOK
<1>2. /\ algo = "partial_sort" /\ nth \in 1 .. n + 1 /\ a' = PartialSort(a, 1, nth, n + 1)
      /\ phase' = "done" /\ algo' = algo /\ nth' = nth
  BY DEF SortInd, SelectAll, HeapState, PartialState, SortState, NthState
<1> HIDE DEF n
<1>3. 1 \in 1 .. n /\ n + 1 \in nth .. n + 1 /\ (n + 1) - 1 = n
  BY <1>1, <1>2
<1>4. PartlySorted(n, a, a', 1, nth, n + 1)
  BY <1>1, <1>2, <1>3, PartialSortRight
<1>5. /\ a' \in Arrays(n) /\ Rearranged(a, a', 1, n) /\ Ascending(a', 1, nth - 1)
      /\ \A i \in 1 .. nth - 1 : \A j \in nth .. n : ~Less(a'[j], a'[i])
  BY <1>3, <1>4 DEF PartlySorted
<1>6. ArrayOK' /\ Len(a') = n
  <2>1. 1 .. n \subseteq 1 .. Len(a) /\ n \in Int /\ a' \in Arrays(Len(a))
    BY <1>1, <1>5 DEF n
  <2> QED BY <1>1, <1>5, <2>1, Rebuilt DEF n
<1>7. Split(a', nth)
  BY <1>1, <1>2, <1>5, SplitEnds, SplitWithin
<1>8. PartialState'
  BY <1>2, <1>5, <1>6, <1>7 DEF PartialState
<1> QED BY <1>6, <1>8 DEF SortInd

\* What holds of sort() and nth_element() while there are frames
LEMMA Loops ==
  ASSUME SortInd, frames # <<>>, phase \in {"loop", "scan"}, Sorts
  PROVE  /\ Len(a) \in Nat \ {0} /\ a \in Arrays(Len(a)) /\ ArrayOK
         /\ FramesIn(Len(a), a, frames) /\ Head(frames) = frames[1]
         /\ (algo = "sort" /\ Bottom(frames) = 1) \/ (algo = "nth_element" /\ NthState)
         /\ phase = "scan" => Scanning
<1>1. Len(a) \in Nat \ {0} /\ a \in Arrays(Len(a)) /\ ArrayOK
  BY DEF SortInd, ArrayOK
<1>2. SortState \/ NthState
  BY DEF SortInd, HeapState, PartialState, Sorts
<1>3. FramesIn(Len(a), a, frames)
  BY <1>2 DEF SortState, NthState
<1>6. phase = "scan" => Scanning
  BY <1>2 DEF SortState, NthState
<1>4. (algo = "sort" /\ Bottom(frames) = 1) \/ (algo = "nth_element" /\ NthState)
  BY <1>2 DEF SortState, NthState
<1>5. Head(frames) = frames[1]
  <2>1. Len(a) \in Nat
    BY <1>1
  <2> QED BY <1>3, <2>1, InHead
<1> QED BY <1>1, <1>3, <1>4, <1>5, <1>6

\* An array that is rearranged within the innermost frame, and frames that stay
LEMMA FramesStay ==
  ASSUME SortInd, frames # <<>>, phase \in {"loop", "scan"}, Sorts,
         a' \in Arrays(Len(a)), Rearranged(a, a', frames[1].first, frames[1].last - 1),
         frames' = frames, algo' = algo, nth' = nth, Scanning'
  PROVE  SortInd'
<1>1. /\ ArrayOK /\ FramesIn(Len(a), a, frames)
      /\ (algo = "sort" /\ Bottom(frames) = 1) \/ (algo = "nth_element" /\ NthState)
  BY Loops
<1>2. ArrayOK' /\ Len(a') = Len(a) /\ FramesIn(Len(a), a', frames)
  BY <1>1, HeadRearranged
<1>3. CASE algo = "sort" /\ Bottom(frames) = 1
  <2>1. SortState'
    BY <1>2, <1>3 DEF SortState, Bottom
  <2> QED BY <1>2, <2>1 DEF SortInd
<1>4. CASE algo = "nth_element" /\ NthState
  <2>1. NthState'
    BY <1>2, <1>4 DEF NthState
  <2> QED BY <1>2, <2>1 DEF SortInd
<1> QED BY <1>1, <1>3, <1>4

LEMMA PivotStep ==
  ASSUME SortInd, Sorts, phase = "loop", frames # <<>>, Pivot(Head(frames))
  PROVE  SortInd'
<1> DEFINE n == Len(a)
           f == frames[1]
           first == f.first
           last == f.last
<1>1. /\ n \in Nat \ {0} /\ a \in Arrays(n) /\ FramesIn(n, a, frames) /\ Head(frames) = f
  BY Loops
<1>2. first \in 1 .. n /\ last \in first + 1 .. n + 1 /\ f.depth \in Nat
  BY <1>1, InHead
<1>3. /\ ~Small(f) /\ f.depth > 0 /\ a' = MedianToFirst(a, first, last)
      /\ scan' = [lo |-> first + 1, hi |-> last] /\ phase' = "scan"
      /\ frames' = frames /\ algo' = algo /\ nth' = nth
  BY <1>1 DEF Pivot
<1>4. last - first > 3
  BY <1>2, <1>3, ThresholdOK DEF Small
<1>5. last \in first + 4 .. n + 1
  BY <1>2, <1>4
<1> HIDE DEF n, first, last
<1>6. /\ a' \in Arrays(n) /\ Rearranged(a, a', first, last - 1)
      /\ Partitioning(a', first, last, first + 1, last)
  BY <1>1, <1>2, <1>3, <1>5, MedianRight
<1>7. Small(f)' = Small(f)
  BY <1>3 DEF Small
<1>8. scan'.lo = first + 1 /\ scan'.hi = last
  BY <1>3
<1>9. Scanning'
  BY <1>3, <1>6, <1>7, <1>8 DEF Scanning, first, last
<1> QED BY <1>3, <1>6, <1>9, FramesStay DEF n, first, last

LEMMA SmallStep ==
  ASSUME SortInd, phase = "loop", frames # <<>>, Small(Head(frames)), algo = "sort",
         frames' = Tail(frames), UNCHANGED <<algo, a, nth, scan, phase, size>>
  PROVE  SortInd'
<1> DEFINE n == Len(a)
<1>1. /\ n \in Nat \ {0} /\ a \in Arrays(n) /\ ArrayOK /\ FramesIn(n, a, frames)
      /\ Head(frames) = frames[1] /\ Bottom(frames) = 1
  BY Loops DEF Sorts
<1>2. /\ frames[1].first \in 1 .. n /\ frames[1].last \in frames[1].first + 1 .. n + 1
      /\ Split(a, frames[1].last)
  BY <1>1, InHead
<1>3. /\ FramesIn(n, a, Tail(frames))
      /\ Tail(frames) = <<>> => Len(frames) = 1
      /\ Tail(frames) # <<>> => Bottom(Tail(frames)) = 1
  BY <1>1, FramesTail
<1>4. Tail(frames) = <<>> => LowSplit(a)
  <2> SUFFICES ASSUME Len(frames) = 1
               PROVE  LowSplit(a)
    BY <1>3
  <2>1. frames[1].first = 1
    BY <1>1 DEF Bottom
  <2>2. frames[1].last - frames[1].first <= Threshold
    BY <1>1 DEF Small
  <2>3. frames[1].last \in 2 .. Threshold + 1
    BY <1>2, <2>1, <2>2, ThresholdOK
  <2> QED BY <1>2, <2>3 DEF LowSplit
<1>5. ArrayOK'
  BY <1>1 DEF ArrayOK, Tags
<1>6. SortState'
  BY <1>3, <1>4 DEF SortState, Bottom, LowSplit, Split
<1> QED BY <1>5, <1>6 DEF SortInd

LEMMA UseHeapStep ==
  ASSUME SortInd, Sorts, phase = "loop", frames # <<>>, UseHeap(Head(frames))
  PROVE  SortInd'
<1> DEFINE n == Len(a)
           first == frames[1].first
           last == frames[1].last
<1>1. /\ n \in Nat \ {0} /\ a \in Arrays(n) /\ ArrayOK /\ FramesIn(n, a, frames)
      /\ Head(frames) = frames[1]
      /\ (algo = "sort" /\ Bottom(frames) = 1) \/ (algo = "nth_element" /\ NthState)
  BY Loops
<1>2. /\ first \in 1 .. n /\ last \in first + 1 .. n + 1 /\ Split(a, first) /\ Split(a, last)
  BY <1>1, InHead
<1>3. frames' = Tail(frames) /\ algo' = algo /\ nth' = nth
  BY DEF UseHeap
<1> HIDE DEF n, first, last
<1>4. CASE algo = "sort" /\ Bottom(frames) = 1
  <2>1. a' = PartialSort(a, first, last, last) /\ phase' = phase
    BY <1>1, <1>4 DEF UseHeap, first, last
  <2>2. last \in first .. n + 1 /\ last \in last .. n + 1 /\ last - 1 \in Int /\ (last - 1) + 1 = last
    BY <1>2
  <2>3. PartlySorted(n, a, a', first, last, last)
    BY <1>1, <1>2, <2>1, <2>2, PartialSortRight
  <2>4. a' \in Arrays(n) /\ Rearranged(a, a', first, last - 1) /\ Ascending(a', first, last - 1)
    BY <2>3 DEF PartlySorted
  <2>5. ArrayOK' /\ Len(a') = n /\ FramesIn(n, a', frames)
    BY <1>1, <2>4, HeadRearranged DEF n, first, last
  <2>6. /\ FramesIn(n, a', Tail(frames))
        /\ Tail(frames) = <<>> => Len(frames) = 1
        /\ Tail(frames) # <<>> => Bottom(Tail(frames)) = 1
    BY <1>1, <1>4, <2>5, FramesTail
  <2>7. Tail(frames) = <<>> => LowSplit(a')
    <3> SUFFICES ASSUME Len(frames) = 1
                 PROVE  LowSplit(a')
      BY <2>6
    <3>1. first = 1
      BY <1>4 DEF Bottom, first
    <3>2. Split(a', first) /\ Split(a', last)
      BY <1>1, <2>5, InHead DEF first, last
    <3>3. 2 \in first .. (last - 1) + 1
      BY <1>2, <3>1
    <3>4. Split(a', (last - 1) + 1) /\ first \in Int
      BY <1>2, <2>2, <3>2
    <3>5. Split(a', 2)
      BY <1>1, <2>2, <2>4, <3>2, <3>3, <3>4, AscendingSplit
    <3> QED BY <3>5, ThresholdOK DEF LowSplit
  <2>8. SortState'
    BY <1>3, <1>4, <2>1, <2>5, <2>6, <2>7 DEF SortState, Bottom, LowSplit, Split
  <2> QED BY <2>5, <2>8 DEF SortInd
<1>5. CASE algo = "nth_element" /\ NthState
  <2>1. /\ a' = Exchange2(HeapSelect(a, first, nth + 1, last), first, nth) /\ phase' = "done"
    BY <1>1, <1>5 DEF UseHeap, first, last
  <2>2. nth \in first .. last - 1 /\ nth \in 1 .. n /\ Len(frames) <= 1
    BY <1>2, <1>5 DEF NthState, first, last, n
  <2>3. /\ a' \in Arrays(n) /\ Rearranged(a, a', first, last - 1)
        /\ Split(a', nth) /\ Split(a', nth + 1)
    BY <1>1, <1>2, <2>1, <2>2, NthHeapRight
  <2>4. ArrayOK' /\ Len(a') = n /\ FramesIn(n, a', frames)
    BY <1>1, <2>3, HeadRearranged DEF n, first, last
  <2>5. FramesIn(n, a', Tail(frames))
    BY <1>1, <2>4, FramesTail
  <2>6. Tail(frames) = <<>>
    <3>1. Len(frames) \in Nat \ {0}
      BY <1>1, InHead
    <3>2. frames \in Seq(Frames)
      BY <1>1 DEF FramesIn
    <3>3. Len(frames) = 1
      <4>1. \A k \in Nat \ {0} : k <= 1 => k = 1
        OBVIOUS
      <4> QED BY <2>2, <3>1, <4>1, Zenon
    <3>4. Tail(frames) \in Seq(Frames) /\ Len(Tail(frames)) = 0
      BY <3>2, <3>3
    <3> QED BY <3>4, EmptySeq
  <2>7. Len(Tail(frames)) <= 1
    <3>1. Len(Tail(frames)) = 0
      BY <2>6, EmptySeq
    <3> QED BY <3>1
  <2>8. NthState'
    BY <1>3, <1>5, <2>1, <2>2, <2>3, <2>4, <2>5, <2>6, <2>7 DEF NthState, Split
  <2> QED BY <2>4, <2>8 DEF SortInd
<1> QED BY <1>1, <1>4, <1>5

\* Where the scans of a partition stop
LEMMA ScanStops ==
  ASSUME SortInd, phase = "scan"
  PROVE  /\ Sorts /\ frames # <<>> /\ Head(frames) = frames[1]
         /\ Partitioning(a, frames[1].first, frames[1].last, scan.lo, scan.hi)
         /\ Stopped(a, frames[1].first, frames[1].last, scan.lo, scan.hi, StopUp, StopDown)
<1>1. Sorts /\ frames # <<>> /\ Scanning
  BY DEF SortInd, HeapState, PartialState, SortState, NthState, Scanning, Sorts
<1>2. /\ Len(a) \in Nat \ {0} /\ a \in Arrays(Len(a)) /\ FramesIn(Len(a), a, frames)
      /\ Head(frames) = frames[1]
  BY <1>1, Loops
<1> DEFINE n == Len(a)
           first == frames[1].first
           last == frames[1].last
<1>3. first \in 1 .. n /\ last \in first + 1 .. n + 1
  BY <1>1, <1>2, InHead
<1>4. Partitioning(a, first, last, scan.lo, scan.hi)
  BY <1>1 DEF Scanning
<1>5. Stopped(a, first, last, scan.lo, scan.hi, StopUp, StopDown)
  <2>1. n \in Nat /\ a \in Arrays(n) /\ Len(a) = n /\ first = Head(frames).first
    BY <1>2
  <2> HIDE DEF n, first, last
  <2> QED BY <1>3, <1>4, <2>1, StopsRight
<1> QED BY <1>1, <1>2, <1>4, <1>5

LEMMA SwapStep ==
  ASSUME SortInd, phase = "scan", StopUp < StopDown, a' = Exchange2(a, StopUp, StopDown),
         scan' = [lo |-> StopUp + 1, hi |-> StopDown],
         frames' = frames, phase' = phase, algo' = algo, nth' = nth
  PROVE  SortInd'
<1> DEFINE n == Len(a)
           first == frames[1].first
           last == frames[1].last
           up == StopUp
           down == StopDown
<1>1. /\ Sorts /\ frames # <<>> /\ Head(frames) = frames[1]
      /\ Partitioning(a, first, last, scan.lo, scan.hi)
      /\ Stopped(a, first, last, scan.lo, scan.hi, up, down)
  BY ScanStops
<1>2. n \in Nat \ {0} /\ a \in Arrays(n) /\ FramesIn(n, a, frames) /\ Scanning
  BY <1>1, Loops
<1>3. first \in 1 .. n /\ last \in first + 1 .. n + 1
  BY <1>1, <1>2, InHead
<1>4. up < down /\ a' = Exchange2(a, up, down) /\ scan'.lo = up + 1 /\ scan'.hi = down
  OBVIOUS
<1> HIDE DEF n, first, last, up, down
<1>5. /\ a' \in Arrays(n) /\ Rearranged(a, a', first, last - 1)
      /\ Partitioning(a', first, last, up + 1, down)
  BY <1>1, <1>2, <1>3, <1>4, SwapRight
<1>6. ~Small(frames[1])' /\ frames'[1].depth > 0
  BY <1>2 DEF Scanning, Small
<1>7. Scanning'
  BY <1>1, <1>4, <1>5, <1>6 DEF Scanning, first, last
<1> QED BY <1>1, <1>5, <1>7, FramesStay DEF n, first, last

LEMMA OneFrame ==
  ASSUME NEW n \in Nat, NEW s, NEW g \in Frames, FrameIn(n, s, g), NEW fs \in Seq(Frames), Len(fs) = 1
  PROVE  LET gs == <<g>> \o Tail(fs)
         IN  FramesIn(n, s, gs) /\ Len(gs) = 1 /\ gs # <<>> /\ gs[1] = g
<1>1. Tail(fs) \in Seq(Frames) /\ Len(Tail(fs)) = 0
  OBVIOUS
<1>2. Tail(fs) = <<>>
  BY <1>1, EmptySeq
<1>3. <<g>> \in Seq(Frames) /\ Len(<<g>>) = 1 /\ <<g>>[1] = g /\ <<g>> # <<>>
  OBVIOUS
<1>4. <<g>> \o Tail(fs) = <<g>>
  BY <1>2, <1>3, ConcatEmptySeq
<1>5. FramesIn(n, s, <<g>>)
  BY <1>3 DEF FramesIn
<1> QED BY <1>3, <1>4, <1>5

LEMMA CutStep ==
  ASSUME SortInd, phase = "scan", ~(StopUp < StopDown),
         frames' = Parts(Head(frames), Cut(StopUp, StopDown)) \o Tail(frames),
         phase' = "loop", a' = a, algo' = algo, nth' = nth
  PROVE  SortInd'
<1> DEFINE n == Len(a)
           first == frames[1].first
           last == frames[1].last
           d == frames[1].depth
           up == StopUp
           down == StopDown
<1>1. /\ Sorts /\ frames # <<>> /\ Head(frames) = frames[1]
      /\ Partitioning(a, first, last, scan.lo, scan.hi)
      /\ Stopped(a, first, last, scan.lo, scan.hi, up, down)
  BY ScanStops
<1>2. /\ n \in Nat \ {0} /\ a \in Arrays(n) /\ ArrayOK /\ FramesIn(n, a, frames) /\ Scanning
      /\ (algo = "sort" /\ Bottom(frames) = 1) \/ (algo = "nth_element" /\ NthState)
  BY <1>1, Loops
<1>3. /\ first \in 1 .. n /\ last \in first + 1 .. n + 1 /\ Split(a, first) /\ Split(a, last)
      /\ frames[1] \in Frames /\ Len(frames) \in Nat \ {0} /\ d \in Nat
  BY <1>1, <1>2, InHead
<1>4. d > 0
  BY <1>2 DEF Scanning
<1>5. frames' = Parts(frames[1], up) \o Tail(frames)
  BY <1>1 DEF Cut
<1>6. up >= down
  <2>1. up \in Int /\ down \in Int
    <3>1. /\ scan.lo \in Int /\ scan.hi \in Int
      BY <1>1, <1>3 DEF Partitioning
    <3> HIDE DEF up, down, first, last
    <3> QED BY <1>1, <1>3, <3>1 DEF Stopped
  <2> QED BY <2>1
<1> HIDE DEF n, first, last, up, down
<1>7. up \in first + 1 .. last - 1 /\ Split(a, up)
  BY <1>1, <1>2, <1>3, <1>6, CutRight
<1>8. ArrayOK' /\ Len(a') = n
  BY <1>2 DEF ArrayOK, Tags, n
<1>9. CASE algo = "sort" /\ Bottom(frames) = 1
  <2>1. frames' = <<Frame(up, last, d - 1), Frame(first, up, d - 1)>> \o Tail(frames)
    BY <1>5, <1>9 DEF Parts, first, last
  <2>2. FramesIn(n, a, frames') /\ frames' # <<>> /\ Bottom(frames') = Bottom(frames)
    <3>1. n \in Nat /\ frames[1].depth > 0 /\ up \in frames[1].first + 1 .. frames[1].last - 1
      BY <1>2, <1>4, <1>7 DEF first, last
    <3>2. LET f == frames[1]
              gs == <<Frame(up, f.last, f.depth - 1), Frame(f.first, up, f.depth - 1)>> \o Tail(frames)
          IN  FramesIn(n, a, gs) /\ gs # <<>> /\ Bottom(gs) = Bottom(frames)
      BY <1>1, <1>2, <1>7, <3>1, FramesParted
    <3> QED BY <2>1, <3>2 DEF first, last
  <2>3. SortState'
    BY <1>8, <1>9, <2>2 DEF SortState, Bottom, FramesIn, FrameIn, Split, n
  <2> QED BY <1>8, <2>3 DEF SortInd
<1>10. CASE algo = "nth_element" /\ NthState
  <2>1. nth \in 1 .. n /\ first <= nth /\ nth < last /\ Len(frames) <= 1
    BY <1>1, <1>10 DEF NthState, first, last, n
  <2>2. frames \in Seq(Frames) /\ Len(frames) = 1
    <3>1. \A k \in Nat \ {0} : k <= 1 => k = 1
      OBVIOUS
    <3>2. Len(frames) = 1
      BY <1>3, <2>1, <3>1, Zenon
    <3> QED BY <1>2, <3>2 DEF FramesIn
  <2> DEFINE g == IF up <= nth THEN Frame(up, last, d - 1) ELSE Frame(first, up, d - 1)
  <2>3. frames' = <<g>> \o Tail(frames)
    BY <1>5, <1>10 DEF Parts, first, last
  <2>4. g \in Frames /\ FrameIn(n, a, g) /\ g.first <= nth /\ nth < g.last
    <3>1. d - 1 \in Nat /\ up \in Nat /\ first \in Nat /\ last \in Nat /\ up \in 1 .. n
      BY <1>2, <1>3, <1>4, <1>7
    <3>2. CASE up <= nth
      <4>1. g = [first |-> up, last |-> last, depth |-> d - 1]
        BY <3>2 DEF Frame
      <4> HIDE DEF g
      <4>2. g.first = up /\ g.last = last /\ g \in Frames
        BY <3>1, <4>1 DEF Frames
      <4>3. up \in 1 .. n /\ last \in up + 1 .. n + 1
        BY <1>3, <1>7, <3>1
      <4> QED BY <1>3, <1>7, <2>1, <3>2, <4>2, <4>3 DEF FrameIn
    <3>3. CASE ~(up <= nth)
      <4>1. g = [first |-> first, last |-> up, depth |-> d - 1]
        BY <3>3 DEF Frame
      <4> HIDE DEF g
      <4>2. g.first = first /\ g.last = up /\ g \in Frames
        BY <3>1, <4>1 DEF Frames
      <4>3. up \in first + 1 .. n + 1 /\ nth < up
        BY <1>2, <1>3, <1>7, <2>1, <3>1, <3>3
      <4> QED BY <1>3, <1>7, <2>1, <4>2, <4>3 DEF FrameIn
    <3> QED BY <3>2, <3>3
  <2> HIDE DEF g
  <2>5. FramesIn(n, a, frames') /\ Len(frames') = 1 /\ frames' # <<>> /\ frames'[1] = g
    <3>1. n \in Nat
      BY <1>2
    <3>2. LET gs == <<g>> \o Tail(frames)
          IN  FramesIn(n, a, gs) /\ Len(gs) = 1 /\ gs # <<>> /\ gs[1] = g
      BY <2>2, <2>4, <3>1, OneFrame
    <3> QED BY <2>3, <3>2
  <2>6. FramesIn(n, a', frames') /\ Len(frames') <= 1
    <3>1. FramesIn(n, a', frames')
      BY <2>5, Zenon
    <3>2. \A k : k = 1 => k <= 1
      OBVIOUS
    <3> QED BY <2>5, <3>1, <3>2, Zenon
  <2>7. NthState'
    BY <1>8, <1>10, <2>1, <2>4, <2>5, <2>6 DEF NthState, n
  <2> QED BY <1>8, <2>7 DEF SortInd
<1> QED BY <1>2, <1>9, <1>10

LEMMA StartInsertionStep ==
  ASSUME SortInd, StartInsertion
  PROVE  SortInd'
<1> DEFINE n == Len(a)
<1>1. n \in Nat \ {0} /\ a \in Arrays(n) /\ ArrayOK
  BY DEF SortInd, ArrayOK
<1>2. Sorts /\ phase = "loop" /\ frames' = frames /\ algo' = algo /\ nth' = nth
  BY DEF StartInsertion
<1>3. CASE algo = "sort"
  <2>1. SortState /\ frames = <<>> /\ size' = 2 /\ phase' = "insert" /\ a' = a
    BY <1>3 DEF StartInsertion, SortInd, HeapState, PartialState, NthState
  <2>2. ArrayOK'
    BY <1>1, <2>1 DEF ArrayOK, Tags
  <2>3. Ascending(a, 1, 2 - 1) /\ 2 \in 2 .. n + 1
    BY <1>1 DEF Ascending
  <2>4. FramesIn(n, a, <<>>) /\ LowSplit(a)
    BY <2>1 DEF SortState
  <2>5. SortState'
    BY <1>2, <1>3, <2>1, <2>3, <2>4 DEF SortState
  <2> QED BY <2>2, <2>5 DEF SortInd
<1>4. CASE algo # "sort"
  <2> DEFINE first == frames[1].first
             last == frames[1].last
  <2>1. /\ algo = "nth_element" /\ frames # <<>> /\ phase' = "done"
        /\ a' = InsertionFrom(a, Head(frames).first, Head(frames).last, Head(frames).first + 1)
    BY <1>2, <1>4 DEF StartInsertion, Sorts
  <2>2. NthState
    BY <2>1 DEF SortInd, HeapState, PartialState, SortState
  <2>3. FramesIn(n, a, frames) /\ Head(frames) = frames[1]
    BY <1>2, <2>1, Loops
  <2>4. first \in 1 .. n /\ last \in first + 1 .. n + 1
    BY <1>1, <2>1, <2>3, InHead
  <2>5. a' = InsertionFrom(a, first, last, first + 1)
    BY <2>1, <2>3
  <2> HIDE DEF n, first, last
  <2>6. a' \in Arrays(n) /\ Rearranged(a, a', first, last - 1) /\ Ascending(a', first, last - 1)
    BY <1>1, <2>4, <2>5, InsertionRight
  <2>7. ArrayOK' /\ Len(a') = n /\ FramesIn(n, a', frames)
    BY <1>1, <2>1, <2>3, <2>6, HeadRearranged DEF n, first, last
  <2>8. Split(a', first) /\ Split(a', last)
    BY <1>1, <2>1, <2>7, InHead DEF first, last
  <2>9. nth \in 1 .. n /\ first <= nth /\ nth < last
    BY <2>1, <2>2 DEF NthState, first, last, n
  <2> DEFINE hi == last - 1
  <2>10. /\ hi \in Int /\ first \in Int /\ hi + 1 = last /\ nth \in first .. hi + 1 /\ nth + 1 \in first .. hi + 1
         /\ Ascending(a', first, hi)
    BY <1>1, <2>4, <2>6, <2>9
  <2> HIDE DEF hi
  <2>11. Split(a', nth) /\ Split(a', nth + 1)
    <3>1. Split(a', hi + 1)
      BY <2>8, <2>10
    <3>2. Split(a', nth)
      BY <1>1, <2>6, <2>8, <2>10, <3>1, AscendingSplit
    <3> DEFINE k == nth + 1
    <3>3. k \in first .. hi + 1
      BY <2>10
    <3> HIDE DEF k
    <3>4. Split(a', k)
      BY <1>1, <2>6, <2>8, <2>10, <3>1, <3>3, AscendingSplit
    <3> QED BY <3>2, <3>4 DEF k
  <2>12. NthState'
    BY <1>2, <2>1, <2>2, <2>7, <2>9, <2>11 DEF NthState, n, Split
  <2> QED BY <2>7, <2>12 DEF SortInd
<1> QED BY <1>3, <1>4

\* A place for what is inserted without a guard
LEMMA PlaceFound ==
  ASSUME SortInd, phase = "insert", size <= Len(a), ~Guarded(size)
  PROVE  PlaceFor(a, size) # 0
<1> DEFINE n == Len(a)
<1>1. n \in Nat \ {0} /\ a \in Arrays(n)
  BY DEF SortInd, ArrayOK
<1>2. LowSplit(a) /\ size \in 2 .. n + 1
  BY DEF SortInd, HeapState, PartialState, SortState, NthState, Scanning
<1>3. size \in 2 .. n /\ size > Threshold
  BY <1>1, <1>2, ThresholdOK DEF Guarded
<1>4. PICK b \in 2 .. Threshold + 1 : Split(a, b)
  BY <1>2 DEF LowSplit
<1>5. b \in 2 .. size /\ n \in Nat
  BY <1>1, <1>3, <1>4, ThresholdOK
<1> HIDE DEF n
<1>6. PlaceFor(a, size) \in b .. size
  BY <1>1, <1>3, <1>4, <1>5, LowStops
<1> QED BY <1>5, <1>6

LEMMA InsertNextStep ==
  ASSUME SortInd, InsertNext
  PROVE  SortInd'
<1> DEFINE n == Len(a)
<1>1. n \in Nat \ {0} /\ a \in Arrays(n) /\ ArrayOK
  BY DEF SortInd, ArrayOK
<1>2. phase = "insert" /\ frames' = frames /\ algo' = algo
  BY DEF InsertNext
<1>3. /\ algo = "sort" /\ frames = <<>> /\ LowSplit(a) /\ FramesIn(n, a, <<>>)
      /\ size \in 2 .. n + 1 /\ Ascending(a, 1, size - 1)
  BY <1>2 DEF SortInd, HeapState, PartialState, SortState, NthState, Scanning
<1>4. CASE size > n
  <2>1. phase' = "done" /\ a' = a /\ size - 1 = n
    BY <1>1, <1>3, <1>4 DEF InsertNext
  <2>2. ArrayOK'
    BY <1>1, <2>1 DEF ArrayOK, Tags
  <2>3. SortState'
    BY <1>2, <1>3, <2>1 DEF SortState
  <2> QED BY <2>2, <2>3 DEF SortInd
<1>5. CASE ~(size > n)
  <2>1. size \in 2 .. n /\ size <= n
    BY <1>1, <1>3, <1>5
  <2>2. /\ a' = (IF Guarded(size) THEN Inserted(a, 1, size)
                 ELSE IF PlaceFor(a, size) = 0 THEN a ELSE Moved(a, size, PlaceFor(a, size)))
        /\ size' = size + 1 /\ phase' = phase
    BY <1>5 DEF InsertNext
  <2>3. \/ a' = Inserted(a, 1, size)
        \/ a' = Moved(a, size, PlaceFor(a, size)) /\ PlaceFor(a, size) # 0
    BY <1>2, <2>1, <2>2, PlaceFound
  <2> HIDE DEF n
  <2>4. InsertedIn(n, a, a', 1, size) /\ LowSplit(a')
    BY <1>1, <1>3, <2>1, <2>3, LowKept
  <2>5. a' \in Arrays(n) /\ Rearranged(a, a', 1, size) /\ Ascending(a', 1, size)
    BY <1>3, <2>4 DEF InsertedIn
  <2>6. ArrayOK' /\ Len(a') = n
    <3>1. 1 .. size \subseteq 1 .. Len(a) /\ size \in Int /\ a' \in Arrays(Len(a))
      BY <1>1, <2>1, <2>5 DEF n
    <3> QED BY <1>1, <2>5, <3>1, Rebuilt DEF n
  <2>7. size + 1 \in 2 .. n + 1 /\ (size + 1) - 1 = size
    BY <1>1, <2>1
  <2>8. FramesIn(n, a', <<>>)
    <3>1. <<>> \in Seq(Frames) /\ 1 .. Len(<<>>) = {}
      OBVIOUS
    <3> QED BY <3>1 DEF FramesIn
  <2>9. Ascending(a', 1, (size + 1) - 1)
    BY <2>5, <2>7
  <2>10. SortState'
    BY <1>2, <1>3, <2>2, <2>4, <2>6, <2>7, <2>8, <2>9 DEF SortState, LowSplit, Split, Ascending
  <2> QED BY <2>6, <2>10 DEF SortInd
<1> QED BY <1>4, <1>5

LEMMA LoopRoundStep ==
  ASSUME SortInd, LoopRound
  PROVE  SortInd'
<1>1. /\ Sorts /\ phase = "loop" /\ frames # <<>>
      /\ \/ UseHeap(Head(frames)) \/ Pivot(Head(frames))
         \/ /\ Small(Head(frames)) /\ algo = "sort"
            /\ frames' = Tail(frames) /\ UNCHANGED <<algo, a, nth, scan, phase, size>>
  BY DEF LoopRound
<1>2. CASE UseHeap(Head(frames))
  BY <1>1, <1>2, UseHeapStep
<1>3. CASE Pivot(Head(frames))
  BY <1>1, <1>3, PivotStep
<1>4. CASE /\ Small(Head(frames)) /\ algo = "sort"
           /\ frames' = Tail(frames) /\ UNCHANGED <<algo, a, nth, scan, phase, size>>
  BY <1>1, <1>4, SmallStep
<1> QED BY <1>1, <1>2, <1>3, <1>4

LEMMA ScanRoundStep ==
  ASSUME SortInd, ScanRound
  PROVE  SortInd'
<1>1. phase = "scan" /\ algo' = algo /\ nth' = nth
  BY DEF ScanRound
<1>2. CASE StopUp < StopDown
  <2>1. /\ a' = Exchange2(a, StopUp, StopDown) /\ scan' = [lo |-> StopUp + 1, hi |-> StopDown]
        /\ frames' = frames /\ phase' = phase
    BY <1>2 DEF ScanRound
  <2> QED BY <1>1, <1>2, <2>1, SwapStep
<1>3. CASE ~(StopUp < StopDown)
  <2>1. /\ frames' = Parts(Head(frames), Cut(StopUp, StopDown)) \o Tail(frames)
        /\ phase' = "loop" /\ a' = a
    BY <1>3 DEF ScanRound
  <2> QED BY <1>1, <1>3, <2>1, CutStep
<1> QED BY <1>2, <1>3

LEMMA SortStays ==
  ASSUME SortInd, UNCHANGED sortVars
  PROVE  SortInd'
<1>1. /\ algo' = algo /\ a' = a /\ nth' = nth /\ frames' = frames /\ scan' = scan
      /\ phase' = phase /\ size' = size
  BY DEF sortVars
<1>2. ArrayOK'
  BY <1>1 DEF SortInd, ArrayOK, Tags
<1>3. /\ HeapState => HeapState'
      /\ PartialState => PartialState'
  BY <1>1 DEF HeapState, PartialState, HeapFrom, Ascending, Split
<1>4. Scanning => Scanning'
  BY <1>1 DEF Scanning, Small, Partitioning
<1>5. FramesIn(Len(a), a, frames) => FramesIn(Len(a), a, frames)'
  BY <1>1 DEF FramesIn, FrameIn, Split
<1>6. SortState => SortState'
  BY <1>1, <1>4, <1>5 DEF SortState, Bottom, LowSplit, Split, Ascending
<1>7. NthState => NthState'
  BY <1>1, <1>4, <1>5 DEF NthState, Split
<1> QED BY <1>2, <1>3, <1>6, <1>7 DEF SortInd

\* is kept by every step,
LEMMA SortStep ==
  ASSUME SortInd, [SortNext]_sortVars
  PROVE  SortInd'
BY PushStep, Pop1Step, MakeAllStep, SelectAllStep, LoopRoundStep, ScanRoundStep, StartInsertionStep,
   InsertNextStep, SortStays DEF SortNext

LEMMA SplitsIn ==
  ASSUME SortInd, Sorts
  PROVE  FramesIn(Len(a), a, frames)
BY DEF SortInd, HeapState, PartialState, SortState, NthState, Sorts

\* and says all that SortInv does.
LEMMA SortIndRight ==
  ASSUME SortInd
  PROVE  SortInv
<1> DEFINE n == Len(a)
<1>1. n \in Nat \ {0} /\ a \in Arrays(n) /\ Tags(a) = 1 .. n
  BY DEF SortInd, ArrayOK
<1>2. n \in Nat /\ DOMAIN a = 1 .. n
  BY <1>1, ArrayLen
<1>3. Permuted
  BY <1>1, <1>2 DEF Permuted, Tags
<1>4. RangesOrdered
  <2> SUFFICES ASSUME Sorts, NEW x \in DOMAIN frames, NEW i \in DOMAIN a, NEW j \in DOMAIN a, i < j,
                      \/ (i < frames[x].first) # (j < frames[x].first)
                      \/ (i < frames[x].last) # (j < frames[x].last)
               PROVE  ~Less(a[j], a[i])
    BY DEF RangesOrdered
  <2>1. FramesIn(n, a, frames)
    BY SplitsIn
  <2>2. x \in 1 .. Len(frames)
    <3>1. frames \in Seq(Frames)
      BY <2>1 DEF FramesIn
    <3> QED BY <3>1
  <2>3. FrameIn(n, a, frames[x])
    BY <2>1, <2>2 DEF FramesIn
  <2>4. /\ frames[x].first \in Int /\ frames[x].last \in Int
        /\ Split(a, frames[x].first) /\ Split(a, frames[x].last) /\ i \in Int /\ j \in Int
    BY <1>2, <2>3 DEF FrameIn
  <2>5. \/ i < frames[x].first /\ frames[x].first <= j
        \/ i < frames[x].last /\ frames[x].last <= j
    BY <2>4
  <2> QED BY <2>4, <2>5 DEF Split
<1>5. ScansStopInside
  <2> SUFFICES ASSUME phase = "scan"
               PROVE  LET f == Head(frames)
                      IN  /\ f.first < StopUp /\ StopUp < f.last
                          /\ f.first <= StopDown
                          /\ StopUp >= StopDown => f.first < Cut(StopUp, StopDown)
    BY DEF ScansStopInside
  <2> DEFINE first == frames[1].first
             last == frames[1].last
             up == StopUp
             down == StopDown
  <2>1. /\ Sorts /\ frames # <<>> /\ Head(frames) = frames[1]
        /\ Partitioning(a, first, last, scan.lo, scan.hi)
        /\ Stopped(a, first, last, scan.lo, scan.hi, up, down)
    BY ScanStops
  <2>2. first \in 1 .. n /\ last \in first + 1 .. n + 1
    <3>1. FramesIn(n, a, frames)
      BY <2>1, SplitsIn
    <3> QED BY <1>2, <2>1, <3>1, InHead
  <2> HIDE DEF first, last, up, down
  <2>3. /\ scan.lo \in first + 1 .. scan.hi /\ scan.hi \in scan.lo .. last
        /\ up \in scan.lo .. last - 1 /\ down \in first .. scan.hi - 1
    BY <2>1 DEF Partitioning, Stopped
  <2>4. first < up /\ up < last /\ first <= down
    BY <1>2, <2>2, <2>3
  <2>5. Cut(StopUp, StopDown) = up
    BY DEF Cut, up
  <2> QED BY <2>1, <2>4, <2>5 DEF first, last, up, down
<1>6. InsertionStops
  BY PlaceFound DEF InsertionStops
<1>7. ResultInOrder
  <2> SUFFICES ASSUME phase = "done", NEW i \in 1 .. n, NEW j \in 1 .. n, i < j, Less(a[j], a[i])
               PROVE  CASE algo = "sort" -> FALSE
                        [] algo = "nth_element" -> (i < nth /\ j < nth) \/ (i > nth /\ j > nth)
                        [] algo = "partial_sort" -> i >= nth
    BY <1>2 DEF ResultInOrder
  <2>1. CASE algo = "sort"
    <3>1. Ascending(a, 1, n)
      BY <2>1 DEF SortInd, HeapState, PartialState, SortState, NthState, Scanning
    <3> QED BY <3>1 DEF Ascending
  <2>2. CASE algo = "nth_element"
    <3>1. Split(a, nth) /\ Split(a, nth + 1) /\ nth \in 1 .. n
      BY <2>2 DEF SortInd, HeapState, PartialState, SortState, NthState, Scanning
    <3>2. ~(i < nth /\ nth <= j)
      BY <1>2, <3>1 DEF Split
    <3>3. ~(i < nth + 1 /\ nth + 1 <= j)
      BY <1>2, <3>1 DEF Split
    <3>4. (i < nth /\ j < nth) \/ (i > nth /\ j > nth)
      BY <1>2, <3>1, <3>2, <3>3
    <3> QED BY <2>2, <3>4
  <2>3. CASE algo = "partial_sort"
    <3>1. Split(a, nth) /\ Ascending(a, 1, nth - 1) /\ nth \in 1 .. n + 1
      BY <2>3 DEF SortInd, HeapState, PartialState, SortState, NthState, Scanning
    <3>2. ~(i < nth /\ nth <= j)
      BY <1>2, <3>1 DEF Split
    <3>3. ~(i \in 1 .. nth - 1 /\ j \in 1 .. nth - 1)
      BY <3>1 DEF Ascending
    <3>4. i >= nth
      BY <1>2, <3>1, <3>2, <3>3
    <3> QED BY <2>3, <3>4
  <2>4. algo # "heap"
    BY DEF SortInd, HeapState, PartialState, SortState, NthState
  <2>5. algo \in {"heap", "sort", "nth_element", "partial_sort"}
    BY DEF SortInd, HeapState, PartialState, SortState, NthState
  <2> QED BY <2>1, <2>2, <2>3, <2>4, <2>5
<1>8. HeapKept
  <2> SUFFICES ASSUME algo = "heap"
               PROVE  /\ \A c \in 1 .. size - 1 : ~Less(a[1 + (c - 1) \div 2], a[1 + c])
                      /\ HeapUntil(a, size) = size
    BY DEF HeapKept
  <2>1. size \in 0 .. n /\ HeapFrom(a, 1, size, 0)
    BY DEF SortInd, HeapState, PartialState, SortState, NthState
  <2>2. HeapUntil(a, size) = size
    <3> HIDE DEF n
    <3> QED BY <1>1, <1>2, <2>1, HeapUntilRight
  <2>3. ASSUME NEW c \in 1 .. size - 1
        PROVE  ~Less(a[1 + (c - 1) \div 2], a[1 + c])
    <3>1. c \in Nat \ {0}
      BY <2>1
    <3>2. Parent(c) \in Nat
      BY <3>1, ParentOf
    <3>3. ~Less(a[1 + Parent(c)], a[1 + c])
      BY <2>1, <3>2 DEF HeapFrom
    <3> QED BY <3>3 DEF Parent
  <2> QED BY <2>2, <2>3
<1> QED BY <1>3, <1>4, <1>5, <1>6, <1>7, <1>8 DEF SortInv

\* SortInv, of sort(), nth_element(), partial_sort() and the operations on heaps, for
\* any keys, lengths and depth limits, and any threshold of 3 or more: elements are
\* moved and never lost, the ends of every frame split the array, the scans of
\* __unguarded_partition() and __unguarded_linear_insert() stop inside the range that
\* no bound guards, what a call returns is in order, and a heap stays one.
THEOREM SortRight == SortSpec => []SortInv
<1>1. SortInit => SortInd
  BY SortStart
<1>2. SortInd /\ [SortNext]_sortVars => SortInd'
  BY SortStep
<1>3. SortInd => SortInv
  BY SortIndRight
<1> QED BY <1>1, <1>2, <1>3, PTL DEF SortSpec
=============================================================================
