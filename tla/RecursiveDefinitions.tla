------------------------ MODULE RecursiveDefinitions ------------------------
(***************************************************************************)
(* What the proofs about recursive functions rest on.  A set of naturals   *)
(* has a least element, and what a measure lets reach every element is     *)
(* all there is.  A recursive definition that looks only at what a         *)
(* measure puts below its argument is satisfied by a function, so that     *)
(* CHOOSE, which is what it stands for, finds one.                         *)
(***************************************************************************)
EXTENDS Integers, FiniteSetTheorems, WellFoundedInduction, TLAPS

\* A set of naturals has a least element,
LEMMA Least ==
  ASSUME NEW S \in SUBSET Nat, S # {}
  PROVE  \E n \in S : \A m \in S : n <= m
<1> DEFINE R == OpToRel(<, Nat)
<1>1. IsWellFoundedOn(R, Nat)
  BY NatLessThanWellFounded
<1>2. \A x, y \in Nat : <<x, y>> \in R <=> x < y
  BY DEF OpToRel
<1> HIDE DEF R
<1>3. PICK n \in S : \A m \in S : ~(<<m, n>> \in R)
  BY <1>1, WFMin
<1>4. n \in Nat /\ \A m \in S : m \in Nat /\ ~(m < n)
  BY <1>2, <1>3
<1>5. \A m \in S : n <= m
  BY <1>4
<1> QED BY <1>5

\* and if it is bounded a greatest one.
LEMMA Greatest ==
  ASSUME NEW k \in Nat, NEW S \in SUBSET (0 .. k), S # {}
  PROVE  \E n \in S : \A m \in S : m <= n
<1> DEFINE T == {k - m : m \in S}
<1>1. T \in SUBSET Nat /\ T # {}
  <2>1. \A m \in S : k - m \in Nat
    OBVIOUS
  <2> QED BY <2>1
<1>2. PICK x \in T : \A y \in T : x <= y
  BY <1>1, Least
<1>3. PICK n \in S : x = k - n
  BY <1>2
<1>4. ASSUME NEW m \in S
      PROVE  m <= n
  <2>1. m \in Nat /\ n \in Nat
    OBVIOUS
  <2>2. k - m \in T
    OBVIOUS
  <2>3. k - n <= k - m
    BY <1>2, <1>3, <2>2
  <2> QED BY <2>1, <2>3
<1> QED BY <1>4

-----------------------------------------------------------------------------
(* Recursion                                                               *)

\* A set that a measure lets reach every element is all there is.
LEMMA ByMeasure ==
  ASSUME NEW D, NEW m \in [D -> Nat], NEW Q \in SUBSET D,
         \A x \in D : (\A y \in D : m[y] < m[x] => y \in Q) => x \in Q
  PROVE  Q = D
<1> SUFFICES ASSUME Q # D
             PROVE  FALSE
  OBVIOUS
<1> DEFINE T == {m[x] : x \in D \ Q}
<1>1. T \in SUBSET Nat /\ T # {}
  OBVIOUS
<1>2. PICK n \in T : \A k \in T : n <= k
  BY <1>1, Least
<1>3. PICK x \in D \ Q : n = m[x]
  BY <1>2
<1>4. ASSUME NEW y \in D, m[y] < m[x]
      PROVE  y \in Q
  <2>1. y \notin Q => m[y] \in T
    OBVIOUS
  <2>2. m[y] \in Nat /\ m[x] \in Nat
    OBVIOUS
  <2> QED BY <1>2, <1>3, <1>4, <2>1, <2>2
<1> QED BY <1>3, <1>4

\* The functions that satisfy a recursive definition below n
SatisfiedTo(D, S, m, step, n) ==
  {g \in [D -> S] : \A x \in D : m[x] < n => g[x] = step[<<x, g>>]}

\* What a recursive definition says of x depends on what is below x.
LooksBelow(D, S, m, step) ==
  \A x \in D : \A g, h \in [D -> S] :
     (\A y \in D : m[y] < m[x] => g[y] = h[y]) => step[<<x, g>>] = step[<<x, h>>]

LEMMA SatisfiedAlike ==
  ASSUME NEW D, NEW S, NEW m \in [D -> Nat], NEW step, LooksBelow(D, S, m, step),
         NEW n \in Nat, NEW k \in Nat,
         NEW g \in SatisfiedTo(D, S, m, step, n), NEW h \in SatisfiedTo(D, S, m, step, k),
         n <= k
  PROVE  \A x \in D : m[x] < n => g[x] = h[x]
<1> DEFINE Q == {x \in D : m[x] < n => g[x] = h[x]}
<1>1. ASSUME NEW x \in D, \A y \in D : m[y] < m[x] => y \in Q
      PROVE  x \in Q
  <2> SUFFICES ASSUME m[x] < n
               PROVE  g[x] = h[x]
    OBVIOUS
  <2>1. m[x] \in Nat /\ m[x] < k
    OBVIOUS
  <2>2. g[x] = step[<<x, g>>] /\ h[x] = step[<<x, h>>] /\ g \in [D -> S] /\ h \in [D -> S]
    BY <2>1 DEF SatisfiedTo
  <2>3. \A y \in D : m[y] < m[x] => g[y] = h[y]
    <3> SUFFICES ASSUME NEW y \in D, m[y] < m[x]
                 PROVE  g[y] = h[y]
      OBVIOUS
    <3>1. m[y] \in Nat /\ y \in Q
      BY <1>1
    <3> QED BY <2>1, <3>1
  <2> QED BY <2>2, <2>3 DEF LooksBelow
<1>2. Q \in SUBSET D
  OBVIOUS
<1> HIDE DEF Q
<1>3. Q = D
  BY <1>1, <1>2, ByMeasure
<1> QED BY <1>3 DEF Q

\* A recursive definition that looks only at what a measure puts below is
\* satisfied by a function.
LEMMA Recursion ==
  ASSUME NEW D, NEW S, S # {}, NEW m \in [D -> Nat], NEW step \in [D \X [D -> S] -> S],
         LooksBelow(D, S, m, step)
  PROVE  \E F \in [D -> S] : \A x \in D : F[x] = step[<<x, F>>]
<1> DEFINE Sat(n) == SatisfiedTo(D, S, m, step, n)
           P == {n \in Nat : Sat(n) # {}}
<1>1. 0 \in P
  <2>1. PICK s : s \in S
    OBVIOUS
  <2>2. [x \in D |-> s] \in [D -> S]
    BY <2>1
  <2>3. \A x \in D : ~(m[x] < 0)
    <3>1. \A x \in D : m[x] \in Nat
      OBVIOUS
    <3> QED BY <3>1
  <2>4. [x \in D |-> s] \in Sat(0)
    BY <2>2, <2>3 DEF SatisfiedTo
  <2> QED BY <2>4
<1>2. ASSUME NEW n \in P
      PROVE  n + 1 \in P
  <2>1. PICK g : g \in Sat(n)
    OBVIOUS
  <2>2. g \in [D -> S] /\ \A x \in D : m[x] < n => g[x] = step[<<x, g>>]
    BY <2>1 DEF SatisfiedTo
  <2>3. \A x \in D : step[<<x, g>>] \in S
    BY <2>2
  <2> DEFINE h == [x \in D |-> IF m[x] < n THEN g[x] ELSE step[<<x, g>>]]
  <2>4. h \in [D -> S]
    BY <2>2, <2>3
  <2>5. ASSUME NEW x \in D, m[x] < n + 1
        PROVE  h[x] = step[<<x, h>>]
    <3>1. h[x] = step[<<x, g>>]
      BY <2>2
    <3>2. \A y \in D : m[y] < m[x] => h[y] = g[y]
      <4>1. \A y \in D : m[y] \in Nat
        OBVIOUS
      <4> QED BY <2>5, <4>1
    <3> HIDE DEF h
    <3> QED BY <2>2, <2>4, <3>1, <3>2 DEF LooksBelow
  <2> HIDE DEF h
  <2>6. h \in Sat(n + 1)
    BY <2>4, <2>5 DEF SatisfiedTo
  <2> QED BY <2>6
<1>3. P = Nat
  <2> DEFINE id == [n \in Nat |-> n]
  <2>1. id \in [Nat -> Nat] /\ P \in SUBSET Nat
    OBVIOUS
  <2>2. ASSUME NEW n \in Nat, \A y \in Nat : id[y] < id[n] => y \in P
        PROVE  n \in P
    <3>1. CASE n = 0
      BY <1>1, <3>1
    <3>2. CASE n # 0
      <4>1. n - 1 \in Nat /\ id[n - 1] < id[n]
        BY <3>2
      <4>2. (n - 1) + 1 \in P
        BY <1>2, <2>2, <4>1
      <4> QED BY <4>2
    <3> QED BY <3>1, <3>2
  <2> HIDE DEF id, P
  <2> QED BY <2>1, <2>2, ByMeasure
<1> DEFINE G(x) == CHOOSE g : g \in Sat(m[x] + 1)
           F == [x \in D |-> G(x)[x]]
<1>4. ASSUME NEW x \in D
      PROVE  /\ m[x] \in Nat /\ m[x] + 1 \in Nat
             /\ G(x) \in Sat(m[x] + 1)
             /\ G(x) \in [D -> S]
             /\ G(x)[x] = step[<<x, G(x)>>]
  <2>1. m[x] \in Nat /\ m[x] + 1 \in Nat
    OBVIOUS
  <2>2. Sat(m[x] + 1) # {}
    <3>1. m[x] + 1 \in P
      BY <1>3, <2>1
    <3> QED BY <3>1
  <2>3. G(x) \in Sat(m[x] + 1)
    BY <2>2
  <2> HIDE DEF G, P
  <2>4. G(x) \in [D -> S] /\ \A y \in D : m[y] < m[x] + 1 => G(x)[y] = step[<<y, G(x)>>]
    BY <2>3 DEF SatisfiedTo
  <2>5. m[x] < m[x] + 1
    BY <2>1
  <2> QED BY <2>1, <2>3, <2>4, <2>5
<1>5. F \in [D -> S]
  BY <1>4
<1>6. ASSUME NEW x \in D
      PROVE  F[x] = step[<<x, F>>]
  <2>1. ASSUME NEW y \in D, m[y] < m[x]
        PROVE  F[y] = G(x)[y]
    <3>1. m[y] + 1 <= m[x] + 1 /\ m[y] < m[y] + 1
      BY <1>4, <2>1
    <3>2. G(y)[y] = G(x)[y]
      <4> HIDE DEF G, P, F
      <4>1. G(y) \in SatisfiedTo(D, S, m, step, m[y] + 1) /\ G(x) \in SatisfiedTo(D, S, m, step, m[x] + 1)
        BY <1>4
      <4>2. m[y] + 1 \in Nat /\ m[x] + 1 \in Nat
        BY <1>4
      <4> QED BY <3>1, <4>1, <4>2, SatisfiedAlike
    <3> QED BY <3>2
  <2>2. F[x] = step[<<x, G(x)>>]
    BY <1>4
  <2> HIDE DEF F, G
  <2> QED BY <1>4, <1>5, <2>1, <2>2 DEF LooksBelow
<1> HIDE DEF F
<1> QED BY <1>5, <1>6

\* A definition that stops at an argument, or goes on with a smaller one
GoesDown(D, S, m, stop, next, base, comb) ==
  /\ S # {} /\ m \in [D -> Nat] /\ stop \in [D -> BOOLEAN]
  /\ next \in [D -> D] /\ base \in [D -> S] /\ comb \in [D \X S -> S]
  /\ \A x \in D : ~stop[x] => m[next[x]] < m[x]

Follows(F, D, S, stop, next, base, comb) ==
  F \in [D -> S] /\ \A x \in D : F[x] = IF stop[x] THEN base[x] ELSE comb[<<x, F[next[x]]>>]

\* One that follows a single smaller argument, if any, is.
LEMMA Chained ==
  ASSUME NEW D, NEW S, NEW m, NEW stop, NEW next, NEW base, NEW comb,
         GoesDown(D, S, m, stop, next, base, comb)
  PROVE  \E F : Follows(F, D, S, stop, next, base, comb)
<1> USE DEF GoesDown
<1> DEFINE Body(x, F) == IF stop[x] THEN base[x] ELSE comb[<<x, F[next[x]]>>]
           step == [q \in D \X [D -> S] |-> Body(q[1], q[2])]
<1>1. ASSUME NEW x \in D, NEW F \in [D -> S]
      PROVE  Body(x, F) \in S
  <2>1. F[next[x]] \in S /\ base[x] \in S /\ <<x, F[next[x]]>> \in D \X S
    OBVIOUS
  <2> QED BY <2>1
<1> HIDE DEF Body
<1>2. step \in [D \X [D -> S] -> S]
  BY <1>1
<1>3. ASSUME NEW x \in D, NEW F \in [D -> S]
      PROVE  step[<<x, F>>] = Body(x, F)
  <2>1. <<x, F>> \in D \X [D -> S]
    OBVIOUS
  <2> QED BY <2>1
<1> HIDE DEF step
<1>4. LooksBelow(D, S, m, step)
  <2> SUFFICES ASSUME NEW x \in D, NEW g \in [D -> S], NEW h \in [D -> S],
                      \A y \in D : m[y] < m[x] => g[y] = h[y]
               PROVE  step[<<x, g>>] = step[<<x, h>>]
    BY DEF LooksBelow
  <2>1. Body(x, g) = Body(x, h)
    <3>1. ~stop[x] => g[next[x]] = h[next[x]]
      OBVIOUS
    <3> QED BY <3>1 DEF Body
  <2> QED BY <1>3, <2>1
<1>5. PICK F \in [D -> S] : \A x \in D : F[x] = step[<<x, F>>]
  <2>1. \A V : V # {} =>
          \A mm \in [D -> Nat] : \A st \in [D \X [D -> V] -> V] : LooksBelow(D, V, mm, st) =>
            \E F \in [D -> V] : \A x \in D : F[x] = st[<<x, F>>]
    BY Recursion
  <2>2. \A st \in [D \X [D -> S] -> S] : LooksBelow(D, S, m, st) =>
          \E F \in [D -> S] : \A x \in D : F[x] = st[<<x, F>>]
    BY <2>1
  <2> QED BY <1>2, <1>4, <2>2
<1>6. \A x \in D : F[x] = IF stop[x] THEN base[x] ELSE comb[<<x, F[next[x]]>>]
  BY <1>3, <1>5 DEF Body
<1>7. Follows(F, D, S, stop, next, base, comb)
  BY <1>5, <1>6 DEF Follows
<1> QED BY <1>7
=============================================================================
