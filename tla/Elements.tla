------------------------------ MODULE Elements ------------------------------
(***************************************************************************)
(* The elements of the sequences that the algorithms of bits/stl_algo.h    *)
(* rearrange, and the moves that several of them share.  Elements are      *)
(* compared by their keys; a tag tells where one was at the beginning.     *)
(***************************************************************************)
EXTENDS Integers, Sequences

CONSTANT SortKeys

\* Keys are compared as numbers.
ASSUME KeysAreNumbers == SortKeys \subseteq Int

Inputs(n) == {[i \in 1 .. n |-> [key |-> k[i], tag |-> i]] : k \in [1 .. n -> SortKeys]}

Less(x, y) == x.key < y.key

Exchange2(s, i, j) == [s EXCEPT ![i] = s[j], ![j] = s[i]]

\* Where __unguarded_linear_insert() puts element i.
PlaceFor(s, i) ==
  LET stops == {j \in 1 .. i - 1 : ~Less(s[i], s[j])}
  IN  IF stops = {} THEN 0 ELSE (CHOOSE j \in stops : \A k \in stops : k <= j) + 1

\* Element i moves to j, before it.
Moved(s, i, j) == SubSeq(s, 1, j - 1) \o <<s[i]>> \o SubSeq(s, j, i - 1) \o SubSeq(s, i + 1, Len(s))

\* A step of __insertion_sort() of a range, which looks at the first one.
Inserted(s, first, i) == Moved(s, i, IF Less(s[i], s[first]) THEN first ELSE PlaceFor(s, i))

\* Elements i to last - 1, one after the other
InsertionFrom(s, first, last, i) ==
  LET Sorted[k \in 0 .. last] == IF k <= i THEN s ELSE Inserted(Sorted[k - 1], first, k - 1)
  IN  Sorted[last]

\* The loop of __lower_bound(), and of __upper_bound() if upper.
BoundLoop(s, first, len, x, upper) ==
  LET Below(y) == IF upper THEN ~Less(x, y) ELSE Less(y, x)
      Bound[f \in Nat, n \in Nat] ==
        IF n = 0 THEN f
        ELSE IF Below(s[f + n \div 2]) THEN Bound[f + n \div 2 + 1, n - n \div 2 - 1]
        ELSE Bound[f, n \div 2]
  IN  Bound[first, len]

\* The loops of set_union() and the other three, and what they copy at the end:
\* the rest of the ranges from i and j.
Combined(name, p, q) ==
  LET Kept(x, names) == IF name \in names THEN <<x>> ELSE <<>>
      OfP(x) == Kept(x, {"set_union", "set_difference", "set_symmetric_difference"})
      OfQ(y) == Kept(y, {"set_union", "set_symmetric_difference"})
      OfBoth(x) == Kept(x, {"set_union", "set_intersection"})
      From[i \in Nat, j \in Nat] ==
        IF i > Len(p) /\ j > Len(q) THEN <<>>
        ELSE IF j > Len(q) THEN OfP(p[i]) \o From[i + 1, j]
        ELSE IF i > Len(p) THEN OfQ(q[j]) \o From[i, j + 1]
        ELSE IF Less(p[i], q[j]) THEN OfP(p[i]) \o From[i + 1, j]
        ELSE IF Less(q[j], p[i]) THEN OfQ(q[j]) \o From[i, j + 1]
        ELSE OfBoth(p[i]) \o From[i + 1, j + 1]
  IN  From[1, 1]

=============================================================================
