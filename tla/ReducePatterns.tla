--------------------------- MODULE ReducePatterns ---------------------------
(***************************************************************************)
(* What pstl/algorithm_impl.h and pstl/numeric_impl.h build on             *)
(* parallel_reduce of TBB: a body goes over a range from left to right, or *)
(* leaves a right half to another body, which begins with the identity and *)
(* is joined to it.  Which of the two happens at a half is chosen freely.  *)
(* Places count from 0.                                                    *)
(***************************************************************************)
EXTENDS Integers, Sequences, FiniteSets, SequencesExt, Elements

CONSTANTS ReduceLen, NthLen, RotateLen  \* lengths of the ranges, at most

ASSUME ReduceOK == {ReduceLen, NthLen, RotateLen} \subseteq Nat

VARIABLES reduction, \* the function, its range, and a place in it
          reduced    \* what it makes of them

reduceVars == <<reduction, reduced>>

Partitions == {"partition", "stable_partition"}
Reductions == Partitions \cup {"is_partitioned", "adjacent_find", "min_element",
                               "minmax_element", "transform_reduce"}
Rotations == {"rotate", "rotate_vector"}

KeyAt(s, i) == s[i + 1].key
Foremost0(S, none) == IF S = {} THEN none ELSE CHOOSE k \in S : \A l \in S : k <= l
Hindmost0(S, none) == IF S = {} THEN none ELSE CHOOSE k \in S : \A l \in S : k >= l
Satisfies(x, below) == x.key < below

-----------------------------------------------------------------------------
(* The reductors.  A partitioned range carries its elements with it.       *)

PartRange(begin, pivot, end, s) == [begin |-> begin, pivot |-> pivot, end |-> end, s |-> s]
Whole(v) == v.end - v.begin
TrueOf(v) == SubSeq(v.s, 1, v.pivot - v.begin)
FalseOf(v) == SubSeq(v.s, v.pivot - v.begin + 1, Whole(v))

\* Wrong: of a longer true part its beginning is swapped, not its end.
SwapsBeginning(v1, v2) ==
  LET f == FalseOf(v1)  t == TrueOf(v2)
      n == IF Len(t) > Len(f) THEN Len(f) ELSE Len(t)
  IN  TrueOf(v1) \o SubSeq(t, 1, n) \o SubSeq(f, n + 1, Len(f)) \o SubSeq(f, 1, n)
      \o SubSeq(t, n + 1, Len(t)) \o FalseOf(v2)

\* The false part of the left range is swapped with the end of the true part
\* of the right one, or the beginning of the former with all of the latter.
SwapParts(v1, v2) ==
  LET f == FalseOf(v1)  t == TrueOf(v2)  d == Len(t) - Len(f)
  IN  TrueOf(v1) \o (IF d > 0 THEN SubSeq(t, d + 1, Len(t)) \o SubSeq(t, 1, d) \o f
                     ELSE t \o SubSeq(f, Len(t) + 1, Len(f)) \o SubSeq(f, 1, Len(t)))
      \o FalseOf(v2)

JoinPartition(stable, v1, v2) ==
  LET size1 == v1.end - v1.pivot
      size2 == v2.pivot - v2.begin
      begin == v2.begin - Whole(v1)
  IN  IF size1 = 0 THEN PartRange(begin, v2.pivot, v2.end, v1.s \o v2.s)
      ELSE IF stable
      THEN PartRange(begin, v2.pivot - size1, v2.end,
                     TrueOf(v1) \o TrueOf(v2) \o FalseOf(v1) \o FalseOf(v2))
      ELSE PartRange(begin, IF size2 > size1 THEN v2.pivot - size1 ELSE v1.pivot + size2, v2.end,
                     SwapParts(v1, v2))

\* __table of __pattern_is_partitioned()
Table(a, b) == CASE a = "all_true" /\ b \in {"all_true", "all_false", "true_false"} ->
                      IF b = "all_true" THEN b ELSE "true_false"
                 [] a = "all_false" /\ b = "all_false" -> b
                 [] a = "true_false" /\ b = "all_false" -> a
                 [] OTHER -> "broken"
JoinStates(a, b) == IF "broken" \in {a, b} THEN "broken" ELSE Table(a, b)

\* __cmp_iterators_by_values(): wins says whose element comes before the other's.
CloserIfEqual(s, a, b, wins) == IF a < b THEN IF wins[b] THEN b ELSE a
                                ELSE IF wins[a] THEN a ELSE b

LesserPlace(s, a, b) ==
  CloserIfEqual(s, a, b, [x \in {a, b} |-> \E y \in {a, b} : KeyAt(s, x) < KeyAt(s, y)])
\* With not_fn(comp): of equal elements the one that is further.
GreaterPlace(s, a, b) ==
  CloserIfEqual(s, a, b, [x \in {a, b} |-> ~\E y \in {a, b} : KeyAt(s, x) < KeyAt(s, y)])

-----------------------------------------------------------------------------
(* The bodies: what [i, j) adds to a value                                 *)

State(s, i, j, below) ==
  LET Sat(k) == Satisfies(s[k + 1], below)
      x == Foremost0({k \in i + 1 .. j - 1 : ~Sat(k)}, j)
  IN  IF Sat(i) THEN IF x = j THEN "all_true"
                     ELSE IF \E k \in x + 1 .. j - 1 : Sat(k) THEN "broken" ELSE "true_false"
      ELSE IF \E k \in i + 1 .. j - 1 : Sat(k) THEN "broken" ELSE "all_false"

\* A range looks at the element behind it, too.
LooksBehind(s, j) == IF j # Len(s) THEN j + 1 ELSE j

Adjacent(s, i, j, v) ==
  LET end == LooksBehind(s, j)
      res == Foremost0({k \in i .. end - 2 : KeyAt(s, k) = KeyAt(s, k + 1)}, end)
  IN  IF v > i /\ res < end THEN res ELSE v

\* std::min_element() and std::minmax_element() of [i, j): the first of the
\* least, and the last of the greatest
LeastIn(s, i, j) == Foremost0({k \in i .. j - 1 : \A l \in i .. j - 1 : KeyAt(s, k) <= KeyAt(s, l)}, j)
GreatestIn(s, i, j) == Hindmost0({k \in i .. j - 1 : \A l \in i .. j - 1 : KeyAt(s, k) >= KeyAt(s, l)}, j)

\* __par_trans_red_body: a sum without a value begins with two elements.
AddRange(sum, s, i, j) ==
  IF sum.has THEN [sum EXCEPT !.value = @ \o SubSeq(s, i + 1, j)]
  ELSE [has |-> TRUE, value |-> <<s[i + 1], s[i + 2]>> \o SubSeq(s, i + 3, j)]

Identity(job) ==
  LET n == Len(job.s)
  IN  CASE job.name \in Partitions -> PartRange(n, n, n, <<>>)
        [] job.name = "is_partitioned" -> "not_init"
        [] job.name = "adjacent_find" -> n
        [] job.name = "min_element" -> 0
        [] job.name = "minmax_element" -> <<0, 0>>
        [] OTHER -> [has |-> FALSE, value |-> <<>>]

\* The partition of [i, j) alone: std::stable_partition(), or std::partition(),
\* which exchanges what is wrong on both sides from the outside in.
Divided(s, i, j, below, stable) ==
  LET part == SubSeq(s, i + 1, j)
      yes == SelectSeq(part, LAMBDA x : Satisfies(x, below))
      no == SelectSeq(part, LAMBDA x : ~Satisfies(x, below))
      front == {k \in 1 .. Len(yes) : ~Satisfies(part[k], below)}
      back == {k \in Len(yes) + 1 .. Len(part) : Satisfies(part[k], below)}
      Partner(k) == IF k \in front
                    THEN CHOOSE l \in back : Cardinality({b \in back : b >= l}) = Cardinality({f \in front : f <= k})
                    ELSE CHOOSE l \in front : Cardinality({f \in front : f <= l}) = Cardinality({b \in back : b >= k})
      swapped == [k \in DOMAIN part |-> part[IF k \in front \cup back THEN Partner(k) ELSE k]]
  IN  PartRange(i, i + Len(yes), j, IF stable THEN yes \o no ELSE swapped)

Body(job, i, j, v) ==
  LET s == job.s
  IN  CASE job.name \in Partitions ->
             LET stable == job.name = "stable_partition"
             IN  JoinPartition(stable, v, Divided(s, i, j, job.below, stable))
        [] job.name = "is_partitioned" ->
             LET own == State(s, i, j, job.below)
             IN  IF v = "broken" \/ own = "broken" THEN "broken"
                 ELSE IF v = "not_init" THEN own ELSE Table(v, own)
        [] job.name = "adjacent_find" -> Adjacent(s, i, j, v)
        [] job.name = "min_element" -> LesserPlace(s, v, LeastIn(s, i, j))
        [] job.name = "minmax_element" ->
             <<LesserPlace(s, LeastIn(s, i, j), v[1]), GreaterPlace(s, v[2], GreatestIn(s, i, j))>>
        [] OTHER -> AddRange(v, s, i, j)

Join(job, x, y) ==
  CASE job.name \in Partitions -> JoinPartition(job.name = "stable_partition", x, y)
    [] job.name = "is_partitioned" -> JoinStates(x, y)
    [] job.name = "adjacent_find" -> IF x < y THEN x ELSE y
    [] job.name = "min_element" -> LesserPlace(job.s, x, y)
    [] job.name = "minmax_element" ->
         <<LesserPlace(job.s, x[1], y[1]), GreaterPlace(job.s, y[2], x[2])>>
    [] OTHER -> [has |-> x.has, value |-> x.value \o y.value]

\* The grain size of blocked_range
Grain(job) == IF job.name = "transform_reduce" THEN 3 ELSE 1

\* All values that the body with v may have behind [i, j).
RECURSIVE Reduce(_, _, _, _)
Reduce(job, i, j, v) ==
  LET m == i + (j - i) \div 2
      lefts == Reduce(job, i, m, v)
  IN  {Body(job, i, j, v)} \cup
      (IF j - i <= Grain(job) THEN {}
       ELSE UNION {Reduce(job, m, j, l) : l \in lefts}
            \cup {Join(job, l, r) : l \in lefts, r \in Reduce(job, m, j, Identity(job))})

\* parallel_reduce of the range behind the elements that the call leaves out
ReduceFrom(job, first) ==
  LET begin == IF job.name = "transform_reduce" THEN [has |-> TRUE, value |-> <<>>] ELSE Identity(job)
  IN  IF first >= Len(job.s) THEN {begin} ELSE Reduce(job, first, Len(job.s), begin)

-----------------------------------------------------------------------------
(* __pattern_nth_element: partitions by the first element                  *)

\* [first, last) of s, without its first element, partitioned in all ways: the
\* sequences and the pivots.
PivotAround(s, first, last) ==
  LET job == [name |-> "partition", s |-> SubSeq(s, first + 2, last), below |-> KeyAt(s, first)]
  IN  {[s |-> SubSeq(s, 1, first + 1) \o r.s \o SubSeq(s, last + 1, Len(s)),
        x |-> first + r.pivot] : r \in ReduceFrom(job, 0)}

\* The pivot lies before nth: the rest begins behind it if it equals nth, and
\* with what lay at nth otherwise.
GoOnBehind(s, x, nth) ==
  IF KeyAt(s, nth) = KeyAt(s, x) THEN [s |-> s, first |-> x + 1]
  ELSE [s |-> Exchange2(s, nth + 1, x + 1), first |-> x]

\* All results; a loop that takes more rounds than it should gives none.
RECURSIVE NthLoop(_, _, _, _, _)
NthLoop(s, first, last, nth, rounds) ==
  IF rounds = 0 THEN {<<>>}
  ELSE UNION {LET swapped == Exchange2(p.s, first + 1, p.x + 1)
                  behind == GoOnBehind(swapped, p.x, nth)
              IN  IF p.x = nth THEN {swapped}
                  ELSE IF p.x > nth THEN NthLoop(swapped, first, p.x, nth, rounds - 1)
                  ELSE IF behind.first = nth THEN {swapped}
                  ELSE NthLoop(behind.s, behind.first, last, nth, rounds - 1)
              : p \in PivotAround(s, first, last)}

NthElement(s, nth) == IF s = <<>> \/ nth = Len(s) THEN {s}
                      ELSE NthLoop(s, 0, Len(s), nth, 2 * Len(s))

-----------------------------------------------------------------------------
(* rotate                                                                  *)

\* s with the elements of [i, j) moved to the places from k on, one after the
\* other, from either end: tasks may do so in any order.
RECURSIVE MoveEach(_, _, _, _, _)
MoveEach(s, i, j, k, up) ==
  IF i >= j THEN s
  ELSE IF up THEN MoveEach([s EXCEPT ![k + 1] = s[i + 1]], i + 1, j, k + 1, up)
  ELSE MoveEach([s EXCEPT ![k + (j - i)] = s[j]], i, j - 1, k, up)

\* __pattern_rotate(): the part behind the middle goes to the buffer.
SavesRest(n, m) == m <= n \div 2

RotateBuffered(s, m, up) ==
  LET n == Len(s)
  IN  IF SavesRest(n, m)
      THEN SubSeq(s, m + 1, n) \o SubSeq(MoveEach(s, 0, m, n - m, up), n - m + 1, n)
      ELSE SubSeq(MoveEach(s, m, n, 0, up), 1, n - m) \o SubSeq(s, 1, m)

\* [i, i + m) and [j, j + m) exchanged
SwapRanges(s, i, j, m) ==
  [k \in DOMAIN s |-> IF k - 1 \in i .. i + m - 1 THEN s[k - i + j]
                      ELSE IF k - 1 \in j .. j + m - 1 THEN s[k - j + i] ELSE s[k]]
RECURSIVE SwapAlong(_, _, _, _, _)
SwapAlong(s, first, last, m, left) ==
  IF last - first < 2 * m THEN [s |-> s, first |-> first, last |-> last]
  ELSE IF left THEN SwapAlong(SwapRanges(s, first, first + m, m), first + m, last, m, left)
  ELSE SwapAlong(SwapRanges(s, last - m, last - 2 * m, m), first, last - m, m, left)

\* __brick_rotate() with vector instructions
RECURSIVE RotateVector(_, _, _, _, _)
RotateVector(s, first, last, m, left) ==
  LET n == last - first
      r == SwapAlong(s, first, last, m, left)
  IN  IF n <= 1 \/ m = 0 THEN s ELSE RotateVector(r.s, r.first, r.last, n % m, ~left)

Rotated(name, s, m) ==
  LET n == Len(s)
      left == m <= n \div 2
  IN  IF name = "rotate" THEN {RotateBuffered(s, m, up) : up \in BOOLEAN}
      ELSE {RotateVector(s, 0, n, IF left THEN m ELSE n - m, left)}

-----------------------------------------------------------------------------
ReduceInit ==
  /\ \E name \in Reductions \cup Rotations \cup {"nth_element"} :
       \E n \in 0 .. (CASE name = "nth_element" -> NthLen
                        [] name \in Rotations -> RotateLen [] OTHER -> ReduceLen) :
         \E s \in IF name \in Rotations THEN {[i \in 1 .. n |-> [key |-> 0, tag |-> i]]} ELSE Inputs(n),
            place \in 0 .. n, below \in SortKeys :
           /\ name \in Reductions => place = 0
           /\ name \notin Partitions \cup {"is_partitioned"} => \A k \in SortKeys : below <= k
           /\ reduction = [name |-> name, s |-> s, place |-> place, below |-> below]
  /\ reduced = <<>>

ReduceCall(names, results) == /\ reduction.name \in names /\ reduced = <<>>
                              /\ \E r \in results : reduced' = <<r>>
                              /\ UNCHANGED reduction

ReduceNext ==
  LET skipped == IF reduction.name \in {"min_element", "minmax_element"} THEN 1 ELSE 0
  IN  \/ ReduceCall(Reductions, ReduceFrom(reduction, skipped))
      \/ ReduceCall({"nth_element"}, NthElement(reduction.s, reduction.place))
      \/ ReduceCall(Rotations, Rotated(reduction.name, reduction.s, reduction.place))

ReduceSpec == ReduceInit /\ [][ReduceNext]_reduceVars

-----------------------------------------------------------------------------
(* Properties                                                              *)

Gave(names) == reduced # <<>> /\ reduction.name \in names
Rearranged(s) == Len(s) = Len(reduction.s) /\ ToSet(s) = ToSet(reduction.s)

\* However the halves were joined, the pivot divides all elements, also those
\* that changed places with others; stable_partition() keeps their order.
HalvesJoined ==
  Gave(Partitions) =>
    LET r == reduced[1]
        Rises(s) == \A i \in 1 .. Len(s) - 1 : s[i].tag < s[i + 1].tag
    IN  /\ r.end = Len(reduction.s) /\ Rearranged(r.s)
        /\ r.s # <<>> => r.begin = 0
        /\ \A i \in DOMAIN r.s : Satisfies(r.s[i], reduction.below) <=> i <= r.pivot - r.begin
        /\ reduction.name = "stable_partition" => Rises(TrueOf(r)) /\ Rises(FalseOf(r))

\* The values of halves say of the whole what is true of it.
StatesJoined ==
  Gave({"is_partitioned"}) =>
    (reduced[1] = "broken" <=>
       \E i, j \in DOMAIN reduction.s : /\ i < j /\ ~Satisfies(reduction.s[i], reduction.below)
                                        /\ Satisfies(reduction.s[j], reduction.below))

\* The first pair of equal neighbours, the first least and the last greatest
\* element are found, also where two halves meet.
PlacesRight ==
  LET s == reduction.s  n == Len(s)
      pairs == {k \in 0 .. n - 2 : KeyAt(s, k) = KeyAt(s, k + 1)}
  IN  /\ Gave({"adjacent_find"}) => reduced[1] = Foremost0(pairs, n)
      /\ Gave({"min_element"}) /\ n > 0 => reduced[1] = LeastIn(s, 0, n)
      /\ Gave({"minmax_element"}) /\ n > 0 => reduced[1] = <<LeastIn(s, 0, n), GreatestIn(s, 0, n)>>

\* Every element is added once, in order, and every body that is joined has a
\* sum: what the asserts of __par_trans_red_body say.
SummedInOrder ==
  Gave({"transform_reduce"}) => reduced[1] = [has |-> TRUE, value |-> reduction.s]

\* The loop of nth_element() comes to an end, with nothing greater before nth
\* and nothing less behind it.
NthInPlace ==
  Gave({"nth_element"}) =>
    LET r == reduced[1]  nth == reduction.place + 1
    IN  /\ Rearranged(r)
        /\ nth <= Len(r) => /\ \A i \in 1 .. nth - 1 : r[i].key <= r[nth].key
                            /\ \A i \in nth + 1 .. Len(r) : r[i].key >= r[nth].key

\* The elements behind the middle come first, in order.
Rotates ==
  Gave(Rotations) =>
    LET s == reduction.s  m == reduction.place
    IN  reduced[1] = SubSeq(s, m + 1, Len(s)) \o SubSeq(s, 1, m)

\* What is put together from halves, cut anywhere, is right for the whole.
ReduceInv == /\ HalvesJoined /\ StatesJoined /\ PlacesRight /\ SummedInOrder
             /\ NthInPlace /\ Rotates

=============================================================================
