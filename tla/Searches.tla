------------------------------ MODULE Searches ------------------------------
(***************************************************************************)
(* The functions of bits/stl_algo.h that search, compare and combine two   *)
(* ranges, and the permutations of one.  Positions count from 1, and the   *)
(* one past the end says that nothing was found.                           *)
(***************************************************************************)
EXTENDS Naturals, Sequences, FiniteSets, SequencesExt, Elements

CONSTANTS MaxFirst, MaxSecond  \* lengths of the ranges, at most

VARIABLES query,  \* the function that is called, and its two ranges
          answer  \* what it returns, or writes

searchVars == <<query, answer>>

NoAnswer == <<>>
SetOps == {"set_union", "set_intersection", "set_difference", "set_symmetric_difference"}
Finds == {"search", "search_n", "search_n random", "find_end", "find_end backward"}
Orders == {"equal_range", "minmax_element", "next_permutation", "prev_permutation"}

InOrder(s) == \A i \in 1 .. Len(s) - 1 : ~Less(s[i + 1], s[i])
OfOneKey(s) == s # <<>> /\ \A i \in DOMAIN s : s[i].key = s[1].key

\* The tags of the second range tell its elements from those of the first.
SearchInit ==
  /\ \E name \in SetOps \cup Finds \cup Orders \cup {"is_permutation"},
        n \in 0 .. MaxFirst, m \in 0 .. MaxSecond :
       \E p \in Inputs(n), q \in Inputs(m) :
          /\ name \in SetOps => InOrder(p) /\ InOrder(q)
          /\ name \in {"search_n", "search_n random"} => OfOneKey(q)
          /\ name = "equal_range" => InOrder(p) /\ m = 1
          /\ name \in Orders \ {"equal_range"} => m = 0
          /\ query = [name |-> name, p |-> p,
                      q |-> [i \in 1 .. m |-> [q[i] EXCEPT !.tag = @ + MaxFirst]]]
  /\ answer = NoAnswer

-----------------------------------------------------------------------------
(* Searches                                                                *)

Same(x, y) == x.key = y.key
End(s) == Len(s) + 1

\* __find_if() with the element x
FindFrom(p, first, x) ==
  LET hits == {i \in first .. Len(p) : Same(p[i], x)}
  IN  IF hits = {} THEN End(p) ELSE CHOOSE i \in hits : \A j \in hits : i <= j

\* __search()
RECURSIVE SearchFrom(_, _, _)
SearchFrom(p, q, first) ==
  LET f == FindFrom(p, first, q[1])
      misses == {j \in 2 .. Len(q) : f + j - 1 > Len(p) \/ ~Same(p[f + j - 1], q[j])}
      j == CHOOSE i \in misses : \A k \in misses : i <= k
  IN  IF f = End(p) THEN f
      ELSE IF misses = {} THEN f
      ELSE IF f + j - 1 > Len(p) THEN End(p)
      ELSE SearchFrom(p, q, f + 1)
Search(p, q) == IF p = <<>> \/ q = <<>> THEN 1 ELSE SearchFrom(p, q, 1)

\* The number of elements like x that end before position last.
RunBefore(p, last, x) ==
  LET misses == {i \in 1 .. last - 1 : ~Same(p[i], x)}
  IN  last - 1 - (IF misses = {} THEN 0 ELSE CHOOSE i \in misses : \A j \in misses : j <= i)
RunFrom(p, first, x) ==
  LET misses == {i \in first .. Len(p) : ~Same(p[i], x)}
  IN  (IF misses = {} THEN End(p) ELSE CHOOSE i \in misses : \A j \in misses : i <= j) - first

\* __search_n_aux() for forward iterators
RECURSIVE SearchRuns(_, _, _, _)
SearchRuns(p, first, count, x) ==
  LET n == RunFrom(p, first, x)
  IN  IF first = End(p) \/ n >= count THEN first
      ELSE IF first + n = End(p) THEN End(p)
      ELSE SearchRuns(p, FindFrom(p, first + n + 1, x), count, x)

\* Wrong: the elements that matched are skipped, too.
StartsAfresh(count, matched) == count

\* How far to jump when the last elements matched, and the one before did not.
Remainder(count, matched) == count - matched

\* __search_n_aux() for random access iterators: looks at the last element of
\* a possible match first, and only at those that it has not seen.
RECURSIVE JumpSearch(_, _, _, _, _)
JumpSearch(p, first, remainder, count, x) ==
  LET next == first + remainder
      matched == RunBefore(p, next, x)
  IN  IF next > End(p) THEN End(p)
      ELSE IF matched >= remainder THEN next - count
      ELSE JumpSearch(p, next, Remainder(count, matched), count, x)

\* search_n()
SearchN(p, count, x, random) ==
  IF count = 1 THEN FindFrom(p, 1, x)
  ELSE IF random THEN JumpSearch(p, 1, count, count, x)
  ELSE SearchRuns(p, FindFrom(p, 1, x), count, x)

\* __find_end() for forward iterators
RECURSIVE EndFrom(_, _, _, _)
EndFrom(p, q, first, found) ==
  LET rest == SubSeq(p, first, Len(p))
      s == Search(rest, q)
  IN  IF s = End(rest) THEN found ELSE EndFrom(p, q, first + s, first + s - 1)
FindEnd(p, q) == IF q = <<>> THEN End(p) ELSE EndFrom(p, q, 1, End(p))

\* ... and for bidirectional ones
FindEndBackward(p, q) ==
  LET s == Search(Reverse(p), Reverse(q))
  IN  IF s = End(p) THEN End(p) ELSE End(p) - (s - 1) - Len(q)

-----------------------------------------------------------------------------
(* Order                                                                   *)

\* __equal_range()
RECURSIVE RangeLoop(_, _, _, _)
RangeLoop(p, first, len, x) ==
  LET middle == first + len \div 2
  IN  IF len = 0 THEN <<first, first>>
      ELSE IF Less(p[middle], x) THEN RangeLoop(p, middle + 1, len - len \div 2 - 1, x)
      ELSE IF Less(x, p[middle]) THEN RangeLoop(p, first, len \div 2, x)
      ELSE <<BoundLoop(p, first, middle - first, x, FALSE),
             BoundLoop(p, middle + 1, first + len - middle - 1, x, TRUE)>>

Greatest(p, i, most) == IF ~Less(p[i], p[most]) THEN i ELSE most

\* One round of __minmax_element() with the elements at i and i + 1, the smaller
\* of them compared with the least, the other with the greatest.
RECURSIVE MinMaxLoop(_, _, _, _)
MinMaxLoop(p, i, least, most) ==
  LET lo == IF Less(p[i + 1], p[i]) THEN i + 1 ELSE i
      hi == IF lo = i THEN i + 1 ELSE i
  IN  IF i > Len(p) THEN <<least, most>>
      ELSE IF i = Len(p)
      THEN IF Less(p[i], p[least]) THEN <<i, most>>
           ELSE <<least, Greatest(p, i, most)>>
      ELSE MinMaxLoop(p, i + 2, IF Less(p[lo], p[least]) THEN lo ELSE least,
                      Greatest(p, hi, most))

MinMax(p) == IF Len(p) < 2 THEN <<1, 1>>
             ELSE IF Less(p[2], p[1]) THEN MinMaxLoop(p, 3, 2, 1) ELSE MinMaxLoop(p, 3, 1, 2)

ReverseFrom(p, i) == SubSeq(p, 1, i - 1) \o Reverse(SubSeq(p, i, Len(p)))

\* __next_permutation() if up, else __prev_permutation()
Permutation(p, up) ==
  LET Before(x, y) == IF up THEN Less(x, y) ELSE Less(y, x)
      steps == {i \in 1 .. Len(p) - 1 : Before(p[i], p[i + 1])}
      i == CHOOSE x \in steps : \A y \in steps : y <= x
      behind == {j \in 1 .. Len(p) : Before(p[i], p[j])}
      j == CHOOSE x \in behind : \A y \in behind : y <= x
  IN  IF steps = {} THEN [more |-> FALSE, s |-> Reverse(p)]
      ELSE [more |-> TRUE, s |-> ReverseFrom(Exchange2(p, i, j), i + 1)]

Occurrences(s, first, x) == Cardinality({i \in first .. Len(s) : Same(s[i], x)})

\* __is_permutation(), behind the prefix that is the same
IsPermutation(p, q) ==
  LET differ == {i \in DOMAIN p \cap DOMAIN q : ~Same(p[i], q[i])}
      first == CHOOSE x \in differ : \A y \in differ : x <= y
  IN  /\ Len(p) = Len(q)
      /\ differ # {} =>
           \A i \in first .. Len(p) :
             FindFrom(p, first, p[i]) = i =>
               Occurrences(p, i, p[i]) = Occurrences(q, first, p[i])

-----------------------------------------------------------------------------
Ask(names, value) == /\ query.name \in names /\ answer = NoAnswer
                     /\ answer' = <<value>>
                     /\ UNCHANGED query

SearchNext ==
  LET p == query.p  q == query.q
  IN  \/ Ask(SetOps, Combined(query.name, p, q))
      \/ Ask({"search"}, Search(p, q))
      \/ query.q # <<>> /\ Ask({"search_n"}, SearchN(p, Len(q), q[1], FALSE))
      \/ query.q # <<>> /\ Ask({"search_n random"}, SearchN(p, Len(q), q[1], TRUE))
      \/ Ask({"find_end"}, FindEnd(p, q))
      \/ Ask({"find_end backward"}, FindEndBackward(p, q))
      \/ Ask({"is_permutation"}, IsPermutation(p, q))
      \/ query.q # <<>> /\ Ask({"equal_range"}, RangeLoop(p, 1, Len(p), q[1]))
      \/ Ask({"minmax_element"}, MinMax(p))
      \/ Ask({"next_permutation"}, Permutation(p, TRUE))
      \/ Ask({"prev_permutation"}, Permutation(p, FALSE))

SearchSpec == SearchInit /\ [][SearchNext]_searchVars

-----------------------------------------------------------------------------
(* Properties                                                              *)

Answered(names) == answer # NoAnswer /\ query.name \in names
TimesIn(s, k) == Cardinality({i \in DOMAIN s : s[i].key = k})
Difference(m, n) == IF m > n THEN m - n ELSE 0

\* The set operations keep as many of equal elements as they have to, in order,
\* and take those that are in both ranges from the first.
MultiplicitiesRight ==
  Answered(SetOps) =>
    LET r == answer[1]
    IN  /\ InOrder(r) /\ IsInjective(r)
        /\ \A k \in SortKeys :
             LET m == TimesIn(query.p, k)  n == TimesIn(query.q, k)
             IN  /\ TimesIn(r, k) = CASE query.name = "set_union" -> m + Difference(n, m)
                                      [] query.name = "set_intersection" -> m - Difference(m, n)
                                      [] query.name = "set_difference" -> Difference(m, n)
                                      [] OTHER -> Difference(m, n) + Difference(n, m)
                 /\ query.name \in {"set_union", "set_intersection"} =>
                      \A i \in DOMAIN r : (r[i].key = k /\ r[i].tag > MaxFirst) => n > m

Matches(i) == /\ i + Len(query.q) <= End(query.p)
              /\ \A j \in DOMAIN query.q : Same(query.p[i + j - 1], query.q[j])

\* Each search finds the first match, or the last one, and does not miss one
\* that overlaps a failed attempt.
FindsFirstOrLast ==
  Answered(Finds) =>
    LET hits == {i \in 1 .. Len(query.p) : Matches(i)}
        r == answer[1]
    IN  CASE query.q = <<>> -> r = IF query.name = "search" THEN 1 ELSE End(query.p)
          [] query.q # <<>> /\ hits = {} -> r = End(query.p)
          [] query.q # <<>> /\ hits # {} ->
               r \in hits /\ \A i \in hits : IF query.name \in {"find_end", "find_end backward"}
                                             THEN i <= r ELSE r <= i

\* Bounds enclose what is equal; the least is the first of its kind, and the
\* greatest the last.
BoundsEnclose ==
  Answered({"equal_range", "minmax_element"}) =>
    LET r == answer[1]  p == query.p
    IN  IF query.name = "equal_range"
        THEN \A i \in DOMAIN p : /\ Less(p[i], query.q[1]) <=> i < r[1]
                                 /\ Less(query.q[1], p[i]) <=> i >= r[2]
        ELSE \A i \in DOMAIN p : /\ ~Less(p[i], p[r[1]]) /\ (Same(p[i], p[r[1]]) => r[1] <= i)
                                 /\ ~Less(p[r[2]], p[i]) /\ (Same(p[i], p[r[2]]) => i <= r[2])

Arrangements(p) == {[i \in DOMAIN p |-> p[f[i]].key] :
                      f \in {g \in [DOMAIN p -> DOMAIN p] : IsInjective(g)}}
LexLess(s, t) == \E i \in DOMAIN s : s[i] < t[i] /\ \A j \in 1 .. i - 1 : s[j] = t[j]
KeysOf(s) == [i \in DOMAIN s |-> s[i].key]

\* next_permutation() gives the next arrangement, with none in between, and after
\* the last the first one; prev_permutation() the other way.
NextArrangement ==
  Answered({"next_permutation", "prev_permutation"}) =>
    LET from == KeysOf(query.p)  to == KeysOf(answer[1].s)
        Above(s, t) == IF query.name = "next_permutation" THEN LexLess(t, s) ELSE LexLess(s, t)
        A == Arrangements(query.p)
    IN  /\ to \in A
        /\ IF answer[1].more
           THEN Above(to, from) /\ ~\E s \in A : Above(s, from) /\ Above(to, s)
           ELSE (~\E s \in A : Above(s, from)) /\ ~\E s \in A : Above(to, s)

\* is_permutation() says whether there is an arrangement that gives the other range.
PermutationFound ==
  Answered({"is_permutation"}) => (answer[1] <=> KeysOf(query.q) \in Arrangements(query.p))

\* The answers of all the algorithms are what their documentation says.
SearchInv == /\ MultiplicitiesRight /\ FindsFirstOrLast /\ BoundsEnclose
             /\ NextArrangement /\ PermutationFound

=============================================================================
