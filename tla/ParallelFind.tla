---------------------------- MODULE ParallelFind ----------------------------
(***************************************************************************)
(* __parallel_find() and __parallel_or() of pstl/parallel_impl.h and the   *)
(* functions of pstl/algorithm_impl.h that search with them.  The range is *)
(* cut into blocks that run at the same time; they share an atomic         *)
(* variable.  Places count from 0, a block is [i, j).                      *)
(***************************************************************************)
EXTENDS Integers, Sequences, FiniteSets, Elements

CONSTANTS FindLen, SoughtLen, \* lengths of the two ranges, at most
          MaxBlocks           \* pieces that the range is cut into, at most

ASSUME FindOK == FindLen \in Nat /\ SoughtLen \in Nat /\ MaxBlocks \in Nat \ {0}

VARIABLES find,      \* the function, its ranges, and the length that is cut
          blocks,    \* the blocks by their first places
          shared     \* __extremum, or __found

findVars == <<find, blocks, shared>>

FindCalls == {"find_if", "search", "find_end", "search_n", "is_heap_until", "mismatch",
              "lexicographical_compare"}
OrCalls == {"any_of", "equal", "includes"}

At(s, i) == s[i + 1].key
Alike(s) == [i \in DOMAIN s |-> s[i].key]
Within(n, m) == IF n < m THEN n ELSE m
NotFalling(s) == \A i \in 1 .. Len(s) - 1 : s[i].key <= s[i + 1].key

-----------------------------------------------------------------------------
(* The bricks: what is found in [i, j), or j                               *)

FirstOf(hits, j) == IF hits = {} THEN j ELSE CHOOSE k \in hits : \A l \in hits : k <= l
LastOf(hits, j) == IF hits = {} THEN j ELSE CHOOSE k \in hits : \A l \in hits : k >= l

\* __find_subrange(): an occurrence begins in the block and may end behind it.
FindSubrange(p, q, i, j, first) ==
  LET starts == {k \in i .. j - 1 :
                   k + Len(q) <= Len(p) /\ Alike(SubSeq(p, k + 1, k + Len(q))) = Alike(q)}
  IN  IF q = <<>> THEN IF first THEN i ELSE j
      ELSE IF first THEN FirstOf(starts, j) ELSE LastOf(starts, j)

\* __find_subrange() of count elements equal to a value
FindRun(p, q, i, j) == IF q = <<>> THEN j ELSE FindSubrange(p, q, i, j, TRUE)

\* __is_heap_until_local(): the parent may lie before the block; that of the
\* first element is itself.
Disordered(p, k) == k > 0 /\ At(p, (k - 1) \div 2) < At(p, k)

FindBrick(i, j) ==
  LET p == find.p  q == find.q
  IN  CASE find.name = "find_if" -> FirstOf({k \in i .. j - 1 : At(p, k) = 0}, j)
        [] find.name = "search" -> FindSubrange(p, q, i, j, TRUE)
        [] find.name = "find_end" -> FindSubrange(p, q, i, j, FALSE)
        [] find.name = "search_n" -> FindRun(p, q, i, j)
        [] find.name = "is_heap_until" -> FirstOf({k \in i .. j - 1 : Disordered(p, k)}, j)
        [] OTHER -> FirstOf({k \in i .. j - 1 : At(p, k) # At(q, k)}, j)

\* std::includes()
Includes(p, q) ==
  LET From[i \in Nat, j \in Nat] ==
        IF j > Len(q) THEN TRUE
        ELSE IF i > Len(p) \/ Less(q[j], p[i]) THEN FALSE
        ELSE IF Less(p[i], q[j]) THEN From[i + 1, j]
        ELSE From[i + 1, j + 1]
  IN  From[1, 1]

\* The brick of __pattern_includes(): a block leaves the elements it begins
\* with to the block they begin in, and takes those that go on behind it.
LacksSome(p, q, i, j) ==
  LET goesOn == i > 0 /\ At(q, i) = At(q, i - 1)
      ii == IF goesOn THEN BoundLoop(q, i + 1, Len(q) - i, q[i + 1], TRUE) - 1 ELSE i
      jj == IF j < Len(q) /\ At(q, j - 1) = At(q, j)
            THEN BoundLoop(q, j + 1, Len(q) - j, q[j + 1], TRUE) - 1 ELSE j
      b == BoundLoop(p, 1, Len(p), q[ii + 1], FALSE)
  IN  IF goesOn /\ At(q, i) = At(q, j - 1) THEN FALSE
      ELSE ~Includes(SubSeq(p, b, Len(p)), SubSeq(q, ii + 1, jj))

OrBrick(i, j) ==
  LET p == find.p  q == find.q
  IN  CASE find.name = "any_of" -> \E k \in i .. j - 1 : At(p, k) = 0
        [] find.name = "equal" -> \E k \in i .. j - 1 : At(p, k) # At(q, k)
        [] OTHER -> LacksSome(p, q, i, j)

-----------------------------------------------------------------------------
(* The calls that come as far as the blocks                                *)

\* __pattern_includes() of ranges of which it cannot say it at once, where the
\* first one begins at the lower bound.
MayInclude(p, q) ==
  /\ Len(q) > 1 /\ p # <<>> /\ NotFalling(p) /\ NotFalling(q)
  /\ ~Less(q[1], p[1]) /\ ~Less(p[Len(p)], q[Len(q)])
FromLower(p, q) == SubSeq(p, BoundLoop(p, 1, Len(p), q[1], FALSE), Len(p))

\* The length that is cut into blocks
CutLen(name, p, q) == CASE name \in {"mismatch", "equal"} -> Within(Len(p), Len(q))
                        [] name = "lexicographical_compare" -> Within(Len(p), Len(q)) - 1
                        [] name = "includes" -> Len(q)
                        [] OTHER -> Len(p)

Comes(name, p, q) ==
  CASE name \in {"find_if", "any_of"} -> q = <<>>
    [] name \in {"search", "find_end"} -> Len(p) # Len(q)
    [] name = "search_n" -> Len(p) # Len(q) /\ \A i \in DOMAIN q : q[i].key = q[1].key
    [] name = "is_heap_until" -> q = <<>> /\ Len(p) > 1
    [] name = "mismatch" -> TRUE
    [] name = "equal" -> Len(p) = Len(q)
    [] name = "includes" -> MayInclude(p, q)
    [] OTHER -> p # <<>> /\ q # <<>>

\* Nothing is found and nothing loaded while hit and old are the end.
Block(j) == [last |-> j, stage |-> "ready", hit |-> j, old |-> j]
Backward == find.name = "find_end"
InitialDist == IF Backward THEN -1 ELSE find.n

FindInit ==
  \E name \in FindCalls \cup OrCalls, n \in 0 .. FindLen, m \in 0 .. SoughtLen :
    \E p \in Inputs(n), q \in Inputs(m) :
       /\ Comes(name, p, q)
       /\ find = [name |-> name, p |-> IF name = "includes" THEN FromLower(p, q) ELSE p,
                  q |-> q, n |-> CutLen(name, p, q)]
       /\ \E starts \in SUBSET (0 .. find.n - 1) :
            /\ Cardinality(starts) <= MaxBlocks /\ (find.n > 0 <=> 0 \in starts)
            /\ blocks = [i \in starts |->
                 LET later == {j \in starts : j > i}
                 IN  Block(IF later = {} THEN find.n ELSE CHOOSE j \in later : \A k \in later : j <= k)]
       /\ shared = IF name \in OrCalls THEN 0 ELSE InitialDist

-----------------------------------------------------------------------------
(* The blocks                                                              *)

Comp(k, l) == IF Backward THEN k > l ELSE k < l

\* The extremum is looked at once, then the brick runs.
Search(i) ==
  LET res == FindBrick(i, blocks[i].last)
  IN  /\ find.name \in FindCalls /\ blocks[i].stage = "ready"
      /\ blocks' = IF Comp(i, shared) /\ res # blocks[i].last
                   THEN [blocks EXCEPT ![i].stage = "load", ![i].hit = res]
                   ELSE [blocks EXCEPT ![i].stage = "done"]
      /\ UNCHANGED <<find, shared>>

LoadOld(i) ==
  /\ blocks[i].stage = "load"
  /\ blocks' = IF Comp(blocks[i].hit, shared)
               THEN [blocks EXCEPT ![i].old = shared, ![i].stage = "swap"]
               ELSE [blocks EXCEPT ![i].stage = "done"]
  /\ UNCHANGED <<find, shared>>

\* Wrong: what other blocks have found in between is overwritten.
StoresHit(i) == shared' \in {shared, blocks[i].hit}

\* compare_exchange_weak(), which may fail without a cause
ExchangeWeak(i) == IF shared = blocks[i].old THEN shared' \in {shared, blocks[i].hit}
                   ELSE UNCHANGED shared

SwapHit(i) ==
  /\ blocks[i].stage = "swap"
  /\ ExchangeWeak(i)
  /\ blocks' = [blocks EXCEPT ![i].stage = "load", ![i].old = blocks[i].last]
  /\ UNCHANGED find

\* __parallel_or(): after a hit the blocks that wait are not begun.
LookFor(i) ==
  /\ find.name \in OrCalls /\ blocks[i].stage = "ready" /\ shared = 0
  /\ blocks' = [blocks EXCEPT ![i].stage = IF OrBrick(i, blocks[i].last) THEN "hit" ELSE "done"]
  /\ UNCHANGED <<find, shared>>
ReportHit(i) ==
  /\ blocks[i].stage = "hit"
  /\ shared' = 1 /\ blocks' = [blocks EXCEPT ![i].stage = "done"]
  /\ UNCHANGED find
Cancelled(i) ==
  /\ find.name \in OrCalls /\ blocks[i].stage = "ready" /\ shared = 1
  /\ blocks' = [blocks EXCEPT ![i].stage = "done"]
  /\ UNCHANGED <<find, shared>>

BlockStep(i) == Search(i) \/ LoadOld(i) \/ SwapHit(i) \/ LookFor(i) \/ ReportHit(i) \/ Cancelled(i)
FindNext == \E i \in DOMAIN blocks : BlockStep(i)

FindSpec == FindInit /\ [][FindNext]_findVars

-----------------------------------------------------------------------------
(* What the callers return                                                 *)

AllDone == \A i \in DOMAIN blocks : blocks[i].stage = "done"
Found == IF shared # InitialDist THEN shared ELSE find.n

\* __pattern_lexicographical_compare(): Found is at the last element of one of
\* the ranges when there is no difference before.
Precedes ==
  LET p == find.p  q == find.q
  IN  IF Found = Len(p) - 1 /\ Found # Len(q) - 1 THEN ~(At(q, Found) < At(p, Found))
      ELSE At(p, Found) < At(q, Found)

FindAnswer == CASE find.name = "lexicographical_compare" -> Precedes
                [] find.name \in {"equal", "includes"} -> shared = 0
                [] find.name = "any_of" -> shared = 1
                [] OTHER -> Found

-----------------------------------------------------------------------------
(* Properties                                                              *)

Occurs(k) == /\ k + Len(find.q) <= Len(find.p)
             /\ Alike(SubSeq(find.p, k + 1, k + Len(find.q))) = Alike(find.q)
IsHeap(k) == \A i \in 1 .. k - 1 : At(find.p, (i - 1) \div 2) >= At(find.p, i)
SameUpTo(k) == \A i \in 0 .. k - 1 : At(find.p, i) = At(find.q, i)
Counts0(s, v) == Cardinality({i \in DOMAIN s : s[i].key = v})
Places == 0 .. Len(find.p)

\* What the serial functions return, by what they are for.
Wanted ==
  LET p == find.p  q == find.q  n == Len(p)
  IN  CASE find.name = "find_if" -> FirstOf({k \in 0 .. n - 1 : At(p, k) = 0}, n)
        [] find.name = "any_of" -> \E i \in DOMAIN p : p[i].key = 0
        [] find.name = "search" -> FirstOf({k \in Places : Occurs(k)}, n)
        [] find.name = "find_end" -> LastOf({k \in Places : Occurs(k)}, n)
        [] find.name = "search_n" -> FirstOf({k \in Places : Occurs(k)}, n)
        [] find.name = "is_heap_until" -> LastOf({k \in Places : IsHeap(k)}, n)
        [] find.name = "mismatch" -> LastOf({k \in 0 .. Within(n, Len(q)) : SameUpTo(k)}, n)
        [] find.name = "equal" -> Alike(p) = Alike(q)
        [] find.name = "includes" -> \A v \in SortKeys : Counts0(p, v) >= Counts0(q, v)
        [] OTHER -> \/ n < Len(q) /\ SameUpTo(n)
                    \/ \E k \in 0 .. Within(n, Len(q)) - 1 : SameUpTo(k) /\ At(p, k) < At(q, k)

\* search_n() with a count below one
SeeksNone == find.name = "search_n" /\ find.q = <<>>

\* However the range was cut, and in whatever order the blocks ran, the answer
\* is that of the serial function, but for a search_n() that seeks no elements.
AnswersAsSerial == AllDone /\ ~SeeksNone => FindAnswer = Wanted

\* What a block has found and stored is never lost to another block: when it
\* is through, the extremum is at least as good.
HitNotLost ==
  find.name \in FindCalls =>
    \A i \in DOMAIN blocks :
       blocks[i].stage = "done" /\ blocks[i].hit # blocks[i].last =>
         shared = blocks[i].hit \/ Comp(shared, blocks[i].hit)

\* The variable that the blocks share, and the answer that is made of it.
FindInv == AnswersAsSerial /\ HitNotLost

=============================================================================
