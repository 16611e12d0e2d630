---------------------------- MODULE ScanPatterns ----------------------------
(***************************************************************************)
(* What pstl/algorithm_impl.h builds on __parallel_strict_scan() of        *)
(* pstl/parallel_backend_tbb.h: a sweep up a tree of tiles reduces each of *)
(* them once, and a sweep down scans each of them once.  Tiles of one      *)
(* sweep run in any order or at the same time: their writes are kept as a  *)
(* sequence of <<place, element>>, to see that no two of them meet.        *)
(***************************************************************************)
EXTENDS Naturals, Sequences, FiniteSets, SequencesExt, Elements

CONSTANTS MaxScan1, MaxScan2,  \* lengths of the ranges, at most
          Workers,             \* values of max_concurrency()
          SetCutOff            \* __set_algo_cut_off

ASSUME ScanOK == Workers \subseteq Nat \ {0} /\ SetCutOff \in Nat \ {0}

VARIABLES scanCall,  \* the function, its ranges, and the number of workers
          outcome    \* what it writes and returns

scanVars == <<scanCall, outcome>>

Counted == {"copy_if", "unique_copy", "partition_copy", "remove_if", "unique"}
SetCalls == {"set_union", "set_intersection", "set_difference", "set_symmetric_difference"}
Nothing == [writes |-> <<>>, others |-> <<>>, buffer |-> <<>>, size |-> 0, total |-> 0]

Rising(s) == \A i \in 1 .. Len(s) - 1 : s[i].key <= s[i + 1].key
Part(s, first, last) == SubSeq(s, first, last - 1)
Past(s) == Len(s) + 1
Lower(s, first, x) == BoundLoop(s, first, Past(s) - first, x, FALSE)
Upper(s, first, x) == BoundLoop(s, first, Past(s) - first, x, TRUE)
\* The writes of the sequence s from a place on.
WritesOf(s, place) == [i \in 1 .. Len(s) |-> <<place + i, s[i]>>]

ScanInit ==
  /\ \E name \in Counted \cup SetCalls, n \in 0 .. MaxScan1, m \in 0 .. MaxScan2, w \in Workers :
       \E p \in Inputs(n), q \in Inputs(m) :
          /\ name \in Counted => m = 0
          /\ name \in SetCalls => Rising(p) /\ Rising(q)
          /\ scanCall = [name |-> name, p |-> p, workers |-> w,
                         q |-> [i \in 1 .. m |-> [q[i] EXCEPT !.tag = @ + MaxScan1]]]
  /\ outcome = <<>>

-----------------------------------------------------------------------------
(* What the patterns count: the elements that the mask keeps               *)

Kept(x) == x.key # 0

\* Wrong: of equal elements the last one stays.
ComparesNext(name, s) ==
  [i \in DOMAIN s |-> IF name \in {"unique_copy", "unique"} THEN i = Len(s) \/ s[i].key # s[i + 1].key
                      ELSE Kept(s[i])]

Mask(name, s) ==
  [i \in DOMAIN s |-> IF name \in {"unique_copy", "unique"} THEN i = 1 \/ s[i].key # s[i - 1].key
                      ELSE Kept(s[i])]
CountIn(mask, first, last) == Cardinality({i \in first .. last - 1 : mask[i]})
Chosen(s, mask, first, last, want) ==
  LET places == {i \in first .. last - 1 : mask[i] = want}
  IN  [k \in 1 .. Cardinality(places) |->
         s[CHOOSE i \in places : Cardinality({j \in places : j <= i}) = k]]

-----------------------------------------------------------------------------
(* __parallel_set_op: a tile of the first range, and what corresponds to   *)
(* it in the second one                                                    *)

\* The size function, of the lengths of two prefixes.
SizeFor(name, n, m) ==
  CASE name = "set_intersection" -> IF n <= m THEN n ELSE m
    [] name = "set_difference" -> n
    [] OTHER -> n + m

\* Equal elements all go with the tile in which they begin.
BehindEqual(p, b) == IF b \in {1, Past(p)} THEN b ELSE Upper(p, b, p[b])

\* From where on, and up to where, the second range goes with [b, e) of the first.
BeginIn(q, p, b, e) ==
  IF b = Past(p) THEN Past(q) ELSE IF b = 1 /\ e > b THEN 1 ELSE Lower(q, 1, p[b])
EndIn(q, p, bb, e) == IF e = Past(p) THEN Past(q) ELSE Lower(q, bb, p[e])

TileWith(op, b, bb, piece) ==
  [pos |-> 0, len |-> Len(piece), buf |-> SizeFor(op.name, b - 1, bb - 1), piece |-> piece]

Corresponding(op, p, q, b, e, bb) ==
  LET y == Part(q, bb, EndIn(q, p, bb, e))
  IN  TileWith(op, b, bb, IF e <= b THEN <<>>
                          ELSE IF op.swapped THEN Combined(op.name, y, Part(p, b, e))
                          ELSE Combined(op.name, Part(p, b, e), y))

SetTile(op, p, q, first, last) ==
  LET b == BehindEqual(p, first)
      e == BehindEqual(p, last)
  IN  Corresponding(op, p, q, b, e, BeginIn(q, p, b, e))

\* The last piece of both that is not empty, and where it belongs.
SetCombine(a, b) ==
  IF b.buf > a.buf \/ (b.buf = a.buf /\ b.len # 0)
  THEN [b EXCEPT !.pos = a.pos + a.len + b.pos]
  ELSE [a EXCEPT !.pos = b.pos + b.len + a.pos]

-----------------------------------------------------------------------------
(* The two sweeps.  An op has its name, its ranges, and the mask.          *)

ScanReduce(op, i, len) ==
  CASE op.name \in SetCalls -> SetTile(op, op.p, op.q, i + 1, i + len + 1)
    [] op.name = "partition_copy" ->
         LET n == CountIn(op.mask, i + 1, i + len + 1) IN <<n, len - n>>
    [] OTHER -> CountIn(op.mask, i + 1, i + len + 1)

ScanCombine(op, x, y) ==
  CASE op.name \in SetCalls -> SetCombine(x, y)
    [] op.name = "partition_copy" -> <<x[1] + y[1], x[2] + y[2]>>
    [] OTHER -> x + y

ScanInitial(op) == CASE op.name \in SetCalls -> [pos |-> 0, len |-> 0, buf |-> 0, piece |-> <<>>]
                     [] op.name = "partition_copy" -> <<0, 0>>
                     [] OTHER -> 0

\* __split(): the power of two that is less than m, and at least half of it
SplitSize(m) == CHOOSE k \in {1, 2, 4, 8, 16} : k < m /\ 2 * k >= m

RECURSIVE Upsweep(_, _, _, _, _)
Upsweep(op, i, m, tile, last) ==
  LET k == SplitSize(m)
      r == Upsweep(op, i, k, tile, tile) \o Upsweep(op, i + k, m - k, tile, last)
  IN  IF m = 1 THEN <<ScanReduce(op, i * tile, last)>>
      ELSE IF m = 2 * k THEN [r EXCEPT ![m] = ScanCombine(op, r[k], r[m])]
      ELSE r

StartRight(op, initial, left) == ScanCombine(op, initial, left)

\* The scans, with what each of them is given.
RECURSIVE Downsweep(_, _, _, _, _, _, _)
Downsweep(op, i, m, tile, r, last, initial) ==
  LET k == SplitSize(m)
  IN  IF m = 1 THEN <<[i |-> i * tile, len |-> last, initial |-> initial]>>
      ELSE Downsweep(op, i, k, tile, r, tile, initial)
           \o Downsweep(op, i + k, m - k, tile, SubSeq(r, k + 1, Len(r)), last,
                        StartRight(op, initial, r[k]))

\* k &= k - 1
ClearLowest(k) == k - (CHOOSE b \in {1, 2, 4, 8, 16} : k % b = 0 /\ k % (2 * b) # 0)
RECURSIVE ApexSum(_, _, _, _)
ApexSum(op, r, k, t) ==
  LET next == ClearLowest(k)
  IN  IF next = 0 THEN t ELSE ApexSum(op, r, next, ScanCombine(op, r[next], t))

TileSize(n, workers) == (n - 1) \div (4 * workers) + 1

\* The scans and the total, after the sweep up
ScanTiles(op, n, tile, m, r, initial) ==
  IF n > 1
  THEN [scans |-> Downsweep(op, 0, m + 1, tile, r, n - m * tile, initial),
        total |-> ScanCombine(op, initial, ApexSum(op, r, m + 1, r[m + 1]))]
  ELSE IF n = 1
  THEN [scans |-> <<[i |-> 0, len |-> 1, initial |-> initial]>>,
        total |-> ScanCombine(op, initial, ScanReduce(op, 0, 1))]
  ELSE [scans |-> <<>>, total |-> initial]

\* __parallel_strict_scan() of n elements
StrictScan(op, n, workers) ==
  LET tile == TileSize(n, workers)
      m == (n - 1) \div tile
  IN  ScanTiles(op, n, tile, m, IF n > 1 THEN Upsweep(op, 0, m + 1, tile, n - m * tile) ELSE <<>>,
                ScanInitial(op))

-----------------------------------------------------------------------------
(* The patterns                                                            *)

\* What each tile of the scan writes, from where its initial value says.
CountedWrites(s, mask, pair, scan) ==
  LET Run(t, want, place) == WritesOf(Chosen(s, mask, t.i + 1, t.i + t.len + 1, want), place)
  IN  [Nothing EXCEPT
         !.writes = FlattenSeq([k \in DOMAIN scan.scans |->
                      LET t == scan.scans[k] IN Run(t, TRUE, IF pair THEN t.initial[1] ELSE t.initial)]),
         !.others = IF pair THEN FlattenSeq([k \in DOMAIN scan.scans |->
                                   LET t == scan.scans[k] IN Run(t, FALSE, t.initial[2])])
                    ELSE <<>>,
         !.total = IF pair THEN scan.total[1] ELSE scan.total]

\* __pattern_copy_if, __pattern_unique_copy, __pattern_partition_copy, and the
\* second step of __remove_elements
CopyCounted(name, s, mask, workers) ==
  CountedWrites(s, mask, name = "partition_copy",
                StrictScan([name |-> name, mask |-> mask], Len(s), workers))

\* __remove_elements: from the first one on that goes, the others are moved to
\* a buffer and back; unique() leaves its first element out of this.
RemoveElements(name, s, mask, workers) ==
  LET gone == {i \in DOMAIN s : ~mask[i]}
      min == CHOOSE i \in gone : \A j \in gone : i <= j
      moved == CopyCounted(name, SubSeq(s, min, Len(s)), SubSeq(mask, min, Len(s)), workers)
  IN  IF gone = {} THEN [Nothing EXCEPT !.writes = WritesOf(s, 0), !.total = Len(s)]
      ELSE [moved EXCEPT
              !.writes = WritesOf(SubSeq(s, 1, min - 1), 0)
                         \o [k \in DOMAIN @ |-> <<@[k][1] + min - 1, @[k][2]>>],
              !.total = @ + min - 1]

\* What the tiles construct in the buffer.
SetBuffer(op, p, q, tile) ==
  FlattenSeq([k \in 1 .. (Len(p) - 1) \div tile + 1 |->
     LET last == IF k * tile < Len(p) THEN k * tile ELSE Len(p)
         t == SetTile(op, p, q, (k - 1) * tile + 1, last + 1)
     IN  WritesOf(t.piece, t.buf)])

\* Behind every element that is copied to the result the next piece begins.
SetWrites(place, scan) ==
  LET moves == [k \in DOMAIN scan.scans |-> scan.scans[k].initial] \o <<scan.total>>
  IN  [Nothing EXCEPT
         !.writes = FlattenSeq([k \in DOMAIN moves |-> WritesOf(moves[k].piece, place + moves[k].pos)]),
         !.total = place + scan.total.pos + scan.total.len]

ParallelSetOp(name, swapped, p, q, place, workers) ==
  LET op == [name |-> name, swapped |-> swapped, p |-> p, q |-> q]
      n == Len(p)
  IN  [SetWrites(place, StrictScan(op, n, workers)) EXCEPT
         !.buffer = SetBuffer(op, p, q, TileSize(n, workers)),
         !.size = SizeFor(name, n, Len(q))]

Copied(s, place) == [Nothing EXCEPT !.writes = WritesOf(s, place), !.total = place + Len(s)]
Both(x, y) == [y EXCEPT !.writes = x.writes \o @]

\* __parallel_set_union_op
UnionOp(name, p, q, w) ==
  LET left1 == Lower(p, 1, q[1])  left2 == Lower(q, 1, p[1])
      m1 == left1 - 1  m2 == left2 - 1
  IN  IF q = <<>> THEN Copied(p, 0)
      ELSE IF p = <<>> THEN Copied(q, 0)
      ELSE IF left1 = Past(p) THEN Both(Copied(p, 0), Copied(q, Len(p)))
      ELSE IF left2 = Past(q) THEN Both(Copied(q, 0), Copied(p, Len(q)))
      ELSE IF m1 > SetCutOff
      THEN Both(Copied(SubSeq(p, 1, m1), 0),
                ParallelSetOp(name, FALSE, SubSeq(p, left1, Len(p)), q, m1, w))
      ELSE IF m2 > SetCutOff
      THEN Both(Copied(SubSeq(q, 1, m2), 0),
                ParallelSetOp(name, FALSE, p, SubSeq(q, left2, Len(q)), m2, w))
      ELSE ParallelSetOp(name, FALSE, p, q, 0, w)

\* __pattern_set_intersection
Intersection(p, q, w) ==
  LET left1 == Lower(p, 1, q[1])  left2 == Lower(q, 1, p[1])
      rest1 == SubSeq(p, left1, Len(p))  rest2 == SubSeq(q, left2, Len(q))
      name == "set_intersection"
  IN  IF p = <<>> \/ q = <<>> THEN Nothing
      ELSE IF left1 = Past(p) \/ left2 = Past(q) THEN Nothing
      ELSE IF Len(rest1) + Len(q) > SetCutOff THEN ParallelSetOp(name, FALSE, rest1, q, 0, w)
      ELSE IF Len(rest2) + Len(p) > SetCutOff THEN ParallelSetOp(name, TRUE, p, rest2, 0, w)
      ELSE Copied(Combined(name, rest1, rest2), 0)

\* __pattern_set_difference
SetDifference(p, q, w) ==
  IF p = <<>> THEN Nothing
  ELSE IF q = <<>> THEN Copied(p, 0)
  ELSE IF Lower(p, 1, q[1]) = Past(p) \/ Lower(q, 1, p[1]) = Past(q) THEN Copied(p, 0)
  ELSE IF Len(p) + Len(q) > SetCutOff THEN ParallelSetOp("set_difference", FALSE, p, q, 0, w)
  ELSE Copied(Combined("set_difference", p, q), 0)

\* __pattern_set_union and __pattern_set_symmetric_difference
SetUnion(name, p, q, w) ==
  IF Len(p) + Len(q) <= SetCutOff THEN Copied(Combined(name, p, q), 0) ELSE UnionOp(name, p, q, w)

-----------------------------------------------------------------------------
Scan(names, value) == /\ scanCall.name \in names /\ outcome = <<>>
                      /\ outcome' = <<value>>
                      /\ UNCHANGED scanCall

ScanNext ==
  LET p == scanCall.p  q == scanCall.q  w == scanCall.workers  name == scanCall.name
  IN  \/ Scan({"copy_if", "unique_copy", "partition_copy"}, CopyCounted(name, p, Mask(name, p), w))
      \/ Scan({"remove_if", "unique"}, RemoveElements(name, p, Mask(name, p), w))
      \/ Scan({"set_union", "set_symmetric_difference"}, SetUnion(name, p, q, w))
      \/ Scan({"set_intersection"}, Intersection(p, q, w))
      \/ Scan({"set_difference"}, SetDifference(p, q, w))

ScanSpec == ScanInit /\ [][ScanNext]_scanVars

-----------------------------------------------------------------------------
(* Properties                                                              *)

Has(names) == outcome # <<>> /\ scanCall.name \in names
\* No two writes meet, and they leave no gap.
Covers(writes, n) == Len(writes) = n /\ {writes[i][1] : i \in DOMAIN writes} = 1 .. n
Result(writes) == [k \in 1 .. Len(writes) |->
                     writes[CHOOSE i \in DOMAIN writes : writes[i][1] = k][2]]

\* Every place of the result is written once, by one of the tiles.
WrittenOnce ==
  outcome # <<>> =>
    LET o == outcome[1]
    IN  /\ Covers(o.writes, o.total)
        /\ scanCall.name = "partition_copy" => Covers(o.others, Len(scanCall.p) - o.total)

\* The pieces that the tiles of a set operation construct lie apart in the
\* buffer, and inside of it.
BufferApart ==
  Has(SetCalls) =>
    LET b == outcome[1].buffer
    IN  /\ Cardinality({b[i][1] : i \in DOMAIN b}) = Len(b)
        /\ \A i \in DOMAIN b : b[i][1] \in 1 .. outcome[1].size

\* What the serial functions keep, element by element.
Serially(name, s, want) ==
  LET Keep(x, kept) == IF name \in {"unique_copy", "unique"} THEN kept = <<>> \/ Last(kept).key # x.key
                       ELSE Kept(x) = want
  IN  FoldLeft(LAMBDA kept, x : IF Keep(x, kept) THEN Append(kept, x) ELSE kept, <<>>, s)

\* The elements that are kept are those that the serial function keeps, in order.
KeepsAsSerial ==
  Has(Counted) =>
    /\ Result(outcome[1].writes) = Serially(scanCall.name, scanCall.p, TRUE)
    /\ scanCall.name = "partition_copy" =>
         Result(outcome[1].others) = Serially(scanCall.name, scanCall.p, FALSE)

Times(s, k) == Cardinality({i \in DOMAIN s : s[i].key = k})
Excess(m, n) == IF m > n THEN m - n ELSE 0

\* A set operation has as many of equal elements as it must have, in order.
SetsRight ==
  Has(SetCalls) =>
    LET r == Result(outcome[1].writes)
    IN  /\ Rising(r) /\ IsInjective(r)
        /\ \A k \in SortKeys :
             LET m == Times(scanCall.p, k)  n == Times(scanCall.q, k)
             IN  Times(r, k) = CASE scanCall.name = "set_union" -> m + Excess(n, m)
                                 [] scanCall.name = "set_intersection" -> m - Excess(m, n)
                                 [] scanCall.name = "set_difference" -> Excess(m, n)
                                 [] OTHER -> Excess(m, n) + Excess(n, m)

\* What is in both ranges is taken from the first.
FromFirst ==
  Has({"set_intersection"}) =>
    \A i \in DOMAIN outcome[1].writes : outcome[1].writes[i][2].tag <= MaxScan1

\* What the tiles write, and where, for the serial result.
ScanInv == WrittenOnce /\ BufferApart /\ KeepsAsSerial /\ SetsRight

=============================================================================
