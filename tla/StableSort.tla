----------------------------- MODULE StableSort -----------------------------
(***************************************************************************)
(* stable_sort(), inplace_merge(), stable_partition(), partition() and     *)
(* rotate() of bits/stl_algo.h.  They work with whatever buffer they get,  *)
(* which may be smaller than they asked for, or none: the way an element   *)
(* takes changes, and where it arrives must not.                           *)
(***************************************************************************)
EXTENDS Naturals, Sequences, SequencesExt, Elements

CONSTANTS MaxRun,     \* the length of a sequence, at most
          Chunk,      \* _S_chunk_size
          FewInplace  \* 15 in __inplace_stable_sort()

ASSUME ChunkOK == Chunk \in Nat \ {0} /\ FewInplace \in Nat \ {0, 1}

VARIABLES job,    \* the function, the kind of iterators, the middle, the buffer's size
          run,    \* the elements
          result  \* the position that the function returns, 0 until then

stableVars == <<job, run, result>>
Categories == {"forward", "bidirectional", "random"}

StableInit ==
  /\ \E n \in 1 .. MaxRun : /\ run \in Inputs(n)
                            /\ job \in [name : {"rotate", "partition", "stable_partition",
                                                "inplace_merge", "stable_sort"},
                                        cat : Categories, middle : 1 .. n + 1, buffer : 0 .. n]
  /\ job.name = "stable_sort" => job.cat = "random" /\ job.middle = 1
                                 /\ job.buffer <= (Len(run) + 1) \div 2
  /\ job.name = "inplace_merge" =>
        /\ job.cat # "forward" /\ job.buffer < job.middle
        /\ job.buffer <= Len(run) + 1 - job.middle
        /\ \A i \in 1 .. Len(run) - 1 : i + 1 # job.middle => ~Less(run[i + 1], run[i])
  /\ job.name \in {"rotate", "partition"} => job.buffer = 0
  /\ job.name \in {"partition", "stable_partition"} => job.middle = 1
  /\ result = 0

Pred(x) == x.key % 2 = 0
Piece(s, first, last) == SubSeq(s, first, last - 1)
\* q is written to s at first.
PutAt(s, first, q) == SubSeq(s, 1, first - 1) \o q \o SubSeq(s, first + Len(q), Len(s))
Smaller(x, y) == IF x < y THEN x ELSE y

-----------------------------------------------------------------------------
(* rotate(): each returns the sequence and where its first element went     *)

Turned(s, at) == [s |-> s, at |-> at]
SwapRanges(s, f, g, n) == PutAt(PutAt(s, f, Piece(s, g, g + n)), g, Piece(s, f, f + n))

\* The loops of the version for forward iterators; at is 0 in the first one.
RECURSIVE RotateLoop(_, _, _, _, _, _)
RotateLoop(s, first, first2, middle, last, at) ==
  IF first2 = last
  THEN IF at # 0 THEN Turned(s, at)
       ELSE IF middle = last THEN Turned(s, first)
       ELSE RotateLoop(s, first, middle, middle, last, first)
  ELSE LET m == IF first + 1 = middle THEN first2 + 1 ELSE middle
           back == at # 0 /\ first + 1 # middle /\ first2 + 1 = last
       IN  RotateLoop(Exchange2(s, first, first2), first + 1,
                      IF back THEN middle ELSE first2 + 1, m, last, at)

Reversed(s, first, last) == PutAt(s, first, Reverse(Piece(s, first, last)))

\* The loop for bidirectional iterators, after both parts were reversed.
RECURSIVE ReverseLoop(_, _, _, _)
ReverseLoop(s, first, middle, last) ==
  IF first # middle /\ middle # last
  THEN ReverseLoop(Exchange2(s, first, last - 1), first + 1, middle, last - 1)
  ELSE IF first = middle THEN Turned(Reversed(s, middle, last), last)
  ELSE Turned(Reversed(s, first, middle), first)

RECURSIVE SwapForward(_, _, _, _)
SwapForward(s, p, k, i) ==
  IF i = 0 THEN s ELSE SwapForward(Exchange2(s, p, p + k), p + 1, k, i - 1)
RECURSIVE SwapBackward(_, _, _, _)
SwapBackward(s, p, k, i) ==
  IF i = 0 THEN s ELSE SwapBackward(Exchange2(s, p - 1, p - 1 + k), p - 1, k, i - 1)

\* The loop for random access iterators: n elements from p on, or about p, by k.
RECURSIVE BlockLoop(_, _, _, _)
BlockLoop(s, p, n, k) ==
  IF k < n - k
  THEN LET t == SwapForward(s, p, k, n - k)
       IN  IF n % k = 0 THEN t ELSE BlockLoop(t, p + n - k, k, k - (n % k))
  ELSE LET d == n - k
           t == SwapBackward(s, p + k, d, k)
       IN  IF n % d = 0 THEN t ELSE BlockLoop(t, p, d, n % d)

TurnBlocks(s, p, n, k) == BlockLoop(s, p, n, k)

Rotate(s, first, middle, last, cat) ==
  IF first = middle THEN Turned(s, last)
  ELSE IF last = middle THEN Turned(s, first)
  ELSE CASE cat = "forward" -> RotateLoop(s, first, middle, middle, last, 0)
         [] cat = "bidirectional" ->
              ReverseLoop(Reversed(Reversed(s, first, middle), middle, last), first, middle, last)
         [] cat = "random" ->
              Turned(IF 2 * (middle - first) = last - first
                     THEN SwapRanges(s, first, middle, middle - first)
                     ELSE TurnBlocks(s, first, last - first, middle - first),
                     first + (last - middle))

-----------------------------------------------------------------------------
(* partition()                                                             *)

\* The loop for forward iterators, with first at an element that is not wanted.
RECURSIVE PullForward(_, _, _)
PullForward(s, first, next) ==
  IF next > Len(s) THEN Turned(s, first)
  ELSE IF Pred(s[next]) THEN PullForward(Exchange2(s, first, next), first + 1, next + 1)
  ELSE PullForward(s, first, next + 1)

RECURSIVE CloseIn(_, _, _)
CloseIn(s, first, last) ==
  IF first = last THEN Turned(s, first)
  ELSE IF Pred(s[first]) THEN CloseIn(s, first + 1, last)
  ELSE IF first = last - 1 THEN Turned(s, first)
  ELSE IF ~Pred(s[last - 1]) THEN CloseIn(s, first, last - 1)
  ELSE CloseIn(Exchange2(s, first, last - 1), first + 1, last - 1)

FirstUnwanted(s, first, last) ==
  LET bad == {i \in first .. last - 1 : ~Pred(s[i])}
  IN  IF bad = {} THEN last ELSE CHOOSE i \in bad : \A j \in bad : i <= j

Partition(s, cat) ==
  IF cat = "forward" THEN LET f == FirstUnwanted(s, 1, Len(s) + 1) IN PullForward(s, f, f + 1)
  ELSE CloseIn(s, 1, Len(s) + 1)

\* __stable_partition_adaptive(): the first element is not wanted.
RECURSIVE PartitionAdaptive(_, _, _, _, _, _)
PartitionAdaptive(s, first, last, len, buf, cat) ==
  IF len = 1 THEN Turned(s, first)
  ELSE IF len <= buf
  THEN LET rest == Piece(s, first + 1, last)
           good == SelectSeq(rest, Pred)
       IN  Turned(PutAt(s, first, good \o <<s[first]>> \o SelectSeq(rest, LAMBDA x : ~Pred(x))),
                  first + Len(good))
  ELSE LET middle == first + len \div 2
           left == PartitionAdaptive(s, first, middle, len \div 2, buf, cat)
           f == FirstUnwanted(left.s, middle, last)
           right == IF f = last THEN Turned(left.s, last)
                    ELSE PartitionAdaptive(left.s, f, last, last - f, buf, cat)
       IN  Rotate(right.s, left.at, middle, right.at, cat)

StablePartition(s, buf, cat) ==
  LET f == FirstUnwanted(s, 1, Len(s) + 1)
  IN  IF f > Len(s) THEN Turned(s, f)
      ELSE PartitionAdaptive(s, f, Len(s) + 1, Len(s) + 1 - f, buf, cat)

-----------------------------------------------------------------------------
(* Merges                                                                  *)

\* __move_merge() and __move_merge_adaptive()
RECURSIVE MoveMerge(_, _)
MoveMerge(p, q) == IF p = <<>> THEN q
                   ELSE IF q = <<>> THEN p
                   ELSE IF Less(q[1], p[1]) THEN <<q[1]>> \o MoveMerge(p, Tail(q))
                   ELSE <<p[1]>> \o MoveMerge(Tail(p), q)

\* __move_merge_adaptive_backward()
RECURSIVE MergeBackward(_, _)
MergeBackward(p, q) == IF p = <<>> THEN q
                       ELSE IF q = <<>> THEN p
                       ELSE IF Less(Last(q), Last(p)) THEN Append(MergeBackward(Front(p), q), Last(p))
                       ELSE Append(MergeBackward(p, Front(q)), Last(q))

\* Where both parts are cut: half of the longer one, and what fits to it.
Cuts(s, first, middle, last) ==
  IF middle - first > last - middle
  THEN LET c == first + (middle - first) \div 2
       IN  [one |-> c, two |-> BoundLoop(s, middle, last - middle, s[c], FALSE)]
  ELSE LET c == middle + (last - middle) \div 2
       IN  [one |-> BoundLoop(s, first, middle - first, s[c], TRUE), two |-> c]

\* Wrong: the element at the cut of the second part is compared the other way.
CutsLow(s, first, middle, last) ==
  IF middle - first > last - middle THEN Cuts(s, first, middle, last)
  ELSE LET c == middle + (last - middle) \div 2
       IN  [one |-> BoundLoop(s, first, middle - first, s[c], FALSE), two |-> c]

MergeCuts(s, first, middle, last) == Cuts(s, first, middle, last)

\* __rotate_adaptive()
RotateAdaptive(s, first, middle, last, buf, cat) ==
  IF (middle - first > last - middle /\ last - middle <= buf) \/ middle - first <= buf
  THEN Turned(PutAt(s, first, Piece(s, middle, last) \o Piece(s, first, middle)),
              first + (last - middle))
  ELSE Rotate(s, first, middle, last, cat)

RECURSIVE MergeAdaptive(_, _, _, _, _, _)
MergeAdaptive(s, first, middle, last, buf, cat) ==
  LET p == Piece(s, first, middle)  q == Piece(s, middle, last)
      c == MergeCuts(s, first, middle, last)
      r == RotateAdaptive(s, c.one, middle, c.two, buf, cat)
  IN  IF Len(p) <= Len(q) /\ Len(p) <= buf THEN PutAt(s, first, MoveMerge(p, q))
      ELSE IF Len(q) <= buf THEN PutAt(s, first, MergeBackward(p, q))
      ELSE MergeAdaptive(MergeAdaptive(r.s, first, c.one, r.at, buf, cat),
                         r.at, c.two, last, buf, cat)

RECURSIVE MergeWithoutBuffer(_, _, _, _, _)
MergeWithoutBuffer(s, first, middle, last, cat) ==
  LET c == MergeCuts(s, first, middle, last)
      r == Rotate(s, c.one, middle, c.two, cat)
  IN  IF first = middle \/ middle = last THEN s
      ELSE IF last - first = 2 THEN IF Less(s[middle], s[first]) THEN Exchange2(s, first, middle) ELSE s
      ELSE MergeWithoutBuffer(MergeWithoutBuffer(r.s, first, c.one, r.at, cat),
                              r.at, c.two, last, cat)

-----------------------------------------------------------------------------
(* stable_sort()                                                           *)

\* __merge_sort_loop()
RECURSIVE MergeSortLoop(_, _)
MergeSortLoop(q, step) ==
  IF Len(q) >= 2 * step
  THEN MoveMerge(SubSeq(q, 1, step), SubSeq(q, step + 1, 2 * step))
       \o MergeSortLoop(SubSeq(q, 2 * step + 1, Len(q)), step)
  ELSE LET rest == Smaller(Len(q), step)
       IN  MoveMerge(SubSeq(q, 1, rest), SubSeq(q, rest + 1, Len(q)))

\* __chunk_insertion_sort()
RECURSIVE SortChunks(_)
SortChunks(q) == IF Len(q) < Chunk THEN InsertionFrom(q, 1, Len(q) + 1, 2)
                 ELSE LET c == SubSeq(q, 1, Chunk)
                      IN  InsertionFrom(c, 1, Chunk + 1, 2) \o SortChunks(SubSeq(q, Chunk + 1, Len(q)))

RECURSIVE DoubleSteps(_, _)
DoubleSteps(q, step) ==
  IF step < Len(q) THEN DoubleSteps(MergeSortLoop(MergeSortLoop(q, step), 2 * step), 4 * step) ELSE q

\* __merge_sort_with_buffer(); nothing comes back from a buffer that is too small.
SortWithBuffer(q, buf) == IF Len(q) > buf THEN q ELSE DoubleSteps(SortChunks(q), Chunk)

RECURSIVE SortAdaptive(_, _)
SortAdaptive(q, buf) ==
  LET len == (Len(q) + 1) \div 2
      p == SubSeq(q, 1, len)  r == SubSeq(q, len + 1, Len(q))
      halves == IF len > buf THEN SortAdaptive(p, buf) \o SortAdaptive(r, buf)
                ELSE SortWithBuffer(p, buf) \o SortWithBuffer(r, buf)
  IN  MergeAdaptive(halves, 1, len + 1, Len(q) + 1, buf, "random")

RECURSIVE InplaceStableSort(_)
InplaceStableSort(q) ==
  IF Len(q) < FewInplace THEN InsertionFrom(q, 1, Len(q) + 1, 2)
  ELSE LET m == Len(q) \div 2
       IN  MergeWithoutBuffer(InplaceStableSort(SubSeq(q, 1, m))
                                \o InplaceStableSort(SubSeq(q, m + 1, Len(q))),
                              1, m + 1, Len(q) + 1, "random")

\* inplace_merge() and stable_sort() return nothing.
InplaceMerge(s, middle, buf, cat) ==
  IF middle = 1 \/ middle = Len(s) + 1 THEN s
  ELSE IF buf = 0 THEN MergeWithoutBuffer(s, 1, middle, Len(s) + 1, cat)
  ELSE MergeAdaptive(s, 1, middle, Len(s) + 1, buf, cat)

Call(name, outcome) ==
  /\ job.name = name /\ result = 0
  /\ run' = outcome.s /\ result' = outcome.at
  /\ UNCHANGED job

StableNext ==
  \/ Call("rotate", Rotate(run, 1, job.middle, Len(run) + 1, job.cat))
  \/ Call("partition", Partition(run, job.cat))
  \/ Call("stable_partition", StablePartition(run, job.buffer, job.cat))
  \/ Call("inplace_merge", Turned(InplaceMerge(run, job.middle, job.buffer, job.cat), 1))
  \/ Call("stable_sort", Turned(IF job.buffer = 0 THEN InplaceStableSort(run)
                                ELSE SortAdaptive(run, job.buffer), 1))

StableSpec == StableInit /\ [][StableNext]_stableVars

-----------------------------------------------------------------------------
(* Properties                                                              *)

Finished(names) == result # 0 /\ job.name \in names

\* All versions of rotate() put the same element in each place, and return where
\* the one went that was first.
RotatesByMiddle ==
  Finished({"rotate"}) =>
    /\ \A i \in DOMAIN run : run[i].tag = ((i + job.middle - 2) % Len(run)) + 1
    /\ result = Len(run) + 2 - job.middle

\* Both kinds of partition divide at the position that they return, and lose
\* nothing; one of them keeps the order on both sides.
PartitionDivides ==
  Finished({"partition", "stable_partition"}) =>
    /\ {run[i].tag : i \in DOMAIN run} = DOMAIN run
    /\ \A i \in DOMAIN run : Pred(run[i]) <=> i < result
    /\ job.name = "stable_partition" =>
         \A i, j \in DOMAIN run :
           (i < j /\ (i < result <=> j < result)) => run[i].tag < run[j].tag

\* Whatever the buffer, all is in order, and equal elements keep theirs.
SortedAndStable ==
  Finished({"inplace_merge", "stable_sort"}) =>
    /\ {run[i].tag : i \in DOMAIN run} = DOMAIN run
    /\ \A i, j \in DOMAIN run : i < j =>
         Less(run[i], run[j]) \/ (run[i].key = run[j].key /\ run[i].tag < run[j].tag)

\* Rotations, and the partitions and merges built on them, with a buffer of any size.
StableInv == RotatesByMiddle /\ PartitionDivides /\ SortedAndStable

=============================================================================
