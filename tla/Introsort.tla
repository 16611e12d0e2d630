----------------------------- MODULE Introsort ------------------------------
(***************************************************************************)
(* sort(), nth_element(), partial_sort() and the heap operations of        *)
(* bits/stl_algo.h and bits/stl_heap.h.  Scans and insertions that no      *)
(* bound guards rely on an element that stops them, and the recursion on   *)
(* its depth limit.  A step is one round of a loop.                        *)
(***************************************************************************)
EXTENDS Naturals, Sequences, FiniteSets, Elements

CONSTANTS MaxLen,     \* the length of what is sorted, at most
          QueueLen,   \* the same for sequences of heap operations
          Threshold,  \* _S_threshold
          Depths      \* depth limits of the first frame

ASSUME ThresholdOK == Threshold \in Nat /\ Threshold >= 3
ASSUME LengthsOK == MaxLen \in Nat /\ QueueLen \in Nat /\ Depths \subseteq Nat

VARIABLES algo,    \* the function that was called
          a,       \* the elements; tag is where one was at the beginning
          nth,     \* the argument of nth_element() and partial_sort()
          frames,  \* the ranges that __introsort_loop() has to do, innermost first
          scan,    \* __first, __last and the end of __unguarded_partition()
          phase,
          size     \* the next to insert, or the length of the heap

sortVars == <<algo, a, nth, frames, scan, phase, size>>

NoScan == [lo |-> 0, hi |-> 0]
Frame(first, last, depth) == [first |-> first, last |-> last, depth |-> depth]

SortInit ==
  /\ algo \in {"sort", "nth_element", "partial_sort", "heap"}
  /\ \E n \in 1 .. (IF algo = "heap" THEN QueueLen ELSE MaxLen) :
        /\ a \in Inputs(n)
        /\ nth \in CASE algo = "nth_element" -> 1 .. n
                   [] algo = "partial_sort" -> 1 .. n + 1
                   [] OTHER -> {1}
        /\ \E d \in (IF algo \in {"sort", "nth_element"} THEN Depths ELSE {0}) :
              frames = <<Frame(1, n + 1, d)>>
  /\ scan = NoScan /\ phase = "loop" /\ size = 0

-----------------------------------------------------------------------------
(* Heaps: the heap of length len begins at position first                  *)

Parent(h) == (h - 1) \div 2

\* The first loop of __push_heap(): the places that the hole comes to on its way
\* up, which ends below a parent that is not less than value.
HolesUp(s, first, hole, top, value) ==
  LET Up[h \in 0 .. hole] ==
        {h} \cup IF h > top /\ Less(s[first + Parent(h)], value) THEN Up[Parent(h)] ELSE {}
  IN  Up[hole]

\* __push_heap(): what the hole leaves a place for comes down to where it was.
PushHeap(s, first, hole, top, value) ==
  LET holes == HolesUp(s, first, hole, top, value)
      End(h) == \A g \in holes : h <= g
  IN  [i \in DOMAIN s |-> IF i - first \notin holes THEN s[i]
                          ELSE IF End(i - first) THEN value ELSE s[first + Parent(i - first)]]

LargerChild(s, first, h) ==
  IF Less(s[first + 2 * h + 2], s[first + 2 * h + 1]) THEN 2 * h + 1 ELSE 2 * h + 2

\* The loop of __adjust_heap(), and what follows it for a child that is alone:
\* the places that the hole comes to on its way down, always to the larger child.
HolesDown(s, first, hole, len) ==
  LET Down[h \in 0 .. len] ==
        {h} \cup IF h < (len - 1) \div 2 THEN Down[LargerChild(s, first, h)]
                 ELSE IF len % 2 = 0 /\ 2 * h + 2 = len THEN {2 * h + 1} ELSE {}
  IN  Down[hole]

\* __adjust_heap(): the larger children come up, and value is pushed from the end.
AdjustHeap(s, first, hole, len, value) ==
  LET holes == HolesDown(s, first, hole, len)
      end == CHOOSE h \in holes : \A g \in holes : g <= h
      Next1(h) == CHOOSE g \in holes \ {hole} : Parent(g) = h
      sunk == [i \in DOMAIN s |-> IF i - first \in holes \ {end} THEN s[first + Next1(i - first)] ELSE s[i]]
  IN  PushHeap(sunk, first, end, hole, value)

\* __pop_heap(): what is at result takes the place of the top, which goes there.
PopHeap(s, first, last, result) ==
  AdjustHeap([s EXCEPT ![result] = s[first]], first, 0, last - first, s[result])

\* __make_heap(): Made[p] has a heap below p and each parent behind it.
MakeHeap(s, first, last) ==
  LET len == last - first
      Made[p \in 0 .. len] ==
        IF p > Parent(len - 1) THEN s ELSE AdjustHeap(Made[p + 1], first, p, len, Made[p + 1][first + p])
  IN  IF len < 2 THEN s ELSE Made[0]

\* __sort_heap(): Popped[i] has a heap in front of i.
SortHeap(s, first, last) ==
  LET Popped[i \in first + 1 .. last] == IF i = last THEN s ELSE PopHeap(Popped[i + 1], first, i, i)
  IN  IF last - first > 1 THEN Popped[first + 1] ELSE s

\* __heap_select(): Selected[i] has looked at all in front of i.
HeapSelect(s, first, middle, last) ==
  LET Selected[i \in middle .. last] ==
        IF i = middle THEN MakeHeap(s, first, middle)
        ELSE LET t == Selected[i - 1]
             IN  IF Less(t[i - 1], t[first]) THEN PopHeap(t, first, middle, i - 1) ELSE t
  IN  Selected[last]
PartialSort(s, first, middle, last) == SortHeap(HeapSelect(s, first, middle, last), first, middle)

\* __is_heap_until() of the first n elements, at a parent and a child
HeapUntil(s, n) ==
  LET Until[at \in {q \in (0 .. n) \X (0 .. n + 1) : q[1] <= q[2]}] ==
        IF at[2] >= n THEN n
        ELSE IF Less(s[1 + at[1]], s[1 + at[2]]) THEN at[2]
        ELSE Until[<<IF at[2] % 2 = 0 THEN at[1] + 1 ELSE at[1], at[2] + 1>>]
  IN  Until[<<0, 1>>]

Push == /\ algo = "heap" /\ size < Len(a)
        /\ a' = PushHeap(a, 1, size, 0, a[size + 1])
        /\ size' = size + 1
        /\ UNCHANGED <<algo, nth, frames, scan, phase>>

Pop1 == /\ algo = "heap" /\ size > 0
        /\ a' = IF size > 1 THEN PopHeap(a, 1, size, size) ELSE a
        /\ size' = size - 1
        /\ UNCHANGED <<algo, nth, frames, scan, phase>>

MakeAll == /\ algo = "heap" /\ size = 0
           /\ a' = MakeHeap(a, 1, Len(a) + 1)
           /\ size' = Len(a)
           /\ UNCHANGED <<algo, nth, frames, scan, phase>>

SelectAll == /\ algo = "partial_sort" /\ phase = "loop"
             /\ a' = PartialSort(a, 1, nth, Len(a) + 1)
             /\ phase' = "done"
             /\ UNCHANGED <<algo, nth, frames, scan, size>>

-----------------------------------------------------------------------------
(* __introsort_loop() and __introselect()                                  *)

Sorts == algo \in {"sort", "nth_element"}
Small(f) == f.last - f.first <= IF algo = "sort" THEN Threshold ELSE 3

\* __move_median_to_first()
MedianToFirst(s, first, last) ==
  LET x == first + 1  y == first + (last - first) \div 2  z == last - 1
      m == IF Less(s[x], s[y])
           THEN IF Less(s[y], s[z]) THEN y ELSE IF Less(s[x], s[z]) THEN z ELSE x
           ELSE IF Less(s[x], s[z]) THEN x ELSE IF Less(s[y], s[z]) THEN z ELSE y
  IN  Exchange2(s, first, m)

\* The depth limit is used up: the range is sorted, or searched, with a heap.
UseHeap(f) ==
  /\ ~Small(f) /\ f.depth = 0
  /\ IF algo = "sort" THEN a' = PartialSort(a, f.first, f.last, f.last)
     ELSE a' = Exchange2(HeapSelect(a, f.first, nth + 1, f.last), f.first, nth)
  /\ frames' = Tail(frames)
  /\ phase' = IF algo = "sort" THEN phase ELSE "done"
  /\ UNCHANGED <<algo, nth, scan, size>>

Pivot(f) ==
  /\ ~Small(f) /\ f.depth > 0
  /\ a' = MedianToFirst(a, f.first, f.last)
  /\ scan' = [lo |-> f.first + 1, hi |-> f.last]
  /\ phase' = "scan"
  /\ UNCHANGED <<algo, nth, frames, size>>

LoopRound ==
  /\ Sorts /\ phase = "loop" /\ frames # <<>>
  /\ \/ UseHeap(Head(frames)) \/ Pivot(Head(frames))
     \/ /\ Small(Head(frames)) /\ algo = "sort"
        /\ frames' = Tail(frames)
        /\ UNCHANGED <<algo, a, nth, scan, phase, size>>

\* Where the two scans stop; nothing but an element stops them.
StopUp == LET stops == {i \in scan.lo .. Len(a) : ~Less(a[i], a[Head(frames).first])}
          IN  IF stops = {} THEN Len(a) + 1 ELSE CHOOSE i \in stops : \A j \in stops : i <= j
StopDown == LET stops == {i \in 1 .. scan.hi - 1 : ~Less(a[Head(frames).first], a[i])}
            IN  IF stops = {} THEN 0 ELSE CHOOSE i \in stops : \A j \in stops : i >= j

\* Wrong: the cut is where the scan from the end stopped.
CutsAtEnd(lo, hi) == hi

Cut(lo, hi) == lo

\* Frames after a partition: the recursion takes what is behind the cut first.
Parts(f, cut) ==
  IF algo = "sort" THEN <<Frame(cut, f.last, f.depth - 1), Frame(f.first, cut, f.depth - 1)>>
  ELSE IF cut <= nth THEN <<Frame(cut, f.last, f.depth - 1)>>
  ELSE <<Frame(f.first, cut, f.depth - 1)>>

\* One round of __unguarded_partition()
ScanRound ==
  /\ phase = "scan"
  /\ IF StopUp < StopDown
     THEN /\ a' = Exchange2(a, StopUp, StopDown)
          /\ scan' = [lo |-> StopUp + 1, hi |-> StopDown]
          /\ UNCHANGED <<frames, phase>>
     ELSE /\ frames' = Parts(Head(frames), Cut(StopUp, StopDown)) \o Tail(frames)
          /\ scan' = NoScan /\ phase' = "loop"
          /\ UNCHANGED a
  /\ UNCHANGED <<algo, nth, size>>

-----------------------------------------------------------------------------
(* __final_insertion_sort()                                                *)

StartInsertion ==
  /\ Sorts /\ phase = "loop"
  /\ IF algo = "sort" THEN frames = <<>> /\ size' = 2 /\ phase' = "insert" /\ UNCHANGED a
     ELSE /\ frames # <<>> /\ Small(Head(frames))
          /\ a' = InsertionFrom(a, Head(frames).first, Head(frames).last, Head(frames).first + 1)
          /\ phase' = "done" /\ UNCHANGED size
  /\ UNCHANGED <<algo, nth, frames, scan>>

\* Up to _S_threshold elements are inserted with a guard.
Guarded(i) == i <= Threshold

InsertNext ==
  /\ phase = "insert"
  /\ IF size > Len(a) THEN phase' = "done" /\ UNCHANGED <<a, size>>
     ELSE /\ a' = IF Guarded(size) THEN Inserted(a, 1, size)
                  ELSE IF PlaceFor(a, size) = 0 THEN a ELSE Moved(a, size, PlaceFor(a, size))
          /\ size' = size + 1
          /\ UNCHANGED phase
  /\ UNCHANGED <<algo, nth, frames, scan>>

SortNext == Push \/ Pop1 \/ MakeAll \/ SelectAll \/ LoopRound \/ ScanRound \/ StartInsertion
            \/ InsertNext

SortSpec == SortInit /\ [][SortNext]_sortVars

-----------------------------------------------------------------------------
(* Properties                                                              *)

\* No element is lost or doubled, whatever step comes next.
Permuted == {a[i].tag : i \in DOMAIN a} = DOMAIN a

\* No element outside of a range is out of order with one inside, so ranges can
\* be sorted one by one, or all but one be left.
RangesOrdered ==
  Sorts => \A x \in DOMAIN frames : \A i, j \in DOMAIN a :
             (i < j /\ ((i < frames[x].first) # (j < frames[x].first)
                        \/ (i < frames[x].last) # (j < frames[x].last)))
               => ~Less(a[j], a[i])

\* The scans of a partition stop within its range, and the cut leaves something
\* on both sides.
ScansStopInside ==
  phase = "scan" =>
    LET f == Head(frames)
    IN  /\ f.first < StopUp /\ StopUp < f.last
        /\ f.first <= StopDown
        /\ StopUp >= StopDown => f.first < Cut(StopUp, StopDown)

\* An element that is inserted without a guard meets one that stops it.
InsertionStops == (phase = "insert" /\ size <= Len(a) /\ ~Guarded(size)) => PlaceFor(a, size) # 0

\* What the callers get: all in order, or the nth in its place and the others on
\* their sides, or the first in order and none of the others below them.
ResultInOrder ==
  phase = "done" =>
    \A i, j \in DOMAIN a : i < j =>
      (Less(a[j], a[i]) =>
         CASE algo = "sort" -> FALSE
           [] algo = "nth_element" -> (i < nth /\ j < nth) \/ (i > nth /\ j > nth)
           [] algo = "partial_sort" -> i >= nth)

\* Whatever was pushed and popped, no child is above its parent, and is_heap() says
\* so.
HeapKept ==
  algo = "heap" => /\ \A c \in 1 .. size - 1 : ~Less(a[1 + (c - 1) \div 2], a[1 + c])
                   /\ HeapUntil(a, size) = size

\* What holds at each cut, scan and insertion of a sort, and of its result.
SortInv == /\ Permuted /\ RangesOrdered /\ ScansStopInside /\ InsertionStops
           /\ ResultInOrder /\ HeapKept

=============================================================================
