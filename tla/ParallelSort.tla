---------------------------- MODULE ParallelSort ----------------------------
(***************************************************************************)
(* The parallel stable and partial sort and the parallel merge of          *)
(* pstl/parallel_backend_tbb.h, with the tasks of TBB_INTERFACE_VERSION >  *)
(* 12000.  Sequences lie in the caller's range x (orig) and in the buffer  *)
(* z.  A step is the body of a task or its finalize().  Elements are       *)
(* numbers, par.key has their keys.                                        *)
(***************************************************************************)
EXTENDS Integers, Sequences, FiniteSets, SequencesExt

CONSTANTS ParKeys, ParLens, Partials, \* keys, lengths, and values of __nsort
          SortCutOff, MergeCutOff     \* _PSTL_STABLE_SORT_CUT_OFF, _PSTL_MERGE_CUT_OFF

ASSUME CutOffsOK == SortCutOff \in Nat \ {0} /\ MergeCutOff \in Nat \ {0, 1}
ASSUME ParLensOK == ParLens \subseteq Nat

VARIABLES par,      \* the call: mode, length n, nsort, middle and keys
          xa, za,   \* what the slots of the range and of the buffer hold
          tasks,    \* the tasks there are, by name
          parStage  \* "run", "cancelled" (the task group), "ended", "abandoned", "crashed"

parVars == <<par, xa, za, tasks, parStage>>

Hollow == -1  \* moved from
Raw == -2     \* not constructed
Root == <<"root", 0, 0>>
NoParent == <<"none", 0, 0>>

Range0(first, last) == first .. last - 1
Slots(f, first, last) == [i \in 1 .. last - first |-> f[first + i - 1]]
\* f with the sequence s written from first on.
Filled(f, first, s) ==
  [i \in DOMAIN f |-> IF i \in Range0(first, first + Len(s)) THEN s[i - first + 1] ELSE f[i]]
AllSet(f, first, last, v) == [i \in DOMAIN f |-> IF i \in Range0(first, last) THEN v ELSE f[i]]
Ordered(s) == \A i \in 1 .. Len(s) - 1 : par.key[s[i]] <= par.key[s[i + 1]]

Task(parent, xs, xe, ys, ye, zs) ==
  [parent |-> parent, refs |-> 0, state |-> "ready", xs |-> xs, xe |-> xe, ys |-> ys,
   ye |-> ye, zs |-> zs, xo |-> TRUE, yo |-> TRUE, isRoot |-> FALSE, split |-> FALSE,
   begun |-> FALSE]
First == <<IF par.mode = "merge" THEN "static" ELSE "sort", 0, par.n>>

\* __parallel_stable_sort() and __parallel_merge() of more than the cut off
ParInit ==
  /\ \E n \in ParLens, nsort \in Partials, mode \in {"sort", "merge"} :
       \E key \in [Range0(0, n) -> ParKeys], middle \in 0 .. n :
          /\ nsort < n /\ n > (IF mode = "sort" THEN SortCutOff ELSE MergeCutOff)
          /\ mode = "sort" => middle = 0
          /\ mode = "merge" => nsort = 0 /\ \A i \in 0 .. n - 2 : i + 1 # middle => key[i] <= key[i + 1]
          /\ par = [mode |-> mode, n |-> n, nsort |-> nsort, middle |-> middle, key |-> key]
  /\ xa = [i \in Range0(0, par.n) |-> i] /\ za = [i \in Range0(0, par.n) |-> Raw]
  /\ tasks = [t \in {Root, First} |->
                IF t = Root THEN [Task(NoParent, 0, 0, 0, 0, 0) EXCEPT !.refs = 1, !.state = "waiting"]
                ELSE IF par.mode = "merge" THEN Task(Root, 0, par.middle, par.middle, par.n, 0)
                ELSE [Task(Root, 0, par.n, 0, 0, 0) EXCEPT !.isRoot = TRUE]]
  /\ parStage = "run"

\* A task more
With(f, t, task) == [u \in DOMAIN f \cup {t} |-> IF u = t THEN task ELSE f[u]]

Ready(t) == t \in DOMAIN tasks /\ tasks[t].state = "ready"

\* A body that returns nullptr, or the exception that ends it.  What is begun is
\* a task that was executed and recycled: its _M_execute_data is set.
Ends(f, t) == [f EXCEPT ![t].state = "done"]

-----------------------------------------------------------------------------
(* __stable_sort_func                                                      *)

\* What the leaf sort leaves: std::stable_sort(), or std::partial_sort().
LeafSorted(s) ==
  IF par.nsort = 0
  THEN {SortSeq(s, LAMBDA i, j : par.key[i] < par.key[j] \/ (par.key[i] = par.key[j] /\ i < j))}
  ELSE {q \in SetToSeqs(ToSet(s)) :
          LET k == IF par.nsort < Len(s) THEN par.nsort ELSE Len(s)
          IN  Ordered(SubSeq(q, 1, k)) /\ \A i \in 1 .. k, j \in k + 1 .. Len(q) : par.key[q[i]] <= par.key[q[j]]}

SortLeaf(t) ==
  LET me == tasks[t]
  IN  /\ Ready(t) /\ t[1] = "sort" /\ parStage = "run"
      /\ me.xe - me.xs <= SortCutOff
      /\ \E q \in LeafSorted(Slots(xa, me.xs, me.xe)) : xa' = Filled(xa, me.xs, q)
      /\ tasks' = Ends(tasks, t)
      /\ UNCHANGED <<par, za, parStage>>

SortHalves(t) ==
  LET me == tasks[t]
      xm == me.xs + (me.xe - me.xs) \div 2
      merge == <<"merge", me.xs, me.xe>>
  IN  /\ Ready(t) /\ t[1] = "sort" /\ parStage = "run"
      /\ me.xe - me.xs > SortCutOff
      /\ tasks' = With(With([tasks EXCEPT ![t].parent = merge, ![t].isRoot = FALSE, ![t].xe = xm,
                                         ![t].begun = TRUE],
                            merge, [Task(me.parent, me.xs, xm, xm, me.xe, me.xs) EXCEPT
                                      !.refs = 2, !.state = "waiting", !.isRoot = me.isRoot]),
                       <<"sort", xm, me.xe>>, Task(merge, xm, me.xe, 0, 0, 0))
      /\ UNCHANGED <<par, xa, za, parStage>>

\* There is no memory for the continuation, or for the child: then the task
\* has already given its parent to the continuation, which is lost.
SortFails(t) ==
  /\ Ready(t) /\ t[1] = "sort" /\ parStage = "run"
  /\ tasks[t].xe - tasks[t].xs > SortCutOff
  /\ \E p \in {tasks[t].parent, NoParent} : tasks' = [Ends(tasks, t) EXCEPT ![t].parent = p]
  /\ parStage' = "cancelled"
  /\ UNCHANGED <<par, xa, za>>

-----------------------------------------------------------------------------
(* __merge_func: me is the task, with the slots x and z as far as they are *)

NX(me) == me.xe - me.xs
NY(me) == me.ye - me.ys

\* __serial_move_merge: after k elements the rest is moved as it comes.
SerialMoveMerge(p, q, k, last) ==
  LET Rest(s, i) == SubSeq(s, i, Len(s))
      From[r \in Nat \X Nat \X {"x", "y"}] ==
        LET i == r[1]  j == r[2]
        IN  IF i > Len(p) \/ j > Len(q) THEN Rest(p, i) \o Rest(q, j)
            ELSE IF i + j = k + 2
            THEN IF r[3] = "y" THEN Rest(q, j) \o Rest(p, i) ELSE Rest(p, i) \o Rest(q, j)
            ELSE IF par.key[q[j]] < par.key[p[i]] THEN <<q[j]>> \o From[<<i, j + 1, "y">>]
            ELSE <<p[i]>> \o From[<<i + 1, j, "x">>]
  IN  From[<<1, 1, last>>]
NMerge == IF par.nsort = 0 THEN par.n ELSE par.nsort

\* move_x_range()
MoveX(me, x, z) ==
  LET zl == me.zs + NX(me)
  IN  IF me.xo
      THEN [me |-> [me EXCEPT !.xo = FALSE], x |-> AllSet(x, me.xs, me.xe, Hollow),
            z |-> Filled(z, me.zs, Slots(x, me.xs, me.xe))]
      ELSE [me |-> [me EXCEPT !.xo = TRUE], x |-> Filled(x, me.xs, Slots(z, me.zs, zl)),
            z |-> AllSet(z, me.zs, zl, Raw)]
\* move_y_range()
MoveY(me, x, z) ==
  LET zf == me.zs + NX(me)
      zl == zf + NY(me)
  IN  IF me.yo
      THEN [me |-> [me EXCEPT !.yo = FALSE], x |-> AllSet(x, me.ys, me.ye, Hollow),
            z |-> Filled(z, zf, Slots(x, me.ys, me.ye))]
      ELSE [me |-> [me EXCEPT !.yo = TRUE], x |-> Filled(x, me.ys, Slots(z, zf, zl)),
            z |-> AllSet(z, zf, zl, Raw)]
MoveBoth(m) == LET n == MoveX(m.me, m.x, m.z) IN MoveY(n.me, n.x, n.z)

XLessY(m) ==
  LET me == m.me
  IN  IF me.xo THEN par.key[m.x[me.ys]] >= par.key[m.x[me.xe - 1]]
      ELSE par.key[m.z[me.zs + NX(me)]] >= par.key[m.z[me.zs + NX(me) - 1]]

\* The rest of merge_ranges(), when it does not split.
LeafMerge(m) ==
  LET me == m.me
      n == NX(me) + NY(me)
  IN  IF me.xo
      THEN [m EXCEPT !.x = AllSet(AllSet(@, me.xs, me.xe, Hollow), me.ys, me.ye, Hollow),
                     !.z = Filled(@, me.zs, SerialMoveMerge(Slots(m.x, me.xs, me.xe),
                                                            Slots(m.x, me.ys, me.ye), NMerge, "x"))]
      ELSE [m EXCEPT !.z = AllSet(AllSet(@, me.xs, me.xe, Raw), me.ys, me.ye, Raw),
                     !.x = Filled(@, me.zs, SerialMoveMerge(Slots(m.z, me.xs, me.xe),
                                                            Slots(m.z, me.ys, me.ye), NMerge, "x"))]

\* std::upper_bound() and std::lower_bound() of a value in f, by halving; the
\* range need not be in order when the sort is partial.
Bound(f, first, len, k, upper) ==
  LET Below(i) == IF upper THEN par.key[f[i]] <= k ELSE par.key[f[i]] < k
      From[r \in Nat \X Nat] ==
        LET i == r[1]  half == r[2] \div 2
        IN  IF r[2] = 0 THEN i
            ELSE IF Below(i + half) THEN From[<<i + half + 1, r[2] - half - 1>>]
            ELSE From[<<i, half>>]
  IN  From[<<first, len>>]

\* Where split_merging() and __merge_func_static cut the two ranges.
CutsAt(me, f) ==
  IF NX(me) < NY(me)
  THEN LET ym == me.ys + NY(me) \div 2 IN <<Bound(f, me.xs, NX(me), par.key[f[ym]], TRUE), ym>>
  ELSE LET xm == me.xs + NX(me) \div 2 IN <<xm, Bound(f, me.ys, NY(me), par.key[f[xm]], FALSE)>>

\* Wrong: the right part is written where the left one of x ends.
WritesTooEarly(f, t, me, cut, kind) ==
  LET zm == me.zs + (cut[1] - me.xs)
  IN  With([f EXCEPT ![t] = [me EXCEPT !.xe = cut[1], !.ye = cut[2], !.split = TRUE, !.begun = TRUE],
                     ![me.parent].refs = @ + 1],
           <<kind, zm, me.zs + NX(me) + NY(me)>>,
           [me EXCEPT !.xs = cut[1], !.ys = cut[2], !.zs = zm, !.split = TRUE, !.begun = FALSE])

\* The task keeps the left part; a new child of its parent gets the right one.
SplitTask(f, t, me, cut, kind) ==
  LET zm == me.zs + (cut[1] - me.xs) + (cut[2] - me.ys)
  IN  With([f EXCEPT ![t] = [me EXCEPT !.xe = cut[1], !.ye = cut[2], !.split = TRUE, !.begun = TRUE],
                     ![me.parent].refs = @ + 1],
           <<kind, zm, me.zs + NX(me) + NY(me)>>,
           [me EXCEPT !.xs = cut[1], !.ys = cut[2], !.zs = zm, !.split = TRUE, !.begun = FALSE])

\* set_odd() of the parent
SetOdd(f, me, orig) ==
  IF f[me.parent].xs = me.zs THEN [f EXCEPT ![me.parent].xo = orig]
  ELSE [f EXCEPT ![me.parent].yo = orig]

\* The first moves of a merge task, which bring both ranges to one side.
Together(me) ==
  LET m == [me |-> me, x |-> xa, z |-> za]
  IN  IF me.split \/ me.xo = me.yo THEN m
      ELSE IF IF me.isRoot THEN me.xo ELSE NX(me) < NY(me) THEN MoveX(me, xa, za)
      ELSE MoveY(me, xa, za)

\* {x} <= {y}: nothing to merge
InOrderAlready(m) == ~m.me.split /\ par.nsort = 0 /\ XLessY(m)

MergeSkips(t) ==
  LET m == Together(tasks[t])
      n == IF m.me.isRoot /\ ~m.me.xo THEN MoveBoth(m) ELSE m
  IN  /\ Ready(t) /\ t[1] \in {"merge", "part"} /\ parStage = "run"
      /\ InOrderAlready(m)
      /\ xa' = n.x /\ za' = n.z
      /\ tasks' = IF m.me.isRoot THEN [tasks EXCEPT ![t] = [n.me EXCEPT !.state = "done"]]
                  ELSE SetOdd([tasks EXCEPT ![t] = [m.me EXCEPT !.state = "done"]], m.me, m.me.xo)
      /\ UNCHANGED <<par, parStage>>

\* Wrong: the parent learns where its half was.
KeepsSide(f, me) == IF me.split \/ me.isRoot THEN f ELSE SetOdd(f, me, me.xo)

\* The half of the parent will be on the other side.
TellParent(f, me) == IF me.split \/ me.isRoot THEN f ELSE SetOdd(f, me, ~me.xo)

MergeRanges(t) ==
  LET m == Together(tasks[t])
      n == IF ~m.me.split /\ m.me.isRoot /\ m.me.xo THEN MoveBoth(m) ELSE m
      told == TellParent([tasks EXCEPT ![t] = n.me], n.me)
      whole == NX(n.me) + NY(n.me) <= MergeCutOff
      done == LeafMerge(n)
  IN  /\ Ready(t) /\ t[1] \in {"merge", "part"} /\ parStage = "run"
      /\ ~InOrderAlready(m)
      /\ IF whole THEN tasks' = Ends(told, t) /\ xa' = done.x /\ za' = done.z
         ELSE /\ tasks' = SplitTask(told, t, n.me, CutsAt(n.me, IF n.me.xo THEN n.x ELSE n.z), "part")
              /\ xa' = n.x /\ za' = n.z
      /\ UNCHANGED <<par, parStage>>

\* There is no memory for the task of the right part: the moves that come
\* first have been made.
MergeFails(t) ==
  LET m == Together(tasks[t])
      n == IF ~m.me.split /\ m.me.isRoot /\ m.me.xo THEN MoveBoth(m) ELSE m
  IN  /\ Ready(t) /\ t[1] \in {"merge", "part"} /\ parStage = "run"
      /\ ~InOrderAlready(m) /\ NX(n.me) + NY(n.me) > MergeCutOff
      /\ tasks' = Ends(TellParent([tasks EXCEPT ![t] = n.me], n.me), t)
      /\ xa' = n.x /\ za' = n.z
      /\ parStage' = "cancelled"
      /\ UNCHANGED par

-----------------------------------------------------------------------------
(* __merge_func_static: the leaf merge copies to the third range           *)

MergeStatic(t) ==
  LET me == tasks[t]
  IN  /\ Ready(t) /\ t[1] = "static" /\ parStage = "run"
      /\ IF NX(me) + NY(me) <= MergeCutOff
         THEN /\ za' = Filled(za, me.zs, SerialMoveMerge(Slots(xa, me.xs, me.xe),
                                                         Slots(xa, me.ys, me.ye), par.n, "x"))
              /\ tasks' = Ends(tasks, t)
         ELSE /\ tasks' = SplitTask(tasks, t, me, CutsAt(me, xa), "static")
              /\ UNCHANGED za
      /\ UNCHANGED <<par, xa, parStage>>

StaticFails(t) ==
  /\ Ready(t) /\ t[1] = "static" /\ parStage = "run"
  /\ NX(tasks[t]) + NY(tasks[t]) > MergeCutOff
  /\ tasks' = Ends(tasks, t) /\ parStage' = "cancelled"
  /\ UNCHANGED <<par, xa, za>>

-----------------------------------------------------------------------------
(* __func_task                                                             *)

\* finalize() of a task that has a parent: the last child hands over to it.
Returns(t) ==
  LET p == tasks[t].parent
      left == [u \in DOMAIN tasks \ {t} |-> tasks[u]]
  IN  /\ tasks' = [left EXCEPT ![p].refs = @ - 1,
                               ![p].state = IF tasks[p].refs = 1 /\ p # Root THEN "ready" ELSE @]
      /\ parStage' = IF p = Root /\ tasks[p].refs = 1
                      THEN IF parStage = "run" THEN "ended" ELSE "abandoned" ELSE parStage
      /\ UNCHANGED <<par, xa, za>>

Finalize(t) ==
  /\ t \in DOMAIN tasks /\ tasks[t].state = "done"
  /\ tasks[t].parent # NoParent /\ parStage # "crashed"
  /\ Returns(t)

\* cancel() of a task that waits to run when its group is cancelled.  The last
\* child frees itself through _M_execute_data, which only execute() has set.
Frees(t) == tasks[tasks[t].parent].refs = 1
CancelTask(t) ==
  /\ Ready(t) /\ parStage = "cancelled"
  /\ Frees(t) => tasks[t].begun
  /\ Returns(t)

\* A null pointer is followed: _M_execute_data, or a parent that was given away.
LosesWay(t) ==
  /\ \/ t \in DOMAIN tasks /\ tasks[t].state = "done" /\ tasks[t].parent = NoParent
     \/ Ready(t) /\ parStage = "cancelled" /\ Frees(t) /\ ~tasks[t].begun
  /\ parStage' = "crashed"
  /\ UNCHANGED <<par, xa, za, tasks>>

TaskStep(t) == \/ SortLeaf(t) \/ SortHalves(t) \/ MergeSkips(t) \/ MergeRanges(t) \/ MergeStatic(t)
               \/ CancelTask(t) \/ LosesWay(t) \/ Finalize(t)

ParNext == \E t \in DOMAIN tasks : TaskStep(t) \/ SortFails(t) \/ MergeFails(t) \/ StaticFails(t)
ParSpec == ParInit /\ [][ParNext]_parVars

-----------------------------------------------------------------------------
(* Properties                                                              *)

Children(t) == {u \in DOMAIN tasks : tasks[u].parent = t}

\* A task counts its children, however often they were split, and begins when
\* there are none left: what the asserts about _M_refcount say.  When memory has
\* run out it counts its children at least; one of them may be lost.
ChildrenCounted ==
  parStage # "crashed" =>
    \A t \in DOMAIN tasks :
       /\ tasks[t].refs >= Cardinality(Children(t))
       /\ parStage \in {"run", "ended"} => tasks[t].refs = Cardinality(Children(t))
       /\ tasks[t].state = "waiting" /\ parStage = "run" => Children(t) # {}

\* The slots that the next body of a task reads or writes.
XSlots(t) ==
  LET me == tasks[t]
  IN  IF t[1] \in {"sort", "static"} THEN Range0(me.xs, me.xe)
      ELSE IF me.split /\ ~me.xo THEN Range0(me.zs, me.zs + NX(me) + NY(me))
      ELSE Range0(me.xs, me.xe) \cup Range0(me.ys, me.ye)
ZSlots(t) ==
  LET me == tasks[t]
  IN  IF t[1] = "sort" THEN {}
      ELSE IF t[1] # "static" /\ me.split /\ ~me.xo THEN Range0(me.xs, me.xe) \cup Range0(me.ys, me.ye)
      ELSE Range0(me.zs, me.zs + NX(me) + NY(me))

\* Tasks that may run at the same time never touch the same element, nor the
\* same flag of their parent.
TasksApart ==
  parStage = "run" =>
    \A t \in DOMAIN tasks : \A u \in DOMAIN tasks \ {t} :
       Ready(t) /\ Ready(u) =>
         /\ ZSlots(t) \cap ZSlots(u) = {}
         /\ t[1] # "static" => XSlots(t) \cap XSlots(u) = {}

\* When a merge task begins, its two ranges are in order, and lie where its
\* flags say while the other side is free for them.
HalvesReady ==
  parStage = "run" /\ par.mode = "sort" =>
    \A t \in DOMAIN tasks : Ready(t) /\ t[1] = "merge" /\ ~tasks[t].split =>
      LET me == tasks[t]
          zf == me.zs + NX(me)
          x == Slots(xa, me.xs, me.xe)  xb == Slots(za, me.zs, zf)
          y == Slots(xa, me.ys, me.ye)  yb == Slots(za, zf, zf + NY(me))
          Halves(f, orig, buf) ==
            /\ f => ToSet(buf) = {Raw} /\ Hollow \notin ToSet(orig) /\ (par.nsort = 0 => Ordered(orig))
            /\ ~f => ToSet(orig) = {Hollow} /\ Raw \notin ToSet(buf) /\ (par.nsort = 0 => Ordered(buf))
      IN  /\ NX(me) > 0 /\ NY(me) > 0
          /\ Halves(me.xo, x, xb) /\ Halves(me.yo, y, yb)

\* No element is overwritten or copied, also when the sort is given up.
OnceEach ==
  par.mode = "sort" =>
    \A e \in Range0(0, par.n) :
       Cardinality({i \in DOMAIN xa : xa[i] = e}) + Cardinality({i \in DOMAIN za : za[i] = e}) = 1

\* At the end everything is back in the range, the buffer is destroyed, and
\* the elements are in order, equal ones as they came; of a partial sort, the
\* first ones.
SortEnds ==
  parStage = "ended" /\ par.mode = "sort" =>
    LET s == Slots(xa, 0, par.n)
    IN  /\ ToSet(s) = Range0(0, par.n)
        /\ \A i \in DOMAIN za : za[i] = Raw
        /\ IF par.nsort = 0
           THEN Ordered(s) /\ \A i \in 1 .. par.n - 1 : par.key[s[i]] = par.key[s[i + 1]] => s[i] < s[i + 1]
           ELSE /\ Ordered(SubSeq(s, 1, par.nsort))
                /\ \A i \in 1 .. par.nsort, j \in par.nsort + 1 .. par.n : par.key[s[i]] <= par.key[s[j]]

\* The merged range has all elements, and equal ones of x before those of y.
MergeEnds ==
  parStage = "ended" /\ par.mode = "merge" =>
    LET s == Slots(za, 0, par.n)
    IN  /\ ToSet(s) = Range0(0, par.n)
        /\ Ordered(s) /\ \A i \in 1 .. par.n - 1 : par.key[s[i]] = par.key[s[i + 1]] => s[i] < s[i + 1]

\* As long as the caller waits some task is left that can be executed or, in a
\* cancelled group, cancelled: nobody waits for tasks that are all waiting.
SomebodyRuns ==
  parStage \in {"run", "cancelled"} => \E t \in DOMAIN tasks : tasks[t].state # "waiting"

\* The tree of tasks, whichever of its tasks have been split, run and returned.
TasksInv == ChildrenCounted /\ TasksApart /\ SomebodyRuns

\* The elements, while they move between the range and the buffer and at the end.
ElementsInv == HalvesReady /\ OnceEach /\ SortEnds /\ MergeEnds

=============================================================================
