----------------------------- MODULE MCParallel -----------------------------
(***************************************************************************)
(* Small instances of the parallel algorithms: the sort and the merge with *)
(* their tasks, the searches with an atomic variable, the reductions, and  *)
(* the scans of libstdc++, and the parallel foreach of std.parallelism.  A *)
(* behaviour is one of them, and the others stay as they began.            *)
(***************************************************************************)
EXTENDS ParallelSort, ParallelFind, ReducePatterns, ScanPatterns, ParallelForeach

CONSTANTS w1, w2, c1

MCKeys == {0, 1, 2}
MCParKeys == {0, 1}
\* Three levels of tasks with leaves of one and two elements.
MCParLens == {5, 7}
MCPartials == {0, 1, 3}
MCWorkers == {1, 2}
MCLoopWorkers == {w1, w2}
MCLoops == {[len |-> 2, workUnitSize |-> 1], [len |-> 3, workUnitSize |-> 2]}

VARIABLE part
parallelVars == <<part, parVars, findVars, reduceVars, scanVars, loopVars>>

\* One initial state for each part that is not the one that runs.
SortIdle == /\ par = [mode |-> "merge", n |-> 0, nsort |-> 0, middle |-> 0, key |-> <<>>]
            /\ xa = <<>> /\ za = <<>> /\ tasks = <<>> /\ parStage = "ended"
FindIdle == /\ find = [name |-> "find_if", p |-> <<>>, q |-> <<>>, n |-> 0]
            /\ blocks = <<>> /\ shared = 0
ReduceIdle == /\ reduction = [name |-> "rotate", s |-> <<>>, place |-> 0, below |-> 0]
              /\ reduced = <<>>
ScanIdle == /\ scanCall = [name |-> "copy_if", p |-> <<>>, q |-> <<>>, workers |-> 1]
            /\ outcome = <<>>
LoopIdle == LoopInit /\ loop = CHOOSE l \in Loops : TRUE

ParallelInit ==
  \/ part = "sort" /\ ParInit /\ FindIdle /\ ReduceIdle /\ ScanIdle /\ LoopIdle
  \/ part = "find" /\ SortIdle /\ FindInit /\ ReduceIdle /\ ScanIdle /\ LoopIdle
  \/ part = "reduce" /\ SortIdle /\ FindIdle /\ ReduceInit /\ ScanIdle /\ LoopIdle
  \/ part = "scan" /\ SortIdle /\ FindIdle /\ ReduceIdle /\ ScanInit /\ LoopIdle
  \/ part = "loop" /\ SortIdle /\ FindIdle /\ ReduceIdle /\ ScanIdle /\ LoopInit

ParallelNext ==
  \/ part = "sort" /\ ParNext /\ UNCHANGED <<part, findVars, reduceVars, scanVars, loopVars>>
  \/ part = "find" /\ FindNext /\ UNCHANGED <<part, parVars, reduceVars, scanVars, loopVars>>
  \/ part = "reduce" /\ ReduceNext /\ UNCHANGED <<part, parVars, findVars, scanVars, loopVars>>
  \/ part = "scan" /\ ScanNext /\ UNCHANGED <<part, parVars, findVars, reduceVars, loopVars>>
  \/ part = "loop" /\ LoopNext /\ UNCHANGED <<part, parVars, findVars, reduceVars, scanVars>>

ParallelSpec == ParallelInit /\ [][ParallelNext]_parallelVars

=============================================================================
