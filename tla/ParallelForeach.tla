-------------------------- MODULE ParallelForeach ---------------------------
(***************************************************************************)
(* A parallel foreach over a random access range in std.parallelism.  The  *)
(* caller puts one task for each worker of the pool into the queue and     *)
(* keeps one for itself.  All run doIt(), which claims work units from a   *)
(* shared index until there are none or somebody has thrown.  doIt() is a  *)
(* delegate on the stack of the caller: nobody may run it when the foreach *)
(* is over.  The pool is TaskPool's matter: here a worker may take the     *)
(* first task that is left, or be busy with others.                        *)
(***************************************************************************)
EXTENDS Naturals, FiniteSets, FiniteSetsExt

CONSTANTS LoopWorkers,
          Caller,
          Loops,      \* the lengths of ranges and the sizes of work units
          IndexSize   \* how many values a size_t has

Runners == LoopWorkers \cup {Caller}
\* tasks[0] is the caller's own.
LastTask == Cardinality(LoopWorkers)
LoopTasks == 0 .. LastTask
NoJob == LastTask + 1

\* The sum of the lengths of all claimed units fits into a size_t.
Fits(loop) == (loop.len + LastTask + 2) * loop.workUnitSize < IndexSize

ASSUME CallerNoWorker == Caller \notin LoopWorkers /\ IsFiniteSet(LoopWorkers)
ASSUME IndexSizeOK == IndexSize \in Nat
ASSUME LoopsOK == \A l \in Loops : /\ {l.len, l.workUnitSize} \subseteq Nat \ {0}
                                   /\ Fits(l)

VARIABLES loop,           \* the one of Loops that is run
          workUnitIndex, shouldContinue,
          calls,          \* auxiliary: how often the body was called for each element
          job,            \* the task that each thread runs
          doing,          \* where it is in doIt()
          from, upTo,     \* the rest of its work unit
          jobStatus,      \* taskStatus of each task
          exception,      \* what each task has thrown
          caller          \* where the caller is in submitAndExecute(), and with which task

unitVars == <<loop, workUnitIndex, calls, from, upTo>>
jobVars == <<job, jobStatus, exception, caller>>
loopVars == <<unitVars, shouldContinue, doing, jobVars>>

CallerAt(place, k) == [place |-> place, task |-> k]

LoopInit ==
  /\ loop \in Loops
  /\ workUnitIndex = IndexSize - 1 /\ shouldContinue = TRUE
  /\ calls = [e \in 0 .. loop.len - 1 |-> 0]
  /\ job = [r \in Runners |-> IF r = Caller THEN 0 ELSE NoJob]
  /\ doing = [r \in Runners |-> IF r = Caller THEN "test" ELSE "nothing"]
  /\ from = [r \in Runners |-> 0] /\ upTo = [r \in Runners |-> 0]
  /\ jobStatus = [k \in LoopTasks |-> IF k = 0 THEN "inProgress" ELSE "notStarted"]
  /\ exception = [k \in LoopTasks |-> "none"]
  /\ caller = CallerAt("own", 0)

-----------------------------------------------------------------------------
(* doIt()                                                                  *)

Move(r, place) == doing' = [doing EXCEPT ![r] = place]

TestContinue(r) ==
  /\ doing[r] = "test"
  /\ Move(r, IF shouldContinue THEN "claim" ELSE "end")
  /\ UNCHANGED <<unitVars, shouldContinue, jobVars>>

\* Wrong: the index as it was before.
ClaimsOldIndex(r) ==
  /\ doing[r] = "claim"
  /\ workUnitIndex' = (workUnitIndex + 1) % IndexSize
  /\ LET start == (loop.workUnitSize * workUnitIndex) % IndexSize
     IN IF start >= loop.len
        THEN Move(r, "stop") /\ UNCHANGED <<from, upTo>>
        ELSE /\ Move(r, "body")
             /\ from' = [from EXCEPT ![r] = start]
             /\ upTo' = [upTo EXCEPT ![r] =
                           Min({loop.len, (start + loop.workUnitSize) % IndexSize})]
  /\ UNCHANGED <<loop, calls, shouldContinue, jobVars>>

Claim(r) ==
  /\ doing[r] = "claim"
  /\ workUnitIndex' = (workUnitIndex + 1) % IndexSize
  /\ LET start == (loop.workUnitSize * workUnitIndex') % IndexSize
     IN IF start >= loop.len
        THEN Move(r, "stop") /\ UNCHANGED <<from, upTo>>
        ELSE /\ Move(r, "body")
             /\ from' = [from EXCEPT ![r] = start]
             /\ upTo' = [upTo EXCEPT ![r] =
                           Min({loop.len, (start + loop.workUnitSize) % IndexSize})]
  /\ UNCHANGED <<loop, calls, shouldContinue, jobVars>>

\* The body of the loop; break and its like come out of it as an Error.
CallBody(r) ==
  /\ doing[r] = "body" /\ from[r] < upTo[r]
  /\ calls' = [calls EXCEPT ![from[r]] = @ + 1]
  /\ from' = [from EXCEPT ![r] = @ + 1]
  /\ doing' \in {doing} \cup {[doing EXCEPT ![r] = thrown] : thrown \in {"Exception", "Error"}}
  /\ UNCHANGED <<loop, workUnitIndex, upTo, shouldContinue, jobVars>>

UnitDone(r) ==
  /\ doing[r] = "body" /\ from[r] = upTo[r]
  /\ Move(r, "test")
  /\ UNCHANGED <<unitVars, shouldContinue, jobVars>>

\* No unit is left, or scope(failure): all threads should bail.
Bail(r) ==
  /\ doing[r] \in {"stop", "Exception", "Error"}
  /\ shouldContinue' = FALSE
  /\ IF doing[r] = "stop" THEN Move(r, "end") /\ UNCHANGED exception
     ELSE /\ Move(r, IF doing[r] = "Error" /\ caller.place = "help" /\ r = Caller
                     THEN "escape" ELSE "end")
          /\ exception' = [exception EXCEPT ![job[r]] = doing[r]]
  /\ UNCHANGED <<unitVars, job, jobStatus, caller>>

DoIt(r) == TestContinue(r) \/ Claim(r) \/ CallBody(r) \/ UnitDone(r) \/ Bail(r)

-----------------------------------------------------------------------------
(* The workers                                                             *)

\* pop(): the tasks that are left are in the queue in their order.
TakeTask(w) ==
  /\ job[w] = NoJob
  /\ \E k \in LoopTasks :
       /\ jobStatus[k] = "notStarted" /\ \A i \in 1 .. k - 1 : jobStatus[i] # "notStarted"
       /\ jobStatus' = [jobStatus EXCEPT ![k] = "inProgress"]
       /\ job' = [job EXCEPT ![w] = k]
  /\ Move(w, "test")
  /\ UNCHANGED <<unitVars, shouldContinue, exception, caller>>

\* doJob() after the job: what it threw is kept, whatever it was.
EndTask(w) ==
  /\ doing[w] = "end"
  /\ jobStatus' = [jobStatus EXCEPT ![job[w]] = "done"]
  /\ job' = [job EXCEPT ![w] = NoJob]
  /\ Move(w, "nothing")
  /\ UNCHANGED <<unitVars, shouldContinue, exception, caller>>

-----------------------------------------------------------------------------
(* The caller, in submitAndExecute()                                       *)

\* It has run its own task, or one of the others.  tryDeleteExecute() catches an
\* Exception; an Error leaves it and submitAndExecute() at once.
EndOwn ==
  /\ doing[Caller] \in {"end", "escape"}
  /\ IF doing[Caller] = "end"
     THEN /\ jobStatus' = [jobStatus EXCEPT ![job[Caller]] = "done"]
          /\ caller' = CallerAt("help", caller.task + 1)
     ELSE caller' = CallerAt("returned", 0) /\ UNCHANGED jobStatus
  /\ job' = [job EXCEPT ![Caller] = NoJob]
  /\ Move(Caller, "nothing")
  /\ UNCHANGED <<unitVars, shouldContinue, exception>>

\* tryDeleteExecute() of the next task.
Help ==
  /\ caller.place = "help" /\ job[Caller] = NoJob /\ caller.task <= LastTask
  /\ IF jobStatus[caller.task] = "notStarted"
     THEN /\ jobStatus' = [jobStatus EXCEPT ![caller.task] = "inProgress"]
          /\ job' = [job EXCEPT ![Caller] = caller.task]
          /\ Move(Caller, "test")
          /\ UNCHANGED caller
     ELSE /\ caller' = CallerAt("help", caller.task + 1)
          /\ UNCHANGED <<jobStatus, job, doing>>
  /\ UNCHANGED <<unitVars, shouldContinue, exception>>

HelpDone ==
  /\ caller = CallerAt("help", LastTask + 1)
  /\ caller' = CallerAt("force", 0)
  /\ UNCHANGED <<unitVars, shouldContinue, doing, job, jobStatus, exception>>

\* yieldForce() of the next task: all of them have been started by now.
ForceNext ==
  /\ caller.place = "force" /\ caller.task <= LastTask
  /\ jobStatus[caller.task] = "done"
  /\ caller' = CallerAt("force", caller.task + 1)
  /\ UNCHANGED <<unitVars, shouldContinue, doing, job, jobStatus, exception>>

\* The foreach is over; it throws what the tasks have thrown.
ReturnFromLoop ==
  /\ caller = CallerAt("force", LastTask + 1)
  /\ caller' = CallerAt("returned", 0)
  /\ UNCHANGED <<unitVars, shouldContinue, doing, job, jobStatus, exception>>

CallerStep == DoIt(Caller) \/ EndOwn \/ Help \/ HelpDone \/ ForceNext \/ ReturnFromLoop

LoopNext == CallerStep \/ \E w \in LoopWorkers : TakeTask(w) \/ DoIt(w) \/ EndTask(w)

LoopSpec == LoopInit /\ [][LoopNext]_loopVars

-----------------------------------------------------------------------------
(* Properties                                                              *)

Over == caller.place = "returned"

\* The body is called for no element twice, whoever claims which units, and the
\* index running past the end with every thread; and for each, if none threw.
EachOnce ==
  /\ \A e \in DOMAIN calls : calls[e] <= 1
  /\ (Over /\ \A k \in LoopTasks : exception[k] = "none") => \A e \in DOMAIN calls : calls[e] = 1

\* When the foreach is over nobody runs doIt() or is going to, also if the body
\* breaks out of the loop: the delegate and what it refers to are gone.
NobodyLeftInLoop ==
  Over => \A k \in LoopTasks : jobStatus[k] = "done"

\* What the caller takes on after its own task never gets to the body, which is
\* why no Error can leave tryDeleteExecute().
NothingLeftToHelp == caller.place = "help" => doing[Caller] \in {"nothing", "test", "end"}

\* The caller waits for no task that nobody runs.
AwaitedIsRun ==
  caller.place = "force" =>
    \A k \in LoopTasks : jobStatus[k] # "done" => \E w \in LoopWorkers : job[w] = k

\* A foreach calls its body as often as it should, and leaves nobody behind in it.
ForeachInv == AwaitedIsRun /\ EachOnce /\ NobodyLeftInLoop /\ NothingLeftToHelp

=============================================================================
