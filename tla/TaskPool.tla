------------------------------ MODULE TaskPool ------------------------------
(***************************************************************************)
(* std.parallelism: a TaskPool, its worker threads, and client threads     *)
(* that put tasks into it, force their results and shut it down.           *)
(*                                                                         *)
(* Tasks run on top of whatever a thread was doing: a worker's loop, a     *)
(* force that found its task not started, or a workForce that helps out    *)
(* while it waits.  So each thread has a stack of frames, one per active   *)
(* call, and every step is taken by the frame on top.  One step is one     *)
(* critical section of queueMutex or waiterMutex, or one atomic access.    *)
(* The queue is a sequence here; TaskList shows that the doubly linked     *)
(* list of the code is one.                                                *)
(***************************************************************************)
EXTENDS Integers, FiniteSets, SequencesExt

CONSTANTS Workers,      \* the threads of the pool
          Clients,      \* the threads that use it
          Tasks,
          Needs,        \* the tasks each task's function forces, none or one
          TaskForce,    \* how it forces them: "spin", "yield" or "work"
          ClientForce,  \* the ways in which clients force tasks
          Forced,       \* the tasks that clients force
          Stoppers      \* the clients that may call stop()

ASSUME NeedsOK == /\ Needs \in [Tasks -> SUBSET Tasks]
                  /\ \A t \in Tasks : Cardinality(Needs[t]) <= 1
ASSUME ForceOK == /\ ClientForce \subseteq {"spin", "yield", "work"}
                  /\ TaskForce \in {"spin", "yield", "work"}
                  /\ Forced \subseteq Tasks
                  /\ Stoppers \subseteq Clients
ASSUME FiniteOK == IsFiniteSet(Workers) /\ IsFiniteSet(Clients) /\ IsFiniteSet(Tasks)

VARIABLES taskStatus,  \* AbstractTask.taskStatus
          hasPool,     \* the tasks whose pool field is set
          queue,       \* the tasks from head to tail
          status,      \* TaskPool.status
          stack        \* the active calls of each thread

vars == <<taskStatus, hasPool, queue, status, stack>>

Threads == Workers \cup Clients

\* The frames.  "doJob" and "tryDeleteExecute" are the two callers of a job.
Frame(call, task, at) == [call |-> call, task |-> task, at |-> at]
None == "none"
Loop == Frame("executeWorkLoop", None, "test")
Joins == Frame("finish", None, "join")
Job(caller, t) == Frame(caller, t, "run")
ForceFrame(kind, t) == Frame(kind, t, "try")
JobCalls == {"doJob", "tryDeleteExecute"}
ForceCalls == {"spin", "yield", "work"}

Init == /\ taskStatus = [t \in Tasks |-> "notStarted"]
        /\ hasPool = {}
        /\ queue = <<>>
        /\ status = "running"
        /\ stack = [th \in Threads |-> IF th \in Workers THEN <<Loop>> ELSE <<>>]

-----------------------------------------------------------------------------
(* Stacks                                                                  *)

Top(th) == Last(stack[th])

\* The frame on top of th's stack belongs to one of the calls and is there.
In(th, calls, places) ==
  stack[th] # <<>> /\ Top(th).call \in calls /\ Top(th).at \in places

MoveTop(s, place) == Append(Front(s), [Last(s) EXCEPT !.at = place])

Goto(th, place) == stack' = [stack EXCEPT ![th] = MoveTop(@, place)]
Return(th) == stack' = [stack EXCEPT ![th] = Front(@)]

\* Call a function and carry on at place when it returns.
Call(th, place, frame) ==
  stack' = [stack EXCEPT ![th] = Append(MoveTop(@, place), frame)]

Asleep(calls) == {th \in Threads : In(th, calls, {"asleep"})}
AsleepWorkers == Asleep({"executeWorkLoop"})  \* in workerCondition.wait()
AsleepWaiters == Asleep(ForceCalls)           \* in waiterCondition.wait()

Woken(S) == [th \in Threads |-> IF th \in S THEN MoveTop(stack[th], "awake")
                                ELSE stack[th]]

-----------------------------------------------------------------------------
(* The queue                                                               *)

\* popNoSync() of a nonempty queue.
Dequeue ==
  /\ queue # <<>>
  /\ queue' = Tail(queue)
  /\ taskStatus' = [taskStatus EXCEPT ![Head(queue)] = "inProgress"]

\* deleteItemNoSync() of a task that nobody has started.
DeleteItem(t) ==
  /\ taskStatus[t] = "notStarted"
  /\ queue' = IF t \in Range(queue) THEN RemoveAt(queue, CHOOSE i \in DOMAIN queue : queue[i] = t)
              ELSE queue
  /\ taskStatus' = [taskStatus EXCEPT ![t] = "inProgress"]

-----------------------------------------------------------------------------
(* executeWorkLoop()                                                       *)

\* The test of the loop, outside any lock.
TestStatus(th) ==
  /\ In(th, {"executeWorkLoop"}, {"test"})
  /\ IF status = "stopNow" THEN Return(th) ELSE Goto(th, "pop")
  /\ UNCHANGED <<taskStatus, hasPool, queue, status>>

\* pop() finds a task.
PopTask(th) ==
  /\ In(th, {"executeWorkLoop"}, {"pop", "awake"})
  /\ Dequeue
  /\ Call(th, "test", Job("doJob", Head(queue)))
  /\ UNCHANGED <<hasPool, status>>

\* Wrong: the status is not tested again before the wait.
WaitsAnyway(th) ==
  /\ In(th, {"executeWorkLoop"}, {"pop", "awake"})
  /\ queue = <<>>
  /\ Goto(th, IF Top(th).at = "pop" THEN "asleep" ELSE "null")
  /\ UNCHANGED <<taskStatus, hasPool, queue, status>>

\* pop() waits for one, or returns null once the pool is being shut down.
PopNothing(th) ==
  /\ In(th, {"executeWorkLoop"}, {"pop", "awake"})
  /\ queue = <<>>
  /\ Goto(th, IF status = "running" THEN "asleep" ELSE "null")
  /\ UNCHANGED <<taskStatus, hasPool, queue, status>>

\* With nothing left to do, a worker of a finishing pool stops the pool.
LeaveLoop(th) ==
  /\ In(th, {"executeWorkLoop"}, {"null"})
  /\ IF status = "finishing" THEN Return(th) /\ status' = "stopNow"
     ELSE Goto(th, "test") /\ UNCHANGED status
  /\ UNCHANGED <<taskStatus, hasPool, queue>>

-----------------------------------------------------------------------------
(* doJob() and the second half of tryDeleteExecute()                       *)

\* The task's function runs, and forces the task it needs.
RunJob(th) ==
  /\ In(th, JobCalls, {"run"})
  /\ IF Needs[Top(th).task] = {} THEN Goto(th, "publish")
     ELSE \E n \in Needs[Top(th).task] : Call(th, "publish", ForceFrame(TaskForce, n))
  /\ UNCHANGED <<taskStatus, hasPool, queue, status>>

\* The status becomes done; tryDeleteExecute() returns at that.
Publish(th) ==
  /\ In(th, JobCalls, {"publish"})
  /\ taskStatus' = [taskStatus EXCEPT ![Top(th).task] = "done"]
  /\ IF Top(th).call = "doJob" THEN Goto(th, "notify") ELSE Return(th)
  /\ UNCHANGED <<hasPool, queue, status>>

\* Wrong: only one waiter is notified, perhaps one that waits for another task.
NotifiesOneWaiter(th) ==
  /\ In(th, {"doJob"}, {"notify"})
  /\ IF AsleepWaiters = {} THEN Return(th)
     ELSE \E w \in AsleepWaiters : stack' = [Woken({w}) EXCEPT ![th] = Front(stack[th])]
  /\ UNCHANGED <<taskStatus, hasPool, queue, status>>

\* doJob() notifies everybody who waits for any task at all, and returns.
NotifyWaiters(th) ==
  /\ In(th, {"doJob"}, {"notify"})
  /\ stack' = [Woken(AsleepWaiters) EXCEPT ![th] = Front(stack[th])]
  /\ UNCHANGED <<taskStatus, hasPool, queue, status>>

-----------------------------------------------------------------------------
(* spinForce(), yieldForce() and workForce()                               *)

\* tryDeleteExecute(): run the task here unless somebody has started it.
TryDelete(th) ==
  /\ In(th, ForceCalls, {"try"})
  /\ IF taskStatus[Top(th).task] = "notStarted"
     THEN /\ DeleteItem(Top(th).task)
          /\ Call(th, "check", Job("tryDeleteExecute", Top(th).task))
     ELSE Goto(th, "check") /\ UNCHANGED <<queue, taskStatus>>
  /\ UNCHANGED <<hasPool, status>>

\* The task is done: return its result.  spinForce() does nothing else.
CheckDone(th) ==
  /\ In(th, ForceCalls, {"check"})
  /\ taskStatus[Top(th).task] = "done"
  /\ Return(th)
  /\ UNCHANGED <<taskStatus, hasPool, queue, status>>

CheckNotDone(th) ==
  /\ In(th, {"yield", "work"}, {"check"})
  /\ taskStatus[Top(th).task] # "done"
  /\ Goto(th, IF Top(th).call = "yield" THEN "lock" ELSE "pop")
  /\ UNCHANGED <<taskStatus, hasPool, queue, status>>

\* Wrong: the status is not tested again under waiterMutex.
SleepsUnchecked(th) ==
  /\ In(th, {"yield"}, {"lock", "awake"})
  /\ IF Top(th).at = "lock" THEN Goto(th, "asleep") ELSE Goto(th, "check")
  /\ UNCHANGED <<taskStatus, hasPool, queue, status>>

\* yieldForce() under waiterMutex.
WaitDone(th) ==
  /\ In(th, {"yield"}, {"lock", "awake"})
  /\ IF taskStatus[Top(th).task] = "done" THEN Return(th) ELSE Goto(th, "asleep")
  /\ UNCHANGED <<taskStatus, hasPool, queue, status>>

\* workForce() runs another task of the pool, whichever is next ...
WorkTask(th) ==
  /\ In(th, {"work"}, {"pop"})
  /\ Dequeue
  /\ Call(th, "check", Job("doJob", Head(queue)))
  /\ UNCHANGED <<hasPool, status>>

\* ... and turns into yieldForce() when there is none.
WorkNothing(th) ==
  /\ In(th, {"work"}, {"pop"})
  /\ queue = <<>>
  /\ stack' = [stack EXCEPT ![th] = Append(Front(@), ForceFrame("yield", Last(@).task))]
  /\ UNCHANGED <<taskStatus, hasPool, queue, status>>

-----------------------------------------------------------------------------
(* What clients do                                                         *)

Idle(c) == c \in Clients /\ stack[c] = <<>>

\* put(), of tasks whose functions only force tasks that have been put.
MayPut(c, t) == Idle(c) /\ t \notin hasPool /\ Needs[t] \subseteq hasPool

Put(c, t) ==
  /\ MayPut(c, t)
  /\ status = "running"
  /\ hasPool' = hasPool \cup {t}
  /\ queue' = Append(queue, t)
  /\ IF AsleepWorkers = {} THEN UNCHANGED stack
     ELSE \E w \in AsleepWorkers : stack' = Woken({w})
  /\ UNCHANGED <<taskStatus, status>>

\* put() throws: the pool is shutting down.  The task keeps its pool field.
PutRejected(c, t) ==
  /\ MayPut(c, t)
  /\ status # "running"
  /\ hasPool' = hasPool \cup {t}
  /\ UNCHANGED <<taskStatus, queue, status, stack>>

ForceTask(c, t) ==
  /\ Idle(c)
  /\ t \in Forced \cap hasPool
  /\ \E kind \in ClientForce : stack' = [stack EXCEPT ![c] = <<ForceFrame(kind, t)>>]
  /\ UNCHANGED <<taskStatus, hasPool, queue, status>>

Stop(c) ==
  /\ Idle(c) /\ c \in Stoppers
  /\ status' = "stopNow"
  /\ stack' = Woken(AsleepWorkers)
  /\ UNCHANGED <<taskStatus, hasPool, queue>>

\* Wrong: finish() stops the pool at once; it does not notify the workers.
FinishStops(c, blocking) ==
  /\ Idle(c)
  /\ status' = "stopNow"
  /\ stack' = [Woken(AsleepWorkers) EXCEPT ![c] = IF blocking THEN <<Joins, Loop>> ELSE @]
  /\ UNCHANGED <<taskStatus, hasPool, queue>>

FinishesSilently(c, blocking) ==
  /\ Idle(c)
  /\ status' = IF status = "running" THEN "finishing" ELSE status
  /\ stack' = [stack EXCEPT ![c] = IF blocking THEN <<Joins, Loop>> ELSE @]
  /\ UNCHANGED <<taskStatus, hasPool, queue>>

\* finish(blocking): a blocking caller works until nothing is left to do and
\* then joins the workers.
Finish(c, blocking) ==
  /\ Idle(c)
  /\ status' = IF status = "running" THEN "finishing" ELSE status
  /\ stack' = [Woken(AsleepWorkers) EXCEPT ![c] = IF blocking THEN <<Joins, Loop>> ELSE @]
  /\ UNCHANGED <<taskStatus, hasPool, queue>>

Join(c) ==
  /\ In(c, {"finish"}, {"join"})
  /\ \A w \in Workers : stack[w] = <<>>
  /\ Return(c)
  /\ UNCHANGED <<taskStatus, hasPool, queue, status>>

-----------------------------------------------------------------------------
SpuriousWakeup(th) ==
  /\ th \in AsleepWorkers \cup AsleepWaiters
  /\ stack' = Woken({th})
  /\ UNCHANGED <<taskStatus, hasPool, queue, status>>

\* A thread in the middle of a call takes its next step.
Step(th) ==
  \/ TestStatus(th) \/ PopTask(th) \/ PopNothing(th) \/ LeaveLoop(th)
  \/ RunJob(th) \/ Publish(th) \/ NotifyWaiters(th)
  \/ TryDelete(th) \/ CheckDone(th) \/ CheckNotDone(th) \/ WaitDone(th)
  \/ WorkTask(th) \/ WorkNothing(th) \/ Join(th)

UseTask(c) == \E t \in Tasks : Put(c, t) \/ PutRejected(c, t) \/ ForceTask(c, t)
ShutDown(c) == Stop(c) \/ \E blocking \in BOOLEAN : Finish(c, blocking)

Next == \/ \E th \in Threads : Step(th) \/ SpuriousWakeup(th)
        \/ \E c \in Clients : UseTask(c) \/ ShutDown(c)

Spec == Init /\ [][Next]_vars

\* Every thread that can take the next step of a call does so some day.
\* Nobody has to start a call, and nothing wakes up without a reason.
FairSpec == Spec /\ \A th \in Threads : WF_vars(Step(th))

-----------------------------------------------------------------------------
(* Properties                                                              *)

Frames == [call : {"executeWorkLoop", "finish"} \cup JobCalls \cup ForceCalls,
           task : Tasks \cup {None},
           at   : {"test", "pop", "asleep", "awake", "null", "join", "run",
                   "publish", "notify", "try", "check", "lock"}]

\* Every variable has its type, the queue holds no task twice, and no stack
\* is deeper than a base frame and two calls for each task need.
TypeOK ==
  /\ taskStatus \in [Tasks -> {"notStarted", "inProgress", "done"}]
  /\ hasPool \subseteq Tasks
  /\ IsInjective(queue) /\ Range(queue) \subseteq hasPool
  /\ status \in {"running", "finishing", "stopNow"}
  /\ \A th \in Threads : /\ Range(stack[th]) \subseteq Frames
                         /\ Len(stack[th]) <= 2 + 2 * Cardinality(Tasks)

\* The calls, by thread and depth, in which task t's function is being run.
Runs(t) == {r \in Threads \X (1 .. 2 + 2 * Cardinality(Tasks)) :
              /\ r[2] \in DOMAIN stack[r[1]]
              /\ LET frame == stack[r[1]][r[2]]
                 IN  frame.call \in JobCalls /\ frame.task = t /\ frame.at # "notify"}

\* A task is run by exactly one thread, once: whichever of the workers, the
\* forcing threads and the helping threads gets it, the others leave it alone.
RunOnce ==
  \A t \in Tasks :
    /\ Cardinality(Runs(t)) = (IF taskStatus[t] = "inProgress" THEN 1 ELSE 0)
    /\ t \in Range(queue) => taskStatus[t] = "notStarted"

\* While a worker sleeps, at least one awake worker heads for the queue for
\* every task in it: one notify() per put() is enough, although a worker can
\* be notified while it is on its way to look at the queue anyway.
WorkConserving ==
  AsleepWorkers # {} =>
    Len(queue) <= Cardinality({w \in Threads :
                     In(w, {"executeWorkLoop"}, {"test", "pop", "awake"})})

\* Once the pool is being shut down no worker sleeps, even one that was
\* between testing the status and waiting when finish() or stop() was called.
NoWorkerLeftAsleep == status # "running" => AsleepWorkers = {}

\* A worker that stops a finishing pool leaves no task behind: only stop()
\* abandons the queue.
FinishDrains == Stoppers = {} /\ status = "stopNow" => queue = <<>>

\* "A call to workForce, yieldForce, or spinForce is used to ensure that the
\* Task has finished executing" (parallelism.d:397): the call returns.
ForceReturns == \A c \in Clients : In(c, ForceCalls, {"try"}) ~> Idle(c)

\* Every task that is put is executed, unless the pool is stopped.
TasksFinish == \A t \in Tasks : (t \in Range(queue)) ~> (taskStatus[t] = "done")

\* finish(true) returns to its caller, and all workers have ended by then.
FinishReturns == \A c \in Clients :
  (stack[c] # <<>> /\ stack[c][1] = Joins) ~> (Idle(c) /\ \A w \in Workers : stack[w] = <<>>)

\* The tasks, the queue and the sleepers together: nobody runs what another
\* runs, and nobody sleeps who is needed, for the tasks in the queue or to end.
PoolInv == TypeOK /\ RunOnce /\ WorkConserving /\ NoWorkerLeftAsleep

=============================================================================
