--------------------------- MODULE TaskPoolProofs ---------------------------
(***************************************************************************)
(* For any number of workers, clients and tasks, whatever the tasks need:  *)
(* a task is run once, and nobody sleeps who is needed.                    *)
(***************************************************************************)
EXTENDS TaskPool, SequenceTheorems, FiniteSetTheorems, TLAPS

(***************************************************************************)
(* Stacks                                                                  *)
(***************************************************************************)

\* Where a call waits for the one on top of it, and where it can be at all.
Pending == [finish |-> "join", executeWorkLoop |-> "test", doJob |-> "publish",
            tryDeleteExecute |-> "publish", spin |-> "check", yield |-> "check",
            work |-> "check"]
ForcePlaces == {"try", "check", "pop", "lock", "asleep", "awake"}
Places == [finish |-> {"join"},
           executeWorkLoop |-> {"test", "pop", "asleep", "awake", "null"},
           doJob |-> {"run", "publish", "notify"}, tryDeleteExecute |-> {"run", "publish"},
           spin |-> ForcePlaces, yield |-> ForcePlaces, work |-> ForcePlaces]

\* Which call may be called by which; a client's first call is called by nobody.
Calls(below, call) ==
  \/ below = "finish" /\ call = "executeWorkLoop"
  \/ below \in {"executeWorkLoop"} \cup ForceCalls /\ call \in JobCalls
  \/ below \in JobCalls /\ call \in ForceCalls

\* P are the tasks that it may be about.
GoodFrame(f, P) == /\ f.at \in Places[f.call]
                   /\ f.call \in JobCalls \cup ForceCalls => f.task \in P

WellFormed(s, P) ==
  /\ s \in Seq(Frames)
  /\ \A i \in 1 .. Len(s) : GoodFrame(s[i], P)
  /\ \A i \in 1 .. Len(s) - 1 : /\ s[i].at = Pending[s[i].call]
                                /\ Calls(s[i].call, s[i + 1].call)
  /\ s # <<>> => s[1].call \notin JobCalls

TopIn(s, calls, places) == s # <<>> /\ Last(s).call \in calls /\ Last(s).at \in places

\* The calls in a stack that run task t.
Works(s, t) ==
  {i \in 1 .. Len(s) : s[i].call \in JobCalls /\ s[i].task = t /\ s[i].at # "notify"}

LEMMA TopFacts ==
  ASSUME NEW s \in Seq(Frames), s # <<>>
  PROVE  /\ Len(s) \in Nat /\ Len(s) >= 1 /\ Last(s) = s[Len(s)] /\ Last(s) \in Frames
BY DEF Last

LEMMA FrontFacts ==
  ASSUME NEW s \in Seq(Frames), s # <<>>
  PROVE  /\ Front(s) \in Seq(Frames) /\ Len(Front(s)) = Len(s) - 1
         /\ \A i \in 1 .. Len(s) - 1 : Front(s)[i] = s[i]
         /\ Front(s) = <<>> <=> Len(s) = 1
<1>1. Len(s) \in Nat /\ Len(s) >= 1
  BY TopFacts
<1>2. \A i \in 1 .. Len(s) - 1 : s[i] \in Frames
  BY <1>1
<1>3. /\ Front(s) \in Seq(Frames) /\ Len(Front(s)) = Len(s) - 1
      /\ \A i \in 1 .. Len(s) - 1 : Front(s)[i] = s[i]
  <2> DEFINE n == Len(s) - 1
  <2>1. n \in Nat /\ 1 \in Int /\ n \in Int /\ n - 1 + 1 = n
    BY <1>1
  <2>2. \A i \in 1 .. n : s[i] \in Frames
    BY <1>2
  <2> HIDE DEF n
  <2>3. /\ SubSeq(s, 1, n) \in Seq(Frames)
        /\ Len(SubSeq(s, 1, n)) = IF 1 <= n THEN n - 1 + 1 ELSE 0
        /\ \A i \in 1 .. n - 1 + 1 : SubSeq(s, 1, n)[i] = s[1 + i - 1]
    BY <2>1, <2>2, SubSeqProperties
  <2>4. Len(SubSeq(s, 1, n)) = n /\ \A i \in 1 .. n : SubSeq(s, 1, n)[i] = s[i]
    BY <2>1, <2>3
  <2> QED BY <2>3, <2>4 DEF Front, n
<1>4. Front(s) = <<>> <=> Len(s) = 1
  BY <1>1, <1>3, EmptySeq
<1> QED BY <1>3, <1>4

LEMMA MoveFacts ==
  ASSUME NEW s \in Seq(Frames), s # <<>>, NEW place,
         [Last(s) EXCEPT !.at = place] \in Frames
  PROVE  LET m == MoveTop(s, place)
         IN  /\ m \in Seq(Frames) /\ Len(m) = Len(s) /\ m # <<>>
             /\ \A i \in 1 .. Len(s) - 1 : m[i] = s[i]
             /\ m[Len(s)] = [Last(s) EXCEPT !.at = place]
             /\ Last(m) = [Last(s) EXCEPT !.at = place]
<1> DEFINE f == [Last(s) EXCEPT !.at = place]
           m == MoveTop(s, place)
<1>1. m = Append(Front(s), f)
  BY DEF MoveTop
<1> HIDE DEF f
<1>2. /\ m \in Seq(Frames) /\ m # <<>> /\ Len(m) = Len(Front(s)) + 1
      /\ \A i \in 1 .. Len(Front(s)) : m[i] = Front(s)[i]
      /\ m[Len(Front(s)) + 1] = f
  BY <1>1, FrontFacts, AppendProperties DEF f
<1>3. Len(s) \in Nat /\ Len(s) >= 1
  BY TopFacts
<1> HIDE DEF m
<1>4. /\ Len(m) = Len(s) /\ \A i \in 1 .. Len(s) - 1 : m[i] = s[i]
      /\ m[Len(s)] = f
  BY <1>2, <1>3, FrontFacts
<1> QED BY <1>2, <1>4 DEF f, m, Last

LEMMA FrameMoves ==
  ASSUME NEW P, NEW f \in Frames, GoodFrame(f, P), NEW place \in Places[f.call]
  PROVE  LET g == [f EXCEPT !.at = place]
         IN  /\ g \in Frames /\ GoodFrame(g, P)
             /\ g.call = f.call /\ g.task = f.task /\ g.at = place
<1>1. f.call \in {"executeWorkLoop", "finish"} \cup JobCalls \cup ForceCalls
  BY DEF Frames
<1>2. place \in {"test", "pop", "asleep", "awake", "null", "join", "run",
                 "publish", "notify", "try", "check", "lock"}
  BY <1>1 DEF Places, ForcePlaces, JobCalls, ForceCalls
<1> QED BY <1>2 DEF Frames, GoodFrame

-----------------------------------------------------------------------------
(* The three ways in which a stack changes keep it well formed             *)

LEMMA WellFormedMove ==
  ASSUME NEW P, NEW s, WellFormed(s, P), s # <<>>, NEW place \in Places[Last(s).call]
  PROVE  LET m == MoveTop(s, place)
         IN  /\ WellFormed(m, P) /\ m # <<>> /\ Len(m) = Len(s)
             /\ Last(m).call = Last(s).call /\ Last(m).task = Last(s).task
             /\ Last(m).at = place
             /\ (Last(s).call \in JobCalls => (Last(s).at = "notify" <=> place = "notify"))
                  => \A t \in Tasks : Works(m, t) = Works(s, t)
             /\ Last(s).call \in JobCalls /\ place = "notify"
                  => \A t \in Tasks : Works(m, t) = Works(s, t) \ {Len(s)}
<1> DEFINE m == MoveTop(s, place)
           g == [Last(s) EXCEPT !.at = place]
<1>0. s \in Seq(Frames) /\ Len(s) \in Nat /\ Len(s) >= 1 /\ Last(s) = s[Len(s)]
      /\ Last(s) \in Frames /\ GoodFrame(Last(s), P)
  BY TopFacts DEF WellFormed
<1>1. /\ g \in Frames /\ GoodFrame(g, P)
      /\ g.call = Last(s).call /\ g.task = Last(s).task /\ g.at = place
  BY <1>0, FrameMoves
<1>2. /\ m \in Seq(Frames) /\ Len(m) = Len(s) /\ m # <<>>
      /\ \A i \in 1 .. Len(s) - 1 : m[i] = s[i]
      /\ m[Len(s)] = g /\ Last(m) = g
  BY <1>0, <1>1, MoveFacts
<1> HIDE DEF m, g
<1>3. \A i \in 1 .. Len(s) : m[i].call = s[i].call /\ m[i].task = s[i].task
  BY <1>0, <1>1, <1>2
<1>4. WellFormed(m, P)
  <2>1. \A i \in 1 .. Len(m) : GoodFrame(m[i], P)
    <3> TAKE i \in 1 .. Len(m)
    <3>1. CASE i = Len(s)
      BY <3>1, <1>1, <1>2
    <3>2. CASE i \in 1 .. Len(s) - 1
      BY <3>2, <1>0, <1>2 DEF WellFormed
    <3> QED BY <3>1, <3>2, <1>0, <1>2
  <2>2. \A i \in 1 .. Len(m) - 1 : /\ m[i].at = Pending[m[i].call]
                                   /\ Calls(m[i].call, m[i + 1].call)
    <3> TAKE i \in 1 .. Len(m) - 1
    <3>1. i \in 1 .. Len(s) - 1 /\ i \in 1 .. Len(s) /\ i + 1 \in 1 .. Len(s)
      BY <1>0, <1>2
    <3> QED BY <3>1, <1>2, <1>3 DEF WellFormed
  <2>3. m[1].call \notin JobCalls
    BY <1>0, <1>3 DEF WellFormed
  <2> QED BY <2>1, <2>2, <2>3, <1>2 DEF WellFormed
<1>5. ASSUME Last(s).call \in JobCalls => (Last(s).at = "notify" <=> place = "notify"),
             NEW t \in Tasks
      PROVE  Works(m, t) = Works(s, t)
  <2>1. \A i \in 1 .. Len(s) : m[i].call \in JobCalls =>
                               (m[i].at = "notify" <=> s[i].at = "notify")
    BY <1>0, <1>1, <1>2, <1>5
  <2> QED BY <2>1, <1>2, <1>3 DEF Works
<1>6. ASSUME Last(s).call \in JobCalls, place = "notify", NEW t \in Tasks
      PROVE  Works(m, t) = Works(s, t) \ {Len(s)}
  <2>1. m[Len(s)].at = "notify" /\ \A i \in 1 .. Len(s) - 1 : m[i].at = s[i].at
    BY <1>0, <1>1, <1>2, <1>6
  <2>2. \A i \in 1 .. Len(s) : i \in Works(m, t) <=> i \in Works(s, t) \ {Len(s)}
    BY <2>1, <1>0, <1>2, <1>3 DEF Works
  <2> QED BY <2>2, <1>2 DEF Works
<1> QED BY <1>1, <1>2, <1>4, <1>5, <1>6 DEF m

LEMMA WellFormedReturn ==
  ASSUME NEW P, NEW s, WellFormed(s, P), s # <<>>
  PROVE  LET r == Front(s)
         IN  /\ WellFormed(r, P)
             /\ \A t \in Tasks : Works(r, t) = Works(s, t) \ {Len(s)}
             /\ r # <<>> => /\ Last(r).at = Pending[Last(r).call]
                            /\ Calls(Last(r).call, Last(s).call)
<1> DEFINE r == Front(s)
<1>0. s \in Seq(Frames) /\ Len(s) \in Nat /\ Len(s) >= 1 /\ Last(s) = s[Len(s)]
  BY TopFacts DEF WellFormed
<1>1. /\ r \in Seq(Frames) /\ Len(r) = Len(s) - 1
      /\ \A i \in 1 .. Len(s) - 1 : r[i] = s[i]
      /\ r = <<>> <=> Len(s) = 1
  BY <1>0, FrontFacts
<1> HIDE DEF r
<1>2. WellFormed(r, P)
  <2>1. \A i \in 1 .. Len(r) : GoodFrame(r[i], P)
    BY <1>0, <1>1 DEF WellFormed
  <2>2. \A i \in 1 .. Len(r) - 1 : /\ r[i].at = Pending[r[i].call]
                                   /\ Calls(r[i].call, r[i + 1].call)
    <3> TAKE i \in 1 .. Len(r) - 1
    <3>1. i \in 1 .. Len(s) - 1 /\ i + 1 \in 1 .. Len(s) - 1
      BY <1>0, <1>1
    <3> QED BY <3>1, <1>1 DEF WellFormed
  <2>3. r # <<>> => r[1].call \notin JobCalls
    BY <1>0, <1>1 DEF WellFormed
  <2> QED BY <2>1, <2>2, <2>3, <1>1 DEF WellFormed
<1>3. ASSUME NEW t \in Tasks PROVE Works(r, t) = Works(s, t) \ {Len(s)}
  BY <1>0, <1>1 DEF Works
<1>4. ASSUME r # <<>>
      PROVE  Last(r).at = Pending[Last(r).call] /\ Calls(Last(r).call, Last(s).call)
  <2>1. Len(s) - 1 \in 1 .. Len(s) - 1 /\ Last(r) = s[Len(s) - 1] /\ Len(s) - 1 + 1 = Len(s)
    BY <1>0, <1>1, <1>4 DEF Last
  <2> QED BY <2>1, <1>0 DEF WellFormed
<1> QED BY <1>2, <1>3, <1>4 DEF r

LEMMA WellFormedPush ==
  ASSUME NEW P, NEW s, WellFormed(s, P), NEW f \in Frames, GoodFrame(f, P),
         IF s = <<>> THEN f.call \notin JobCalls
         ELSE Last(s).at = Pending[Last(s).call] /\ Calls(Last(s).call, f.call)
  PROVE  LET p == Append(s, f)
         IN  /\ WellFormed(p, P) /\ p # <<>> /\ Last(p) = f /\ Len(p) = Len(s) + 1
             /\ Len(s) \in Nat
             /\ \A t \in Tasks : Works(p, t) = Works(s, t) \cup
                  (IF f.call \in JobCalls /\ f.task = t /\ f.at # "notify"
                   THEN {Len(s) + 1} ELSE {})
<1> DEFINE p == Append(s, f)
<1>0. s \in Seq(Frames) /\ Len(s) \in Nat
  BY DEF WellFormed
<1>1. /\ p \in Seq(Frames) /\ p # <<>> /\ Len(p) = Len(s) + 1
      /\ \A i \in 1 .. Len(s) : p[i] = s[i]
      /\ p[Len(s) + 1] = f
  BY <1>0, AppendProperties
<1> HIDE DEF p
<1>2. Last(p) = f
  BY <1>1 DEF Last
<1>3. \A i \in 1 .. Len(p) : GoodFrame(p[i], P)
  <2> TAKE i \in 1 .. Len(p)
  <2>1. CASE i = Len(s) + 1
    BY <2>1, <1>1
  <2>2. CASE i \in 1 .. Len(s)
    BY <2>2, <1>1 DEF WellFormed
  <2> QED BY <2>1, <2>2, <1>0, <1>1
<1>4. \A i \in 1 .. Len(p) - 1 : /\ p[i].at = Pending[p[i].call]
                                 /\ Calls(p[i].call, p[i + 1].call)
  <2> TAKE i \in 1 .. Len(p) - 1
  <2>1. CASE i = Len(s)
    <3>1. s # <<>> /\ Last(s) = s[i] /\ p[i] = s[i] /\ p[i + 1] = f
      BY <2>1, <1>0, <1>1 DEF Last
    <3> QED BY <3>1
  <2>2. CASE i \in 1 .. Len(s) - 1
    <3>1. i \in 1 .. Len(s) /\ i + 1 \in 1 .. Len(s)
      BY <2>2, <1>0
    <3> QED BY <3>1, <2>2, <1>1 DEF WellFormed
  <2> QED BY <2>1, <2>2, <1>0, <1>1
<1>5. p[1].call \notin JobCalls
  <2>1. CASE s = <<>>
    BY <2>1, <1>1
  <2>2. CASE s # <<>>
    BY <2>2, <1>0, <1>1 DEF WellFormed
  <2> QED BY <2>1, <2>2
<1>6. WellFormed(p, P)
  BY <1>1, <1>3, <1>4, <1>5 DEF WellFormed
<1>7. ASSUME NEW t \in Tasks
      PROVE  Works(p, t) = Works(s, t) \cup
                  (IF f.call \in JobCalls /\ f.task = t /\ f.at # "notify"
                   THEN {Len(s) + 1} ELSE {})
  <2>1. 1 .. Len(p) = (1 .. Len(s)) \cup {Len(s) + 1}
    BY <1>0, <1>1
  <2> QED BY <2>1, <1>0, <1>1 DEF Works
<1> QED BY <1>0, <1>1, <1>2, <1>6, <1>7 DEF p

LEMMA WellFormedMore ==
  ASSUME NEW P, NEW Q, P \subseteq Q, NEW s, WellFormed(s, P)
  PROVE  WellFormed(s, Q)
BY DEF WellFormed, GoodFrame

(***************************************************************************)
(* The inductive invariant                                                 *)
(***************************************************************************)

Sleeps(s) == TopIn(s, {"executeWorkLoop"}, {"asleep"})
Heads(s) == TopIn(s, {"executeWorkLoop"}, {"test", "pop", "awake"})
Leaves(s) == TopIn(s, {"executeWorkLoop"}, {"null"})
Notifies(s) == TopIn(s, {"doJob"}, {"notify"})

Types == /\ taskStatus \in [Tasks -> {"notStarted", "inProgress", "done"}]
         /\ hasPool \subseteq Tasks
         /\ queue \in Seq(Tasks) /\ IsInjective(queue) /\ Range(queue) \subseteq hasPool
         /\ status \in {"running", "finishing", "stopNow"}

StacksRight == /\ stack \in [Threads -> Seq(Frames)]
               /\ \A th \in Threads : WellFormed(stack[th], hasPool)

\* RunOnce without counting.
OneRuns ==
  \A t \in Tasks :
    /\ \A th, u \in Threads : \A i \in Works(stack[th], t), j \in Works(stack[u], t) :
         th = u /\ i = j
    /\ taskStatus[t] = "inProgress" <=> \E th \in Threads : Works(stack[th], t) # {}

QueueFresh == \A i \in 1 .. Len(queue) : taskStatus[queue[i]] = "notStarted"

\* Only what has been put is started, and it needs nothing else.
PutFirst == /\ \A t \in Tasks : taskStatus[t] # "notStarted" => t \in hasPool
            /\ \A t \in hasPool : Needs[t] \subseteq hasPool

\* A job whose waiters are still to be notified is done; so its task is not run
\* again further down.
NotifiesDone == \A th \in Threads : Notifies(stack[th]) => taskStatus[Last(stack[th]).task] = "done"

\* A worker that found nothing to do in a pool that is shutting down is right
\* for good: nothing is put any more.
NothingCame == \A th \in Threads : Leaves(stack[th]) => status # "running" /\ queue = <<>>

Heading == {w \in Threads : Heads(stack[w])}

IInv == /\ Types /\ StacksRight /\ OneRuns /\ QueueFresh /\ PutFirst /\ NotifiesDone /\ NothingCame
        /\ WorkConserving /\ NoWorkerLeftAsleep /\ FinishDrains

SetsOfThreads ==
  /\ IsFiniteSet(Threads) /\ Heading \subseteq Threads /\ IsFiniteSet(Heading)
  /\ Cardinality(Heading) \in Nat
  /\ AsleepWorkers = {w \in Threads : Sleeps(stack[w])}
  /\ AsleepWaiters = {w \in Threads : TopIn(stack[w], ForceCalls, {"asleep"})}
  /\ WorkConserving <=> (AsleepWorkers # {} => Len(queue) <= Cardinality(Heading))

LEMMA ThreadFacts == SetsOfThreads
<1>1. IsFiniteSet(Threads)
  BY FiniteOK, FS_Union DEF Threads
<1>2. Heading \subseteq Threads
  BY DEF Heading
<1>3. IsFiniteSet(Heading) /\ Cardinality(Heading) \in Nat
  BY <1>1, <1>2, FS_Subset, FS_CardinalityType
<1>4. /\ AsleepWorkers = {w \in Threads : Sleeps(stack[w])}
      /\ AsleepWaiters = {w \in Threads : TopIn(stack[w], ForceCalls, {"asleep"})}
  BY DEF AsleepWorkers, AsleepWaiters, Asleep, Sleeps, TopIn, In, Top
<1>5. Heading = {w \in Threads : In(w, {"executeWorkLoop"}, {"test", "pop", "awake"})}
  BY DEF Heading, Heads, TopIn, In, Top
<1> QED BY <1>1, <1>2, <1>3, <1>4, <1>5 DEF WorkConserving, SetsOfThreads

LEMMA ThreadFactsAfter ==
  /\ IsFiniteSet(Threads) /\ IsFiniteSet(Heading') /\ Cardinality(Heading') \in Nat
  /\ Heading' = {w \in Threads : Heads(stack'[w])}
  /\ AsleepWorkers' = {w \in Threads : Sleeps(stack'[w])}
  /\ WorkConserving' <=> (AsleepWorkers' # {} => Len(queue') <= Cardinality(Heading'))
<1>1. SetsOfThreads'
  BY ThreadFacts, PTL
<1>2. Heading' = {w \in Threads : Heads(stack'[w])}
  BY DEF Heading
<1> QED BY <1>1, <1>2 DEF SetsOfThreads

\* The stack of th becomes s, and the sleepers in S wake up.
StackBecomes(th, s, S) ==
  stack' = [u \in Threads |-> IF u = th THEN s
                              ELSE IF u \in S THEN MoveTop(stack[u], "awake")
                              ELSE stack[u]]

\* What such a step does to the stacks of the others: it may wake them up.
OthersKeep(th, S) ==
  \A u \in Threads \ {th} :
    /\ \A t \in Tasks : Works(stack'[u], t) = Works(stack[u], t)
    /\ Sleeps(stack'[u]) <=> Sleeps(stack[u]) /\ u \notin S
    /\ Heads(stack[u]) => Heads(stack'[u])
    /\ Sleeps(stack[u]) /\ u \in S => Heads(stack'[u])
    /\ Leaves(stack'[u]) => Leaves(stack[u])
    /\ Notifies(stack'[u]) => stack'[u] = stack[u]

LEMMA Others ==
  ASSUME StacksRight, NEW th \in Threads, NEW S, S \subseteq AsleepWorkers \cup AsleepWaiters,
         NEW s, WellFormed(s, hasPool), StackBecomes(th, s, S), hasPool \subseteq hasPool'
  PROVE  StacksRight' /\ stack'[th] = s /\ OthersKeep(th, S)
<1>1. ASSUME NEW u \in Threads, u # th
      PROVE  /\ WellFormed(stack'[u], hasPool)
             /\ \A t \in Tasks : Works(stack'[u], t) = Works(stack[u], t)
             /\ Sleeps(stack'[u]) <=> Sleeps(stack[u]) /\ u \notin S
             /\ Heads(stack[u]) => Heads(stack'[u])
             /\ Sleeps(stack[u]) /\ u \in S => Heads(stack'[u])
             /\ Leaves(stack'[u]) => Leaves(stack[u])
             /\ Notifies(stack'[u]) => stack'[u] = stack[u]
  <2>1. CASE u \notin S
    <3>1. stack'[u] = stack[u]
      BY <1>1, <2>1 DEF StackBecomes
    <3> QED BY <3>1, <2>1 DEF StacksRight
  <2>2. CASE u \in S
    <3>1. stack'[u] = MoveTop(stack[u], "awake")
      BY <1>1, <2>2 DEF StackBecomes
    <3>2. /\ stack[u] # <<>> /\ Last(stack[u]).at = "asleep"
          /\ Last(stack[u]).call \in {"executeWorkLoop"} \cup ForceCalls
      BY <2>2, ThreadFacts DEF SetsOfThreads, Sleeps, TopIn
    <3>3. "awake" \in Places[Last(stack[u]).call] /\ Last(stack[u]).call \notin JobCalls
      BY <3>2 DEF Places, ForcePlaces, ForceCalls, JobCalls
    <3>4. LET m == stack'[u]
          IN  /\ WellFormed(m, hasPool) /\ m # <<>>
              /\ Last(m).call = Last(stack[u]).call /\ Last(m).at = "awake"
              /\ \A t \in Tasks : Works(m, t) = Works(stack[u], t)
      BY <3>1, <3>2, <3>3, WellFormedMove DEF StacksRight
    <3> QED BY <3>2, <3>4, <2>2 DEF Sleeps, Heads, Leaves, Notifies, TopIn
  <2> QED BY <2>1, <2>2
<1>2. stack'[th] = s
  BY DEF StackBecomes
<1>3. \A u \in Threads : WellFormed(stack'[u], hasPool') /\ stack'[u] \in Seq(Frames)
  <2>1. \A u \in Threads : WellFormed(stack'[u], hasPool)
    BY <1>1, <1>2
  <2> QED BY <2>1, WellFormedMore DEF WellFormed
<1>4. stack' \in [Threads -> Seq(Frames)]
  <2>1. DOMAIN stack' = Threads /\ stack' = [u \in Threads |-> stack'[u]]
    BY DEF StackBecomes
  <2> QED BY <2>1, <1>3
<1> QED BY <1>1, <1>2, <1>3, <1>4 DEF StacksRight, OthersKeep

-----------------------------------------------------------------------------
(* A step that starts no task, finishes none and puts none                 *)

LEMMA RunsKept ==
  ASSUME OneRuns, UNCHANGED taskStatus,
         \A u \in Threads, t \in Tasks : Works(stack'[u], t) = Works(stack[u], t)
  PROVE  OneRuns'
<1> SUFFICES ASSUME NEW t \in Tasks
             PROVE  /\ \A th, u \in Threads :
                         \A i \in Works(stack'[th], t), j \in Works(stack'[u], t) :
                           th = u /\ i = j
                    /\ taskStatus'[t] = "inProgress"
                         <=> \E th \in Threads : Works(stack'[th], t) # {}
  BY DEF OneRuns, Works
<1>1. \A u \in Threads : Works(stack'[u], t) = Works(stack[u], t)
  OBVIOUS
<1>2. \A th, u \in Threads : \A i \in Works(stack[th], t), j \in Works(stack[u], t) :
        th = u /\ i = j
  BY DEF OneRuns
<1>3. \A th, u \in Threads : \A i \in Works(stack'[th], t), j \in Works(stack'[u], t) :
        th = u /\ i = j
  BY <1>1, <1>2
<1>4. taskStatus[t] = "inProgress" <=> \E th \in Threads : Works(stack[th], t) # {}
  BY DEF OneRuns
<1>5. taskStatus'[t] = "inProgress" <=> \E th \in Threads : Works(stack'[th], t) # {}
  BY <1>1, <1>4
<1> QED BY <1>3, <1>5

LEMMA KeepStep ==
  ASSUME IInv, NEW th \in Threads, NEW S, S \subseteq AsleepWorkers \cup AsleepWaiters,
         NEW s, WellFormed(s, hasPool), StackBecomes(th, s, S),
         UNCHANGED <<taskStatus, hasPool, queue>>,
         \A t \in Tasks : Works(s, t) = Works(stack[th], t),
         Sleeps(s) => status' = "running" /\ queue = <<>>,
         Heads(stack[th]) => Heads(s) \/ queue = <<>> \/ status # "running",
         Leaves(s) => status' # "running" /\ queue = <<>>,
         Notifies(s) => taskStatus[Last(s).task] = "done",
         \/ status' = status
         \/ /\ status' \in {"finishing", "stopNow"}
            /\ AsleepWorkers \subseteq S \cup {th} \/ status # "running",
         Stoppers = {} /\ status' = "stopNow" => queue = <<>>
  PROVE  IInv'
<1>0. StacksRight' /\ stack'[th] = s /\ OthersKeep(th, S)
  <2>1. StacksRight
    BY DEF IInv
  <2> QED BY <2>1, Others
<1>1. /\ StacksRight' /\ stack'[th] = s
      /\ \A u \in Threads \ {th} :
           /\ \A t \in Tasks : Works(stack'[u], t) = Works(stack[u], t)
           /\ Sleeps(stack'[u]) <=> Sleeps(stack[u]) /\ u \notin S
           /\ Heads(stack[u]) => Heads(stack'[u])
           /\ Leaves(stack'[u]) => Leaves(stack[u])
           /\ Notifies(stack'[u]) => stack'[u] = stack[u]
  BY <1>0 DEF OthersKeep
<1>2. Types'
  BY DEF IInv, Types
<1>3. OneRuns'
  <2>1. \A u \in Threads, t \in Tasks : Works(stack'[u], t) = Works(stack[u], t)
    BY <1>1
  <2> QED BY <2>1, RunsKept DEF IInv
<1>4. QueueFresh' /\ PutFirst'
  BY DEF IInv, QueueFresh, PutFirst
<1>5. NotifiesDone'
  <2> SUFFICES ASSUME NEW u \in Threads, Notifies(stack'[u])
               PROVE  taskStatus'[Last(stack'[u]).task] = "done"
    BY DEF NotifiesDone, Notifies, TopIn, Last
  <2>1. CASE u = th
    BY <2>1, <1>1
  <2>2. CASE u # th
    BY <2>2, <1>1 DEF IInv, NotifiesDone
  <2> QED BY <2>1, <2>2
<1>6. NothingCame'
  <2> SUFFICES ASSUME NEW u \in Threads, Leaves(stack'[u])
               PROVE  status' # "running" /\ queue' = <<>>
    BY DEF NothingCame, Leaves, TopIn, Last
  <2>1. CASE u = th
    BY <2>1, <1>1
  <2>2. CASE u # th
    BY <2>2, <1>1 DEF IInv, NothingCame
  <2> QED BY <2>1, <2>2
<1>7. \A u \in AsleepWorkers' : u \in Threads /\ Sleeps(stack'[u])
  BY ThreadFactsAfter
<1>8. NoWorkerLeftAsleep'
  <2> SUFFICES ASSUME status' # "running", NEW u \in AsleepWorkers' PROVE FALSE
    BY DEF NoWorkerLeftAsleep
  <2>1. u \in Threads /\ Sleeps(stack'[u])
    BY <1>7
  <2>2. u # th
    BY <1>1, <2>1
  <2>3. u \in AsleepWorkers /\ u \notin S
    BY <1>1, <2>1, <2>2, ThreadFacts DEF SetsOfThreads
  <2> QED BY <2>2, <2>3 DEF IInv, NoWorkerLeftAsleep
<1>9. WorkConserving'
  <2> SUFFICES ASSUME NEW u \in AsleepWorkers' PROVE Len(queue) <= Cardinality(Heading')
    BY ThreadFactsAfter
  <2>1. CASE queue = <<>>
    BY ThreadFactsAfter, <2>1
  <2>2. CASE queue # <<>>
    <3>1. u \in Threads /\ u # th /\ Sleeps(stack'[u])
      BY <1>1, <1>7, <2>2
    <3>2. u \in AsleepWorkers
      BY <1>1, <3>1, ThreadFacts DEF SetsOfThreads
    <3>3. status = "running"
      BY <3>2 DEF IInv, NoWorkerLeftAsleep
    <3>4. Heading \subseteq Heading'
      BY <1>1, ThreadFactsAfter, <2>2, <3>3 DEF Heading
    <3>5. Cardinality(Heading) <= Cardinality(Heading')
      BY ThreadFactsAfter, <3>4, FS_Subset
    <3>6. Len(queue) <= Cardinality(Heading) /\ Len(queue) \in Nat
      BY <3>2, ThreadFacts DEF SetsOfThreads, IInv, Types
    <3> QED BY ThreadFactsAfter, <3>5, <3>6, ThreadFacts DEF SetsOfThreads
  <2> QED BY <2>1, <2>2
<1>10. FinishDrains'
  BY DEF FinishDrains
<1> QED BY <1>1, <1>2, <1>3, <1>4, <1>5, <1>6, <1>8, <1>9, <1>10 DEF IInv

-----------------------------------------------------------------------------
(* A thread starts a task, or finishes one                                 *)

\* Whichever task it is, the others sleep, head and leave as they did.
LEMMA SleepStep ==
  ASSUME IInv, NEW th \in Threads, NEW s, WellFormed(s, hasPool), StackBecomes(th, s, {}),
         UNCHANGED <<hasPool, status>>, ~Sleeps(s), ~Leaves(s),
         queue' \in Seq(Tasks), Len(queue') <= Len(queue),
         Heads(stack[th]) /\ ~Heads(s) => Len(queue') + 1 <= Len(queue)
  PROVE  /\ StacksRight' /\ stack'[th] = s /\ OthersKeep(th, {})
         /\ NothingCame' /\ NoWorkerLeftAsleep' /\ WorkConserving' /\ FinishDrains'
<1>0. StacksRight' /\ stack'[th] = s /\ OthersKeep(th, {})
  <2>1. StacksRight
    BY DEF IInv
  <2> QED BY <2>1, Others
<1>1. queue \in Seq(Tasks) /\ Len(queue) \in Nat /\ Len(queue') \in Nat
  BY DEF IInv, Types
<1>2. queue = <<>> => queue' = <<>>
  BY <1>1
<1>3. \A u \in Threads : Sleeps(stack'[u]) => u # th /\ Sleeps(stack[u])
  BY <1>0 DEF OthersKeep
<1>4. NothingCame'
  <2> SUFFICES ASSUME NEW u \in Threads, Leaves(stack'[u])
               PROVE  status' # "running" /\ queue' = <<>>
    BY DEF NothingCame, Leaves, TopIn, Last
  <2>1. u # th
    BY <1>0
  <2> QED BY <2>1, <1>0, <1>2 DEF OthersKeep, IInv, NothingCame
<1>5. \A u \in AsleepWorkers' : u \in AsleepWorkers
  BY <1>3, ThreadFacts, ThreadFactsAfter DEF SetsOfThreads
<1>6. NoWorkerLeftAsleep'
  BY <1>5 DEF IInv, NoWorkerLeftAsleep
<1>7. WorkConserving'
  <2> SUFFICES ASSUME AsleepWorkers' # {} PROVE Len(queue') <= Cardinality(Heading')
    BY ThreadFactsAfter
  <2>0. Len(queue) <= Cardinality(Heading)
    BY <1>5, ThreadFacts DEF SetsOfThreads, IInv
  <2>1. \A u \in Threads \ {th} : Heads(stack[u]) => Heads(stack'[u])
    BY <1>0 DEF OthersKeep
  <2>2. Heading \ {th} \subseteq Heading'
    BY <2>1, ThreadFactsAfter DEF Heading
  <2>3. CASE th \in Heading /\ th \notin Heading'
    <3>1. Len(queue') + 1 <= Len(queue)
      BY <2>3, <1>0, ThreadFactsAfter DEF Heading
    <3>2. Cardinality(Heading \ {th}) = Cardinality(Heading) - 1
      BY <2>3, ThreadFacts, FS_RemoveElement DEF SetsOfThreads
    <3>3. Cardinality(Heading \ {th}) <= Cardinality(Heading')
      BY <2>2, ThreadFactsAfter, FS_Subset
    <3> QED BY <1>1, <2>0, <3>1, <3>2, <3>3, ThreadFacts, ThreadFactsAfter DEF SetsOfThreads
  <2>4. CASE th \notin Heading \/ th \in Heading'
    <3>1. Heading \subseteq Heading'
      BY <2>2, <2>4
    <3>2. Cardinality(Heading) <= Cardinality(Heading')
      BY <3>1, ThreadFactsAfter, FS_Subset
    <3> QED BY <1>1, <2>0, <3>2, ThreadFacts, ThreadFactsAfter DEF SetsOfThreads
  <2> QED BY <2>3, <2>4
<1>8. FinishDrains'
  BY <1>2 DEF IInv, FinishDrains
<1> QED BY <1>0, <1>4, <1>6, <1>7, <1>8

\* th has one more job for t, at place k of its stack.
GainsRun(th, t, k) ==
  /\ \A u \in Threads \ {th}, x \in Tasks : Works(stack'[u], x) = Works(stack[u], x)
  /\ \A x \in Tasks : Works(stack'[th], x) = Works(stack[th], x) \cup (IF x = t THEN {k} ELSE {})

LEMMA RunsStarted ==
  ASSUME OneRuns, NEW th \in Threads, NEW t \in Tasks, NEW k,
         taskStatus \in [Tasks -> {"notStarted", "inProgress", "done"}],
         taskStatus[t] = "notStarted",
         taskStatus' = [taskStatus EXCEPT ![t] = "inProgress"], GainsRun(th, t, k)
  PROVE  OneRuns'
<1> USE DEF GainsRun
<1> SUFFICES ASSUME NEW x \in Tasks
             PROVE  /\ \A v, u \in Threads :
                         \A i \in Works(stack'[v], x), j \in Works(stack'[u], x) :
                           v = u /\ i = j
                    /\ taskStatus'[x] = "inProgress"
                         <=> \E u \in Threads : Works(stack'[u], x) # {}
  BY DEF OneRuns, Works
<1>1. /\ \A v, u \in Threads : \A i \in Works(stack[v], x), j \in Works(stack[u], x) :
           v = u /\ i = j
      /\ taskStatus[x] = "inProgress" <=> \E u \in Threads : Works(stack[u], x) # {}
  BY DEF OneRuns
<1>2. CASE x # t
  <2>1. \A u \in Threads : Works(stack'[u], x) = Works(stack[u], x)
    BY <1>2
  <2>2. taskStatus'[x] = taskStatus[x]
    BY <1>2
  <2>3. \A v, u \in Threads : \A i \in Works(stack'[v], x), j \in Works(stack'[u], x) :
          v = u /\ i = j
    BY <2>1, <1>1
  <2> QED BY <2>1, <2>2, <2>3, <1>1
<1>3. CASE x = t
  <2>1. \A u \in Threads : Works(stack[u], x) = {}
    BY <1>1, <1>3
  <2>2. Works(stack'[th], x) = {k} /\ \A u \in Threads \ {th} : Works(stack'[u], x) = {}
    BY <1>3, <2>1
  <2>3. taskStatus'[x] = "inProgress"
    BY <1>3
  <2>4. \A v, u \in Threads : \A i \in Works(stack'[v], x), j \in Works(stack'[u], x) :
          v = u /\ i = j
    BY <2>2
  <2> QED BY <2>2, <2>3, <2>4
<1> QED BY <1>2, <1>3

LEMMA RunsFinished ==
  ASSUME OneRuns, NEW th \in Threads, NEW t \in Tasks, NEW k,
         taskStatus \in [Tasks -> {"notStarted", "inProgress", "done"}],
         taskStatus' = [taskStatus EXCEPT ![t] = "done"],
         \A u \in Threads \ {th}, x \in Tasks : Works(stack'[u], x) = Works(stack[u], x),
         \A x \in Tasks : Works(stack'[th], x) = Works(stack[th], x) \ {k},
         k \in Works(stack[th], t), \A x \in Tasks \ {t} : k \notin Works(stack[th], x)
  PROVE  OneRuns'
<1> SUFFICES ASSUME NEW x \in Tasks
             PROVE  /\ \A v, u \in Threads :
                         \A i \in Works(stack'[v], x), j \in Works(stack'[u], x) :
                           v = u /\ i = j
                    /\ taskStatus'[x] = "inProgress"
                         <=> \E u \in Threads : Works(stack'[u], x) # {}
  BY DEF OneRuns, Works
<1>1. /\ \A v, u \in Threads : \A i \in Works(stack[v], x), j \in Works(stack[u], x) :
           v = u /\ i = j
      /\ taskStatus[x] = "inProgress" <=> \E u \in Threads : Works(stack[u], x) # {}
  BY DEF OneRuns
<1>2. CASE x # t
  <2>1. \A u \in Threads : Works(stack'[u], x) = Works(stack[u], x)
    BY <1>2
  <2>2. taskStatus'[x] = taskStatus[x]
    BY <1>2
  <2>3. \A v, u \in Threads : \A i \in Works(stack'[v], x), j \in Works(stack'[u], x) :
          v = u /\ i = j
    BY <2>1, <1>1
  <2> QED BY <2>1, <2>2, <2>3, <1>1
<1>3. CASE x = t
  <2>1. \A u \in Threads \ {th} : Works(stack[u], x) = {}
    BY <1>1, <1>3
  <2>2. Works(stack[th], x) \subseteq {k}
    BY <1>1, <1>3
  <2>3. \A u \in Threads : Works(stack'[u], x) = {}
    BY <2>1, <2>2
  <2>4. taskStatus'[x] = "done"
    BY <1>3
  <2> QED BY <2>3, <2>4
<1> QED BY <1>2, <1>3

LEMMA StartStep ==
  ASSUME IInv, NEW th \in Threads, stack[th] # <<>>,
         Last(stack[th]).call \in {"executeWorkLoop"} \cup ForceCalls,
         NEW t \in hasPool, taskStatus[t] = "notStarted", NEW caller \in JobCalls,
         stack' = [stack EXCEPT ![th] = Append(MoveTop(@, Pending[Last(stack[th]).call]),
                                               Job(caller, t))],
         taskStatus' = [taskStatus EXCEPT ![t] = "inProgress"],
         UNCHANGED <<hasPool, status>>,
         queue' \in Seq(Tasks), IsInjective(queue'), Range(queue') = Range(queue) \ {t},
         Len(queue') <= Len(queue),
         Heads(stack[th]) => Len(queue') + 1 <= Len(queue)
  PROVE  IInv'
<1> DEFINE old == stack[th]
           m == MoveTop(old, Pending[Last(old).call])
           f == Job(caller, t)
           s == Append(m, f)
<1>0. /\ WellFormed(old, hasPool) /\ old # <<>> /\ hasPool \subseteq Tasks /\ t \in Tasks
      /\ taskStatus \in [Tasks -> {"notStarted", "inProgress", "done"}]
      /\ stack \in [Threads -> Seq(Frames)]
  BY DEF IInv, Types, StacksRight
<1>1. /\ Pending[Last(old).call] \in Places[Last(old).call]
      /\ Last(old).call \notin JobCalls
  BY DEF Pending, Places, ForceCalls, ForcePlaces, JobCalls
<1>2. /\ WellFormed(m, hasPool) /\ m # <<>> /\ Last(m).call = Last(old).call
      /\ Last(m).at = Pending[Last(old).call]
      /\ \A x \in Tasks : Works(m, x) = Works(old, x)
  BY <1>0, <1>1, WellFormedMove
<1>3. f \in Frames /\ f.call = caller /\ f.task = t /\ f.at = "run" /\ GoodFrame(f, hasPool)
  BY <1>0 DEF Job, Frame, Frames, GoodFrame, Places, JobCalls
<1> HIDE DEF m, f
<1>4. /\ WellFormed(s, hasPool) /\ s # <<>> /\ Last(s) = f
      /\ \A x \in Tasks : Works(s, x) = Works(m, x) \cup (IF x = t THEN {Len(m) + 1} ELSE {})
  BY <1>2, <1>3, WellFormedPush DEF Calls
<1>5. StackBecomes(th, s, {})
  BY <1>0 DEF StackBecomes, m, f
<1> HIDE DEF s
<1>6. ~Sleeps(s) /\ ~Leaves(s) /\ ~Notifies(s)
  BY <1>3, <1>4 DEF Sleeps, Leaves, Notifies, TopIn, JobCalls
<1>7. /\ StacksRight' /\ stack'[th] = s /\ OthersKeep(th, {})
      /\ NothingCame' /\ NoWorkerLeftAsleep' /\ WorkConserving' /\ FinishDrains'
  BY <1>4, <1>5, <1>6, SleepStep
<1>8. Types'
  BY <1>0 DEF IInv, Types
<1>9. QueueFresh' /\ PutFirst'
  <2>1. ASSUME NEW i \in 1 .. Len(queue') PROVE taskStatus'[queue'[i]] = "notStarted"
    <3>1. queue'[i] \in Range(queue')
      BY DEF Range
    <3>2. queue'[i] \in Range(queue) /\ queue'[i] # t
      BY <3>1
    <3>3. queue \in Seq(Tasks)
      BY DEF IInv, Types
    <3>4. PICK j \in 1 .. Len(queue) : queue[j] = queue'[i] /\ queue[j] # t
      BY <3>2, <3>3 DEF Range
    <3>5. taskStatus[queue[j]] = "notStarted" /\ queue[j] \in Tasks
      BY <3>3 DEF IInv, QueueFresh
    <3> QED BY <3>4, <3>5, <1>0
  <2> QED BY <2>1, <1>0 DEF IInv, QueueFresh, PutFirst
<1>10. NotifiesDone'
  <2> SUFFICES ASSUME NEW u \in Threads, Notifies(stack'[u])
               PROVE  taskStatus'[Last(stack'[u]).task] = "done"
    BY DEF NotifiesDone, Notifies, TopIn, Last
  <2>1. u # th
    BY <1>6, <1>7
  <2>2. stack'[u] = stack[u] /\ Notifies(stack[u])
    BY <2>1, <1>7 DEF OthersKeep
  <2>3. taskStatus[Last(stack[u]).task] = "done"
    BY <2>2 DEF IInv, NotifiesDone
  <2>4. Last(stack[u]).task # t
    BY <2>3
  <2>5. taskStatus'[Last(stack[u]).task] = "done"
    BY <2>3, <2>4, <1>0
  <2> QED BY <2>2, <2>5
<1>11. OneRuns'
  <2>1. /\ \A u \in Threads \ {th}, x \in Tasks : Works(stack'[u], x) = Works(stack[u], x)
        /\ \A x \in Tasks : Works(stack'[th], x) = Works(stack[th], x)
                                                    \cup (IF x = t THEN {Len(m) + 1} ELSE {})
    BY <1>2, <1>4, <1>7 DEF OthersKeep
  <2>2. OneRuns
    BY DEF IInv
  <2>3. GainsRun(th, t, Len(m) + 1)
    BY <2>1 DEF GainsRun
  <2>4. /\ taskStatus \in [Tasks -> {"notStarted", "inProgress", "done"}]
        /\ t \in Tasks /\ taskStatus[t] = "notStarted"
        /\ taskStatus' = [taskStatus EXCEPT ![t] = "inProgress"]
    BY <1>0 DEF IInv, Types
  <2> QED BY <2>2, <2>3, <2>4, RunsStarted
<1> QED BY <1>7, <1>8, <1>9, <1>10, <1>11 DEF IInv

LEMMA PublishStep ==
  ASSUME IInv, NEW th \in Threads, Publish(th)
  PROVE  IInv'
<1> DEFINE old == stack[th]
           t == Last(old).task
           s == IF Last(old).call = "doJob" THEN MoveTop(old, "notify") ELSE Front(old)
<1>0. /\ WellFormed(old, hasPool) /\ hasPool \subseteq Tasks
      /\ taskStatus \in [Tasks -> {"notStarted", "inProgress", "done"}]
      /\ stack \in [Threads -> Seq(Frames)] /\ queue \in Seq(Tasks)
  BY DEF IInv, Types, StacksRight
<1>1. /\ old # <<>> /\ Last(old).call \in JobCalls /\ Last(old).at = "publish"
      /\ taskStatus' = [taskStatus EXCEPT ![t] = "done"]
      /\ UNCHANGED <<hasPool, queue, status>>
      /\ stack' = [stack EXCEPT ![th] = s]
  BY DEF Publish, In, Top, Goto, Return
<1>2. old \in Seq(Frames) /\ Len(old) \in 1 .. Len(old) /\ Last(old) = old[Len(old)]
  BY <1>0, <1>1 DEF WellFormed, Last
<1>3. t \in hasPool /\ t \in Tasks
  BY <1>0, <1>1, <1>2 DEF WellFormed, GoodFrame
<1>4. Len(old) \in Works(old, t)
  BY <1>1, <1>2 DEF Works
<1>5. /\ WellFormed(s, hasPool) /\ \A x \in Tasks : Works(s, x) = Works(old, x) \ {Len(old)}
      /\ ~Sleeps(s) /\ ~Leaves(s) /\ (Notifies(s) => Last(s).task = t)
  <2>1. CASE Last(old).call = "doJob"
    <3>1. "notify" \in Places[Last(old).call]
      BY <2>1 DEF Places
    <3>2. LET n == MoveTop(old, "notify")
          IN  /\ WellFormed(n, hasPool) /\ n # <<>>
              /\ Last(n).call = Last(old).call /\ Last(n).task = Last(old).task
              /\ \A x \in Tasks : Works(n, x) = Works(old, x) \ {Len(old)}
      BY <3>1, <1>0, <1>1, WellFormedMove
    <3> QED BY <2>1, <3>2 DEF Sleeps, Leaves, Notifies, TopIn
  <2>2. CASE Last(old).call # "doJob"
    <3>1. LET r == Front(old)
          IN  /\ WellFormed(r, hasPool)
              /\ \A x \in Tasks : Works(r, x) = Works(old, x) \ {Len(old)}
              /\ r # <<>> => /\ Last(r).at = Pending[Last(r).call]
                             /\ Calls(Last(r).call, Last(old).call)
      BY <1>0, <1>1, WellFormedReturn
    <3>2. s = Front(old)
      BY <2>2
    <3> HIDE DEF s, old
    <3>3. s # <<>> => Last(s).at \in {"test", "check"} /\ Last(s).call # "doJob"
      <4>1. ASSUME s # <<>> PROVE Last(s).call \in {"executeWorkLoop"} \cup ForceCalls
        BY <4>1, <3>1, <3>2, <1>1 DEF Calls, JobCalls, ForceCalls
      <4> QED BY <4>1, <3>1, <3>2 DEF Pending, ForceCalls
    <3> QED BY <3>1, <3>2, <3>3 DEF Sleeps, Leaves, Notifies, TopIn
  <2> QED BY <2>1, <2>2
<1>6. StackBecomes(th, s, {})
  BY <1>0, <1>1 DEF StackBecomes
<1> HIDE DEF s
<1>7. ~Heads(old)
  BY <1>1 DEF Heads, TopIn, JobCalls
<1>8. /\ StacksRight' /\ stack'[th] = s /\ OthersKeep(th, {})
      /\ NothingCame' /\ NoWorkerLeftAsleep' /\ WorkConserving' /\ FinishDrains'
  <2>1. queue' \in Seq(Tasks) /\ Len(queue') <= Len(queue)
    BY <1>0, <1>1
  <2> QED BY <2>1, <1>1, <1>5, <1>6, <1>7, SleepStep
<1>9. Types'
  BY <1>0, <1>1 DEF IInv, Types
<1>10. taskStatus[t] = "inProgress"
  BY <1>3, <1>4 DEF IInv, OneRuns
<1>11. QueueFresh' /\ PutFirst'
  <2>1. QueueFresh'
    BY <1>0, <1>1, <1>10 DEF IInv, QueueFresh
  <2>2. PutFirst'
    BY <1>0, <1>1, <1>3 DEF IInv, PutFirst
  <2> QED BY <2>1, <2>2
<1>12. NotifiesDone'
  <2> SUFFICES ASSUME NEW u \in Threads, Notifies(stack'[u])
               PROVE  taskStatus'[Last(stack'[u]).task] = "done"
    BY DEF NotifiesDone, Notifies, TopIn, Last
  <2>1. CASE u = th
    BY <2>1, <1>0, <1>1, <1>3, <1>5, <1>8
  <2>2. CASE u # th
    <3>1. stack'[u] = stack[u] /\ Notifies(stack[u])
      BY <2>2, <1>8 DEF OthersKeep
    <3>2. taskStatus[Last(stack[u]).task] = "done"
      BY <3>1 DEF IInv, NotifiesDone
    <3> QED BY <3>1, <3>2, <1>0, <1>1, <1>10
  <2> QED BY <2>1, <2>2
<1>13. OneRuns'
  <2>1. /\ \A u \in Threads \ {th}, x \in Tasks : Works(stack'[u], x) = Works(stack[u], x)
        /\ \A x \in Tasks : Works(stack'[th], x) = Works(stack[th], x) \ {Len(old)}
    BY <1>5, <1>8 DEF OthersKeep
  <2>2. OneRuns
    BY DEF IInv
  <2>3. \A x \in Tasks \ {t} : Len(old) \notin Works(stack[th], x)
    BY <1>2 DEF Works
  <2> QED BY <2>1, <2>2, <2>3, <1>0, <1>1, <1>3, <1>4, RunsFinished
<1> QED BY <1>8, <1>9, <1>11, <1>12, <1>13 DEF IInv

-----------------------------------------------------------------------------
(* put()                                                                   *)

LEMMA PutStep ==
  ASSUME IInv, NEW c \in Clients, NEW t \in Tasks, Put(c, t)
  PROVE  IInv'
<1>0. /\ stack \in [Threads -> Seq(Frames)] /\ hasPool \subseteq Tasks
      /\ queue \in Seq(Tasks) /\ IsInjective(queue) /\ Range(queue) \subseteq hasPool
      /\ c \in Threads /\ StacksRight /\ WellFormed(stack[c], hasPool)
  BY DEF IInv, Types, StacksRight, Threads
<1>1. /\ stack[c] = <<>> /\ t \notin hasPool /\ Needs[t] \subseteq hasPool /\ status = "running"
      /\ hasPool' = hasPool \cup {t} /\ queue' = Append(queue, t)
      /\ UNCHANGED <<taskStatus, status>>
  BY DEF Put, MayPut, Idle
<1>2. PICK S \in SUBSET AsleepWorkers :
        /\ StackBecomes(c, <<>>, S)
        /\ AsleepWorkers # {} => \E w \in AsleepWorkers : S = {w}
  <2>1. c \notin AsleepWorkers
    BY <1>1, ThreadFacts DEF SetsOfThreads, Sleeps, TopIn
  <2>2. CASE AsleepWorkers = {}
    <3>1. stack' = stack
      BY <2>2 DEF Put
    <3>2. StackBecomes(c, <<>>, {})
      BY <1>0, <1>1, <3>1 DEF StackBecomes
    <3> QED BY <2>2, <3>2
  <2>3. CASE AsleepWorkers # {}
    <3>1. PICK w \in AsleepWorkers : stack' = Woken({w})
      BY <2>3 DEF Put
    <3>2. StackBecomes(c, <<>>, {w})
      BY <1>1, <2>1, <3>1 DEF StackBecomes, Woken
    <3> QED BY <2>3, <3>1, <3>2
  <2> QED BY <2>2, <2>3
<1>3. StacksRight' /\ stack'[c] = <<>> /\ OthersKeep(c, S)
  BY <1>0, <1>1, <1>2, Others
<1>4. /\ queue' \in Seq(Tasks) /\ Len(queue') = Len(queue) + 1 /\ Len(queue) \in Nat
      /\ \A i \in 1 .. Len(queue) : queue'[i] = queue[i]
      /\ queue'[Len(queue) + 1] = t
  BY <1>0, <1>1, AppendProperties
<1>5. \A i \in 1 .. Len(queue) : queue[i] \in hasPool /\ queue[i] # t
  BY <1>0, <1>1 DEF Range
<1>6. Types'
  <2>1. IsInjective(queue')
    <3> SUFFICES ASSUME NEW i \in 1 .. Len(queue'), NEW j \in 1 .. Len(queue'),
                        queue'[i] = queue'[j]
                 PROVE  i = j
      BY <1>4 DEF IsInjective
    <3>1. CASE i \in 1 .. Len(queue) /\ j \in 1 .. Len(queue)
      BY <3>1, <1>0, <1>4 DEF IsInjective
    <3>2. CASE i = Len(queue) + 1 \/ j = Len(queue) + 1
      BY <3>2, <1>4, <1>5
    <3> QED BY <3>1, <3>2, <1>4
  <2>2. Range(queue') \subseteq hasPool'
    BY <1>1, <1>4, <1>5 DEF Range
  <2> QED BY <2>1, <2>2, <1>0, <1>1, <1>4 DEF IInv, Types
<1>7. QueueFresh' /\ PutFirst'
  <2>1. taskStatus[t] = "notStarted"
    BY <1>1 DEF IInv, PutFirst
  <2>2. QueueFresh'
    BY <2>1, <1>1, <1>4 DEF IInv, QueueFresh
  <2>3. PutFirst'
    BY <1>1 DEF IInv, PutFirst
  <2> QED BY <2>2, <2>3
<1>8. OneRuns'
  <2>1. \A u \in Threads, x \in Tasks : Works(stack'[u], x) = Works(stack[u], x)
    BY <1>1, <1>3 DEF OthersKeep
  <2> QED BY <2>1, <1>1, RunsKept DEF IInv
<1>9. ~Sleeps(stack'[c]) /\ ~Leaves(stack'[c]) /\ ~Notifies(stack'[c]) /\ ~Heads(stack[c])
  BY <1>1, <1>3 DEF Sleeps, Leaves, Notifies, Heads, TopIn
<1>10. NotifiesDone'
  <2> SUFFICES ASSUME NEW u \in Threads, Notifies(stack'[u])
               PROVE  taskStatus'[Last(stack'[u]).task] = "done"
    BY DEF NotifiesDone, Notifies, TopIn, Last
  <2> QED BY <1>1, <1>3, <1>9 DEF OthersKeep, IInv, NotifiesDone
<1>11. NothingCame'
  <2> SUFFICES ASSUME NEW u \in Threads, Leaves(stack'[u]) PROVE FALSE
    BY DEF NothingCame, Leaves, TopIn, Last
  <2> QED BY <1>1, <1>3, <1>9 DEF OthersKeep, IInv, NothingCame
<1>12. NoWorkerLeftAsleep' /\ FinishDrains'
  BY <1>1 DEF NoWorkerLeftAsleep, FinishDrains
<1>13. WorkConserving'
  <2> SUFFICES ASSUME AsleepWorkers' # {} PROVE Len(queue') <= Cardinality(Heading')
    BY ThreadFactsAfter
  <2>1. AsleepWorkers # {}
    BY <1>3, <1>9, ThreadFacts, ThreadFactsAfter DEF SetsOfThreads, OthersKeep
  <2>2. PICK w \in AsleepWorkers : S = {w}
    BY <2>1, <1>2
  <2>3. w \in Threads /\ Sleeps(stack[w]) /\ w # c
    BY <1>1, ThreadFacts DEF SetsOfThreads, Sleeps, TopIn
  <2>4. w \notin Heading /\ w \in Heading'
    BY <2>2, <2>3, <1>3, ThreadFactsAfter DEF Heading, OthersKeep, Sleeps, Heads, TopIn
  <2>5. Heading \cup {w} \subseteq Heading'
    BY <2>4, <1>3, <1>9, ThreadFactsAfter DEF Heading, OthersKeep
  <2>6. Cardinality(Heading \cup {w}) = Cardinality(Heading) + 1
    BY <2>4, ThreadFacts, FS_AddElement DEF SetsOfThreads
  <2>7. Cardinality(Heading \cup {w}) <= Cardinality(Heading')
    BY <2>5, ThreadFactsAfter, FS_Subset
  <2>8. Len(queue) <= Cardinality(Heading)
    BY <2>1, ThreadFacts DEF SetsOfThreads, IInv
  <2> QED BY <2>6, <2>7, <2>8, <1>4, ThreadFacts, ThreadFactsAfter DEF SetsOfThreads
<1> QED BY <1>3, <1>6, <1>7, <1>8, <1>10, <1>11, <1>12, <1>13 DEF IInv

LEMMA PutRejectedStep ==
  ASSUME IInv, NEW c \in Clients, NEW t \in Tasks, PutRejected(c, t)
  PROVE  IInv'
<1>1. /\ Needs[t] \subseteq hasPool /\ hasPool' = hasPool \cup {t}
      /\ UNCHANGED <<taskStatus, queue, status, stack>>
  BY DEF PutRejected, MayPut
<1>2. Types'
  BY <1>1 DEF IInv, Types
<1>3. StacksRight'
  BY <1>1, WellFormedMore DEF IInv, StacksRight
<1>4. PutFirst'
  BY <1>1 DEF IInv, PutFirst
<1>5. OneRuns'
  BY <1>1, RunsKept DEF IInv
<1>6. QueueFresh' /\ FinishDrains'
  BY <1>1 DEF IInv, QueueFresh, FinishDrains
<1>7. NotifiesDone' /\ NothingCame'
  BY <1>1 DEF IInv, NotifiesDone, NothingCame, Notifies, Leaves, TopIn, Last
<1>8. AsleepWorkers' = AsleepWorkers /\ Heading' = Heading
  BY <1>1, ThreadFacts, ThreadFactsAfter DEF SetsOfThreads, Heading
<1>9. NoWorkerLeftAsleep' /\ WorkConserving'
  BY <1>1, <1>8, ThreadFacts, ThreadFactsAfter DEF SetsOfThreads, IInv, NoWorkerLeftAsleep
<1> QED BY <1>2, <1>3, <1>4, <1>5, <1>6, <1>7, <1>9 DEF IInv

-----------------------------------------------------------------------------
(* The steps of a call                                                     *)

LEMMA TopWellFormed ==
  ASSUME IInv, NEW th \in Threads, stack[th] # <<>>
  PROVE  /\ WellFormed(stack[th], hasPool) /\ Top(th) = Last(stack[th])
         /\ Top(th) \in Frames /\ GoodFrame(Top(th), hasPool)
         /\ stack[th] \in Seq(Frames) /\ stack \in [Threads -> Seq(Frames)]
         /\ hasPool \subseteq Tasks
<1>1. WellFormed(stack[th], hasPool) /\ stack \in [Threads -> Seq(Frames)] /\ hasPool \subseteq Tasks
  BY DEF IInv, StacksRight, Types
<1>2. stack[th] \in Seq(Frames) /\ Len(stack[th]) \in 1 .. Len(stack[th])
  BY <1>1
<1> QED BY <1>1, <1>2 DEF WellFormed, Top, Last

LEMMA GoStep ==
  ASSUME IInv, NEW th \in Threads, stack[th] # <<>>, NEW place \in Places[Top(th).call],
         stack' = [stack EXCEPT ![th] = MoveTop(@, place)],
         UNCHANGED <<taskStatus, hasPool, queue, status>>,
         Top(th).call \in JobCalls => Top(th).at # "notify" /\ place # "notify",
         Top(th).call = "executeWorkLoop" =>
           /\ place = "asleep" => status = "running" /\ queue = <<>>
           /\ place = "null" => status # "running" /\ queue = <<>>
  PROVE  IInv'
<1> DEFINE s == MoveTop(stack[th], place)
<1>0. /\ WellFormed(stack[th], hasPool) /\ Top(th) = Last(stack[th])
      /\ stack \in [Threads -> Seq(Frames)]
  BY TopWellFormed
<1>1. /\ WellFormed(s, hasPool) /\ s # <<>>
      /\ Last(s).call = Top(th).call /\ Last(s).at = place
      /\ \A t \in Tasks : Works(s, t) = Works(stack[th], t)
  BY <1>0, WellFormedMove
<1>2. StackBecomes(th, s, {})
  BY <1>0 DEF StackBecomes
<1> HIDE DEF s
<1>3. /\ Sleeps(s) => status = "running" /\ queue = <<>>
      /\ Leaves(s) => status # "running" /\ queue = <<>>
      /\ ~Notifies(s)
  BY <1>1 DEF Sleeps, Leaves, Notifies, TopIn, JobCalls
<1>4. Heads(stack[th]) => Heads(s) \/ queue = <<>>
  <2>1. CASE Top(th).call = "executeWorkLoop"
    <3>1. place \in {"test", "pop", "asleep", "awake", "null"}
      BY <2>1 DEF Places
    <3> QED BY <2>1, <3>1, <1>1 DEF Heads, TopIn
  <2>2. CASE Top(th).call # "executeWorkLoop"
    BY <2>2, <1>0 DEF Heads, TopIn
  <2> QED BY <2>1, <2>2
<1>5. Stoppers = {} /\ status' = "stopNow" => queue = <<>>
  BY DEF IInv, FinishDrains
<1> QED BY <1>1, <1>2, <1>3, <1>4, <1>5, KeepStep

\* What is left after a return waits for it, so it sleeps nowhere.
LEMMA ReturnStep ==
  ASSUME IInv, NEW th \in Threads, stack[th] # <<>>,
         NEW S, S \subseteq AsleepWorkers \cup AsleepWaiters,
         StackBecomes(th, Front(stack[th]), S),
         UNCHANGED <<taskStatus, hasPool, queue>>,
         Top(th).call \in JobCalls => Top(th).at = "notify",
         Top(th).call = "executeWorkLoop" => queue = <<>> \/ status # "running",
         status' = status \/ (status' \in {"finishing", "stopNow"} /\ status # "running"),
         Stoppers = {} /\ status' = "stopNow" => queue = <<>>
  PROVE  IInv'
<1> DEFINE s == Front(stack[th])
<1>0. /\ WellFormed(stack[th], hasPool) /\ Top(th) = Last(stack[th])
      /\ stack[th] \in Seq(Frames)
  BY TopWellFormed
<1>1. /\ WellFormed(s, hasPool)
      /\ \A t \in Tasks : Works(s, t) = Works(stack[th], t) \ {Len(stack[th])}
      /\ s # <<>> => Last(s).at = Pending[Last(s).call]
  BY <1>0, WellFormedReturn
<1>2. \A t \in Tasks : Len(stack[th]) \notin Works(stack[th], t)
  BY <1>0 DEF Works, Last
<1> HIDE DEF s
<1>3. s # <<>> => Last(s).at \in {"join", "test", "publish", "check"}
  <2> SUFFICES ASSUME s # <<>> PROVE Last(s).at \in {"join", "test", "publish", "check"}
    OBVIOUS
  <2>1. Last(s) \in Frames
    BY <1>1, TopFacts DEF WellFormed
  <2>2. Last(s).call \in {"executeWorkLoop", "finish"} \cup JobCalls \cup ForceCalls
    BY <2>1 DEF Frames
  <2> QED BY <1>1, <2>2 DEF Pending, JobCalls, ForceCalls
<1>4. ~Sleeps(s) /\ ~Leaves(s) /\ ~Notifies(s)
  BY <1>3 DEF Sleeps, Leaves, Notifies, TopIn
<1>5. Heads(stack[th]) => queue = <<>> \/ status # "running"
  BY <1>0 DEF Heads, TopIn
<1>6. \A t \in Tasks : Works(s, t) = Works(stack[th], t)
  BY <1>1, <1>2
<1>7. StackBecomes(th, s, S)
  BY DEF s
<1> QED BY <1>1, <1>4, <1>5, <1>6, <1>7, KeepStep

\* A call that runs no task comes on top of another one, or of none.
LEMMA PushStep ==
  ASSUME IInv, NEW th \in Threads, NEW below, WellFormed(below, hasPool),
         \A t \in Tasks : Works(below, t) = Works(stack[th], t),
         NEW kind \in ForceCalls, NEW n \in hasPool,
         below # <<>> => Last(below).at = Pending[Last(below).call]
                           /\ Last(below).call \in JobCalls,
         StackBecomes(th, Append(below, ForceFrame(kind, n)), {}),
         ~Heads(stack[th]),
         UNCHANGED <<taskStatus, hasPool, queue, status>>
  PROVE  IInv'
<1> DEFINE f == ForceFrame(kind, n)
           s == Append(below, f)
<1>1. /\ f \in Frames /\ f.call = kind /\ f.at = "try" /\ f.task = n /\ GoodFrame(f, hasPool)
      /\ kind \notin JobCalls /\ kind \notin {"executeWorkLoop", "finish"}
  <2>1. n \in Tasks
    BY DEF IInv, Types
  <2>2. /\ f \in Frames /\ f.call = kind /\ f.at = "try" /\ f.task = n
        /\ kind \notin JobCalls /\ kind \notin {"executeWorkLoop", "finish"}
    BY <2>1 DEF ForceFrame, Frame, Frames, ForceCalls, JobCalls
  <2>3. "try" \in Places[kind]
    BY DEF Places, ForcePlaces, ForceCalls
  <2> QED BY <2>2, <2>3 DEF GoodFrame
<1> HIDE DEF f
<1>2. IF below = <<>> THEN f.call \notin JobCalls
      ELSE Last(below).at = Pending[Last(below).call] /\ Calls(Last(below).call, f.call)
  BY <1>1 DEF Calls
<1>3. /\ WellFormed(s, hasPool) /\ s # <<>> /\ Last(s) = f
      /\ \A t \in Tasks : Works(s, t) = Works(below, t) \cup
           (IF f.call \in JobCalls /\ f.task = t /\ f.at # "notify"
            THEN {Len(below) + 1} ELSE {})
  BY <1>1, <1>2, WellFormedPush
<1>4. StackBecomes(th, s, {})
  BY DEF f
<1> HIDE DEF s
<1>5. \A t \in Tasks : Works(s, t) = Works(stack[th], t)
  BY <1>1, <1>3
<1>6. ~Sleeps(s) /\ ~Leaves(s) /\ ~Notifies(s)
  BY <1>1, <1>3 DEF Sleeps, Leaves, Notifies, TopIn
<1>7. Stoppers = {} /\ status' = "stopNow" => queue = <<>>
  BY DEF IInv, FinishDrains
<1>8. /\ Sleeps(s) => status' = "running" /\ queue = <<>>
      /\ Heads(stack[th]) => Heads(s) \/ queue = <<>> \/ status # "running"
      /\ Leaves(s) => status' # "running" /\ queue = <<>>
      /\ Notifies(s) => taskStatus[Last(s).task] = "done"
      /\ status' = status
  BY <1>6
<1>9. {} \subseteq AsleepWorkers \cup AsleepWaiters
  OBVIOUS
<1> QED BY <1>3, <1>4, <1>5, <1>7, <1>8, <1>9, KeepStep

-----------------------------------------------------------------------------
(* The steps of a worker's loop                                            *)

LEMMA TestStatusStep ==
  ASSUME IInv, NEW th \in Threads, TestStatus(th)
  PROVE  IInv'
<1>1. /\ stack[th] # <<>> /\ Top(th).call = "executeWorkLoop" /\ Top(th).at = "test"
      /\ UNCHANGED <<taskStatus, hasPool, queue, status>>
  BY DEF TestStatus, In
<1>2. CASE status = "stopNow"
  <2>1. StackBecomes(th, Front(stack[th]), {})
    BY <1>1, <1>2, TopWellFormed DEF TestStatus, Return, StackBecomes
  <2>2. /\ {} \subseteq AsleepWorkers \cup AsleepWaiters
        /\ Top(th).call \in JobCalls => Top(th).at = "notify"
        /\ Top(th).call = "executeWorkLoop" => queue = <<>> \/ status # "running"
        /\ status' = status \/ (status' \in {"finishing", "stopNow"} /\ status # "running")
        /\ Stoppers = {} /\ status' = "stopNow" => queue = <<>>
    BY <1>1, <1>2 DEF JobCalls, IInv, FinishDrains
  <2>3. stack[th] # <<>> /\ UNCHANGED <<taskStatus, hasPool, queue>>
    BY <1>1
  <2> QED BY <2>1, <2>2, <2>3, ReturnStep
<1>3. CASE status # "stopNow"
  <2>1. stack' = [stack EXCEPT ![th] = MoveTop(@, "pop")]
    BY <1>3 DEF TestStatus, Goto
  <2>2. "pop" \in Places[Top(th).call] /\ Top(th).call \notin JobCalls
    BY <1>1 DEF Places, JobCalls
  <2> QED BY <1>1, <2>1, <2>2, GoStep
<1> QED BY <1>2, <1>3

LEMMA PopNothingStep ==
  ASSUME IInv, NEW th \in Threads, PopNothing(th)
  PROVE  IInv'
<1> DEFINE place == IF status = "running" THEN "asleep" ELSE "null"
<1>1. /\ stack[th] # <<>> /\ Top(th).call = "executeWorkLoop" /\ queue = <<>>
      /\ UNCHANGED <<taskStatus, hasPool, queue, status>>
      /\ stack' = [stack EXCEPT ![th] = MoveTop(@, place)]
  BY DEF PopNothing, In, Goto
<1>2. place \in Places[Top(th).call] /\ Top(th).call \notin JobCalls
  BY <1>1 DEF Places, JobCalls
<1>3. /\ place = "asleep" => status = "running" /\ queue = <<>>
      /\ place = "null" => status # "running" /\ queue = <<>>
  BY <1>1
<1> HIDE DEF place
<1> QED BY <1>1, <1>2, <1>3, GoStep

LEMMA LeaveLoopStep ==
  ASSUME IInv, NEW th \in Threads, LeaveLoop(th)
  PROVE  IInv'
<1>1. /\ stack[th] # <<>> /\ Top(th).call = "executeWorkLoop" /\ Top(th).at = "null"
      /\ UNCHANGED <<taskStatus, hasPool, queue>>
  BY DEF LeaveLoop, In
<1>2. status # "running" /\ queue = <<>>
  BY <1>1, TopWellFormed DEF IInv, NothingCame, Leaves, TopIn
<1>3. CASE status = "finishing"
  <2>1. StackBecomes(th, Front(stack[th]), {}) /\ status' = "stopNow"
    BY <1>1, <1>3, TopWellFormed DEF LeaveLoop, Return, StackBecomes
  <2>2. /\ {} \subseteq AsleepWorkers \cup AsleepWaiters
        /\ Top(th).call \in JobCalls => Top(th).at = "notify"
        /\ Top(th).call = "executeWorkLoop" => queue = <<>> \/ status # "running"
        /\ status' = status \/ (status' \in {"finishing", "stopNow"} /\ status # "running")
        /\ Stoppers = {} /\ status' = "stopNow" => queue = <<>>
    BY <1>1, <1>2, <2>1 DEF JobCalls
  <2> QED BY <1>1, <1>2, <2>1, <2>2, ReturnStep
<1>4. CASE status # "finishing"
  <2>1. stack' = [stack EXCEPT ![th] = MoveTop(@, "test")] /\ UNCHANGED status
    BY <1>4 DEF LeaveLoop, Goto
  <2>2. "test" \in Places[Top(th).call] /\ Top(th).call \notin JobCalls
    BY <1>1 DEF Places, JobCalls
  <2> QED BY <1>1, <2>1, <2>2, GoStep
<1> QED BY <1>3, <1>4

-----------------------------------------------------------------------------
(* The steps of a job                                                      *)

LEMMA RunJobStep ==
  ASSUME IInv, NEW th \in Threads, RunJob(th)
  PROVE  IInv'
<1> DEFINE below == MoveTop(stack[th], "publish")
<1>1. /\ stack[th] # <<>> /\ Top(th).call \in JobCalls /\ Top(th).at = "run"
      /\ UNCHANGED <<taskStatus, hasPool, queue, status>>
  BY DEF RunJob, In
<1>2. "publish" \in Places[Top(th).call]
  BY <1>1 DEF Places, JobCalls
<1>3. /\ WellFormed(stack[th], hasPool) /\ Top(th) = Last(stack[th])
      /\ Top(th).task \in hasPool /\ stack \in [Threads -> Seq(Frames)]
  BY <1>1, TopWellFormed DEF GoodFrame
<1>4. CASE Needs[Top(th).task] = {}
  <2>1. stack' = [stack EXCEPT ![th] = MoveTop(@, "publish")]
    BY <1>4 DEF RunJob, Goto
  <2>2. Top(th).call # "executeWorkLoop"
    BY <1>1 DEF JobCalls
  <2> QED BY <1>1, <1>2, <2>1, <2>2, GoStep
<1>5. CASE Needs[Top(th).task] # {}
  <2>1. PICK n \in Needs[Top(th).task] :
          stack' = [stack EXCEPT ![th] = Append(MoveTop(@, "publish"), ForceFrame(TaskForce, n))]
    BY <1>5 DEF RunJob, Call
  <2>2. n \in hasPool /\ TaskForce \in ForceCalls
    BY <1>3, ForceOK DEF IInv, PutFirst, ForceCalls
  <2>3. /\ WellFormed(below, hasPool) /\ below # <<>> /\ Last(below).call = Top(th).call
        /\ Last(below).at = "publish"
        /\ \A t \in Tasks : Works(below, t) = Works(stack[th], t)
    BY <1>1, <1>2, <1>3, WellFormedMove
  <2>4. StackBecomes(th, Append(below, ForceFrame(TaskForce, n)), {})
    BY <2>1, <1>3 DEF StackBecomes
  <2>5. Last(below).at = Pending[Last(below).call]
    BY <1>1, <2>3 DEF Pending, JobCalls
  <2>6. ~Heads(stack[th])
    BY <1>1, <1>3 DEF Heads, TopIn, JobCalls
  <2> HIDE DEF below
  <2> QED BY <1>1, <2>2, <2>3, <2>4, <2>5, <2>6, PushStep
<1> QED BY <1>4, <1>5

LEMMA NotifyWaitersStep ==
  ASSUME IInv, NEW th \in Threads, NotifyWaiters(th)
  PROVE  IInv'
<1>1. /\ stack[th] # <<>> /\ Top(th).call = "doJob" /\ Top(th).at = "notify"
      /\ UNCHANGED <<taskStatus, hasPool, queue, status>>
      /\ stack' = [Woken(AsleepWaiters) EXCEPT ![th] = Front(stack[th])]
  BY DEF NotifyWaiters, In
<1>2. StackBecomes(th, Front(stack[th]), AsleepWaiters)
  BY <1>1 DEF StackBecomes, Woken
<1>3. Top(th).call # "executeWorkLoop" /\ AsleepWaiters \subseteq AsleepWorkers \cup AsleepWaiters
      /\ (Stoppers = {} /\ status' = "stopNow" => queue = <<>>)
  BY <1>1 DEF IInv, FinishDrains
<1> QED BY <1>1, <1>2, <1>3, ReturnStep

-----------------------------------------------------------------------------
(* The steps of a force                                                    *)

LEMMA ForceReturned ==
  ASSUME IInv, NEW th \in Threads, stack[th] # <<>>,
         Top(th).call \notin JobCalls, Top(th).call # "executeWorkLoop",
         Return(th), UNCHANGED <<taskStatus, hasPool, queue, status>>
  PROVE  IInv'
<1> DEFINE S == {}
<1>1. StackBecomes(th, Front(stack[th]), S)
  BY TopWellFormed DEF Return, StackBecomes
<1>2. /\ S \subseteq AsleepWorkers \cup AsleepWaiters
      /\ Stoppers = {} /\ status' = "stopNow" => queue = <<>>
  BY DEF IInv, FinishDrains
<1> HIDE DEF S
<1> QED BY <1>1, <1>2, ReturnStep

LEMMA ForceGoes ==
  ASSUME IInv, NEW th \in Threads, stack[th] # <<>>, Top(th).call \in ForceCalls,
         NEW place \in ForcePlaces, Goto(th, place),
         UNCHANGED <<taskStatus, hasPool, queue, status>>
  PROVE  IInv'
<1>1. place \in Places[Top(th).call] /\ Top(th).call \notin JobCalls
      /\ Top(th).call # "executeWorkLoop"
  BY DEF Places, JobCalls, ForceCalls
<1>2. stack' = [stack EXCEPT ![th] = MoveTop(@, place)]
  BY DEF Goto
<1> QED BY <1>1, <1>2, GoStep

LEMMA WorkNothingStep ==
  ASSUME IInv, NEW th \in Threads, WorkNothing(th)
  PROVE  IInv'
<1> DEFINE below == Front(stack[th])
           n == Last(stack[th]).task
<1>1. /\ stack[th] # <<>> /\ Top(th).call = "work" /\ Top(th).at = "pop"
      /\ UNCHANGED <<taskStatus, hasPool, queue, status>>
      /\ stack' = [stack EXCEPT ![th] = Append(Front(@), ForceFrame("yield", Last(@).task))]
  BY DEF WorkNothing, In
<1>2. /\ WellFormed(stack[th], hasPool) /\ Top(th) = Last(stack[th])
      /\ n \in hasPool /\ stack \in [Threads -> Seq(Frames)] /\ stack[th] \in Seq(Frames)
  BY <1>1, TopWellFormed DEF GoodFrame, ForceCalls
<1>3. /\ WellFormed(below, hasPool)
      /\ \A t \in Tasks : Works(below, t) = Works(stack[th], t) \ {Len(stack[th])}
      /\ below # <<>> => /\ Last(below).at = Pending[Last(below).call]
                         /\ Calls(Last(below).call, Last(stack[th]).call)
  BY <1>1, <1>2, WellFormedReturn
<1>4. \A t \in Tasks : Len(stack[th]) \notin Works(stack[th], t)
  BY <1>1, <1>2 DEF Works, Last, JobCalls
<1>5. StackBecomes(th, Append(below, ForceFrame("yield", n)), {})
  BY <1>1, <1>2 DEF StackBecomes
<1>6. below # <<>> => Last(below).call \in JobCalls
  BY <1>1, <1>2, <1>3 DEF Calls, JobCalls, ForceCalls
<1>7. ~Heads(stack[th]) /\ "yield" \in ForceCalls
  BY <1>1, <1>2 DEF Heads, TopIn, ForceCalls
<1>8. \A t \in Tasks : Works(below, t) = Works(stack[th], t)
  BY <1>3, <1>4
<1> HIDE DEF below, n
<1> QED BY <1>1, <1>2, <1>3, <1>5, <1>6, <1>7, <1>8, PushStep

LEMMA SpuriousWakeupStep ==
  ASSUME IInv, NEW th \in Threads, SpuriousWakeup(th)
  PROVE  IInv'
<1>1. /\ stack[th] # <<>> /\ Top(th).call \in {"executeWorkLoop"} \cup ForceCalls
      /\ UNCHANGED <<taskStatus, hasPool, queue, status>>
  BY DEF SpuriousWakeup, AsleepWorkers, AsleepWaiters, Asleep, In
<1>2. stack' = [stack EXCEPT ![th] = MoveTop(@, "awake")]
  BY <1>1, TopWellFormed DEF SpuriousWakeup, Woken
<1>3. "awake" \in Places[Top(th).call] /\ Top(th).call \notin JobCalls
  BY <1>1 DEF Places, ForcePlaces, ForceCalls, JobCalls
<1> QED BY <1>1, <1>2, <1>3, GoStep

LEMMA ForceSteps ==
  ASSUME IInv, NEW th \in Threads,
         CheckDone(th) \/ CheckNotDone(th) \/ WaitDone(th) \/ Join(th)
  PROVE  IInv'
<1>1. /\ stack[th] # <<>> /\ Top(th).call \notin JobCalls /\ Top(th).call # "executeWorkLoop"
      /\ UNCHANGED <<taskStatus, hasPool, queue, status>>
  BY DEF CheckDone, CheckNotDone, WaitDone, Join, In, ForceCalls, JobCalls
<1>2. CASE Return(th)
  BY <1>1, <1>2, ForceReturned
<1>3. CASE ~Return(th)
  <2>1. Top(th).call \in ForceCalls
    BY <1>3 DEF CheckDone, CheckNotDone, WaitDone, Join, In, ForceCalls
  <2>2. Goto(th, "lock") \/ Goto(th, "pop") \/ Goto(th, "asleep")
    BY <1>3 DEF CheckDone, CheckNotDone, WaitDone, Join
  <2>3. {"lock", "pop", "asleep"} \subseteq ForcePlaces
    BY DEF ForcePlaces
  <2> QED BY <1>1, <2>1, <2>2, <2>3, ForceGoes
<1> QED BY <1>2, <1>3

-----------------------------------------------------------------------------
(* Taking a task out of the queue                                          *)

LeavesOut(s, i, r) ==
  Len(r) = Len(s) - 1 /\ \A j \in 1 .. Len(r) : r[j] = s[IF j < i THEN j ELSE j + 1]

LEMMA ShorterFacts ==
  ASSUME NEW s \in Seq(Tasks), IsInjective(s), NEW i \in 1 .. Len(s),
         NEW r \in Seq(Tasks), LeavesOut(s, i, r)
  PROVE  IsInjective(r) /\ Range(r) = Range(s) \ {s[i]}
<1> DEFINE old(j) == IF j < i THEN j ELSE j + 1
<1>0. Len(s) \in Nat /\ Len(r) \in Nat /\ i \in Nat /\ DOMAIN s = 1 .. Len(s)
      /\ DOMAIN r = 1 .. Len(r) /\ Len(r) = Len(s) - 1
  BY DEF LeavesOut
<1>1. \A j \in 1 .. Len(r) : old(j) \in 1 .. Len(s) /\ old(j) # i /\ r[j] = s[old(j)]
  BY <1>0 DEF LeavesOut
<1>2. \A j, k \in 1 .. Len(r) : old(j) = old(k) => j = k
  BY <1>0
<1>3. \A k \in 1 .. Len(s) : k # i => \E j \in 1 .. Len(r) : old(j) = k
  <2> TAKE k \in 1 .. Len(s)
  <2>1. CASE k < i
    <3>1. k \in 1 .. Len(r) /\ old(k) = k
      BY <2>1, <1>0
    <3> QED BY <3>1
  <2>2. CASE k > i
    <3>1. k - 1 \in 1 .. Len(r) /\ old(k - 1) = k
      BY <2>2, <1>0
    <3> QED BY <3>1
  <2> QED BY <2>1, <2>2, <1>0
<1> HIDE DEF old
<1>4. \A j, k \in 1 .. Len(s) : s[j] = s[k] => j = k
  BY <1>0 DEF IsInjective
<1>5. IsInjective(r)
  <2>1. ASSUME NEW j \in 1 .. Len(r), NEW k \in 1 .. Len(r), r[j] = r[k] PROVE j = k
    <3>1. old(j) = old(k)
      BY <1>1, <1>4, <2>1
    <3> QED BY <3>1, <1>2
  <2> QED BY <2>1, <1>0 DEF IsInjective
<1>6. Range(r) \subseteq Range(s) \ {s[i]}
  BY <1>0, <1>1, <1>4 DEF Range
<1>7. ASSUME NEW x \in Range(s), x # s[i] PROVE x \in Range(r)
  <2>1. PICK k \in 1 .. Len(s) : x = s[k] /\ k # i
    BY <1>0, <1>7 DEF Range
  <2>2. PICK j \in 1 .. Len(r) : old(j) = k
    BY <2>1, <1>3
  <2> QED BY <2>1, <2>2, <1>0, <1>1 DEF Range
<1> QED BY <1>5, <1>6, <1>7

LEMMA TailFacts ==
  ASSUME NEW s \in Seq(Tasks), IsInjective(s), s # <<>>
  PROVE  /\ Tail(s) \in Seq(Tasks) /\ IsInjective(Tail(s)) /\ Len(Tail(s)) + 1 = Len(s)
         /\ Range(Tail(s)) = Range(s) \ {Head(s)}
         /\ Head(s) \in Range(s) /\ Head(s) = s[1] /\ 1 \in 1 .. Len(s)
<1> DEFINE r == Tail(s)
<1>1. /\ r \in Seq(Tasks) /\ Len(r) = Len(s) - 1 /\ Head(s) = s[1]
      /\ \A j \in 1 .. Len(r) : r[j] = s[j + 1]
  BY HeadTailProperties
<1>2. Len(s) \in Nat /\ 1 \in 1 .. Len(s)
  OBVIOUS
<1> HIDE DEF r
<1>3. IsInjective(r) /\ Range(r) = Range(s) \ {s[1]}
  <2>1. LeavesOut(s, 1, r)
    BY <1>1, <1>2 DEF LeavesOut
  <2>2. r \in Seq(Tasks) /\ 1 \in 1 .. Len(s)
    BY <1>1, <1>2
  <2> QED BY <2>1, <2>2, ShorterFacts
<1>4. s[1] \in Range(s)
  BY <1>2 DEF Range
<1>5. Len(r) + 1 = Len(s)
  BY <1>1, <1>2
<1> QED BY <1>1, <1>2, <1>3, <1>4, <1>5 DEF r

LEMMA RemoveFacts ==
  ASSUME NEW s \in Seq(Tasks), IsInjective(s), NEW i \in 1 .. Len(s)
  PROVE  LET r == RemoveAt(s, i)
         IN  /\ r \in Seq(Tasks) /\ IsInjective(r) /\ Len(r) + 1 = Len(s)
             /\ Range(r) = Range(s) \ {s[i]}
<1> DEFINE r == RemoveAt(s, i)
           n == Len(s)
           a == SubSeq(s, 1, i - 1)
           b == SubSeq(s, i + 1, n)
<1>0. n \in Nat /\ i \in Nat /\ 1 <= i /\ i <= n /\ \A j \in 1 .. n : s[j] \in Tasks
  OBVIOUS
<1> HIDE DEF n
<1>1. a \in Seq(Tasks) /\ Len(a) = i - 1 /\ \A j \in 1 .. i - 1 : a[j] = s[j]
  <2> DEFINE m == i - 1
  <2>1. m \in Int /\ 1 \in Int /\ m - 1 + 1 = m /\ m >= 0
        /\ \A j \in 1 .. m : s[j] \in Tasks /\ 1 + j - 1 = j
    BY <1>0
  <2> HIDE DEF m
  <2>2. /\ SubSeq(s, 1, m) \in Seq(Tasks)
        /\ Len(SubSeq(s, 1, m)) = IF 1 <= m THEN m - 1 + 1 ELSE 0
        /\ \A j \in 1 .. m - 1 + 1 : SubSeq(s, 1, m)[j] = s[1 + j - 1]
    BY <2>1, SubSeqProperties
  <2>3. /\ SubSeq(s, 1, m) \in Seq(Tasks) /\ Len(SubSeq(s, 1, m)) = m
        /\ \A j \in 1 .. m : SubSeq(s, 1, m)[j] = s[j]
    BY <2>1, <2>2
  <2> QED BY <2>3 DEF m
<1>2. b \in Seq(Tasks) /\ Len(b) = n - i /\ \A j \in 1 .. n - i : b[j] = s[i + j]
  <2> DEFINE m == i + 1
  <2>1. m \in Int /\ n \in Int /\ n - m + 1 = n - i /\ \A j \in m .. n : s[j] \in Tasks
    BY <1>0
  <2>2. \A j \in 1 .. n - i : m + j - 1 = i + j
    BY <1>0
  <2>3. (m <= n /\ n - m + 1 = n - i) \/ (~(m <= n) /\ n - i = 0)
    BY <1>0
  <2> HIDE DEF m
  <2>4. /\ SubSeq(s, m, n) \in Seq(Tasks)
        /\ Len(SubSeq(s, m, n)) = IF m <= n THEN n - m + 1 ELSE 0
        /\ \A j \in 1 .. n - m + 1 : SubSeq(s, m, n)[j] = s[m + j - 1]
    BY <2>1, SubSeqProperties
  <2>5. /\ SubSeq(s, m, n) \in Seq(Tasks) /\ Len(SubSeq(s, m, n)) = n - i
        /\ \A j \in 1 .. n - i : SubSeq(s, m, n)[j] = s[i + j]
    BY <2>1, <2>2, <2>3, <2>4
  <2> QED BY <2>5 DEF m
<1> HIDE DEF a, b
<1>3. r = a \o b
  BY DEF RemoveAt, a, b, n
<1> HIDE DEF r
<1>4. /\ r \in Seq(Tasks) /\ Len(r) = Len(a) + Len(b)
      /\ \A j \in 1 .. Len(a) + Len(b) : r[j] = IF j <= Len(a) THEN a[j] ELSE b[j - Len(a)]
  BY <1>1, <1>2, <1>3, ConcatProperties
<1>5. Len(r) = n - 1 /\ Len(r) + 1 = n
  BY <1>0, <1>1, <1>2, <1>4
<1>6. \A j \in 1 .. Len(r) : r[j] = s[IF j < i THEN j ELSE j + 1]
  <2> TAKE j \in 1 .. Len(r)
  <2>1. CASE j < i
    <3>1. j \in 1 .. i - 1 /\ j <= Len(a) /\ j \in 1 .. Len(a) + Len(b)
      BY <2>1, <1>0, <1>1, <1>4, <1>5
    <3> QED BY <2>1, <3>1, <1>1, <1>4
  <2>2. CASE ~(j < i)
    <3>1. /\ j - Len(a) \in 1 .. n - i /\ ~(j <= Len(a)) /\ i + (j - Len(a)) = j + 1
          /\ j \in 1 .. Len(a) + Len(b)
      BY <2>2, <1>0, <1>1, <1>4, <1>5
    <3> QED BY <2>2, <3>1, <1>2, <1>4
  <2> QED BY <2>1, <2>2
<1>7. IsInjective(r) /\ Range(r) = Range(s) \ {s[i]}
  <2>1. Len(r) = Len(s) - 1
    BY <1>5 DEF n
  <2>2. LeavesOut(s, i, r)
    BY <2>1, <1>6 DEF LeavesOut
  <2>3. r \in Seq(Tasks)
    BY <1>4
  <2> QED BY <2>2, <2>3, ShorterFacts
<1> QED BY <1>4, <1>5, <1>7 DEF r, n

LEMMA DequeueStep ==
  ASSUME IInv, NEW th \in Threads, PopTask(th) \/ WorkTask(th)
  PROVE  IInv'
<1>1. /\ stack[th] # <<>> /\ Last(stack[th]).call \in {"executeWorkLoop"} \cup ForceCalls
      /\ queue # <<>> /\ queue' = Tail(queue)
      /\ taskStatus' = [taskStatus EXCEPT ![Head(queue)] = "inProgress"]
      /\ UNCHANGED <<hasPool, status>>
  BY DEF PopTask, WorkTask, In, Top, Dequeue, ForceCalls
<1>2. stack' = [stack EXCEPT ![th] = Append(MoveTop(@, Pending[Last(stack[th]).call]),
                                            Job("doJob", Head(queue)))]
  BY DEF PopTask, WorkTask, In, Top, Call, Pending
<1>3. queue \in Seq(Tasks) /\ IsInjective(queue) /\ Range(queue) \subseteq hasPool
  BY DEF IInv, Types
<1>4. /\ queue' \in Seq(Tasks) /\ IsInjective(queue') /\ Len(queue') + 1 = Len(queue)
      /\ Range(queue') = Range(queue) \ {Head(queue)}
      /\ Head(queue) \in hasPool /\ Head(queue) = queue[1] /\ 1 \in 1 .. Len(queue)
  BY <1>1, <1>3, TailFacts
<1>5. taskStatus[Head(queue)] = "notStarted"
  BY <1>4 DEF IInv, QueueFresh
<1>6. Len(queue') <= Len(queue) /\ Len(queue') + 1 <= Len(queue)
  BY <1>3, <1>4
<1>7. "doJob" \in JobCalls
  BY DEF JobCalls
<1> DEFINE t == Head(queue)
           caller == "doJob"
<1> HIDE DEF t, caller
<1>8. /\ t \in hasPool /\ taskStatus[t] = "notStarted" /\ caller \in JobCalls
      /\ taskStatus' = [taskStatus EXCEPT ![t] = "inProgress"]
      /\ stack' = [stack EXCEPT ![th] = Append(MoveTop(@, Pending[Last(stack[th]).call]),
                                               Job(caller, t))]
      /\ Range(queue') = Range(queue) \ {t}
  BY <1>1, <1>2, <1>4, <1>5, <1>7 DEF t, caller
<1> QED BY <1>1, <1>4, <1>6, <1>8, StartStep

LEMMA TryDeleteStep ==
  ASSUME IInv, NEW th \in Threads, TryDelete(th)
  PROVE  IInv'
<1> DEFINE t == Top(th).task
           caller == "tryDeleteExecute"
<1>1. /\ stack[th] # <<>> /\ Top(th).call \in ForceCalls /\ UNCHANGED <<hasPool, status>>
  BY DEF TryDelete, In
<1>2. Top(th) = Last(stack[th]) /\ t \in hasPool
  BY <1>1, TopWellFormed DEF GoodFrame
<1>3. CASE taskStatus[t] # "notStarted"
  <2>1. Goto(th, "check") /\ UNCHANGED <<taskStatus, hasPool, queue, status>>
    BY <1>1, <1>3 DEF TryDelete
  <2>2. "check" \in ForcePlaces
    BY DEF ForcePlaces
  <2> QED BY <1>1, <2>1, <2>2, ForceGoes
<1>4. CASE taskStatus[t] = "notStarted"
  <2>0. queue \in Seq(Tasks) /\ IsInjective(queue)
    BY DEF IInv, Types
  <2>1. /\ DeleteItem(t)
        /\ stack' = [stack EXCEPT ![th] = Append(MoveTop(@, "check"), Job(caller, t))]
    BY <1>4 DEF TryDelete, Call
  <2>2. Pending[Last(stack[th]).call] = "check" /\ caller \in JobCalls
    BY <1>1, <1>2 DEF Pending, ForceCalls, JobCalls
  <2>3. taskStatus' = [taskStatus EXCEPT ![t] = "inProgress"]
    BY <2>1 DEF DeleteItem
  <2>4. /\ queue' \in Seq(Tasks) /\ IsInjective(queue') /\ Range(queue') = Range(queue) \ {t}
        /\ Len(queue') <= Len(queue)
    <3>1. CASE t \in Range(queue)
      <4> DEFINE i == CHOOSE i \in DOMAIN queue : queue[i] = t
      <4>1. i \in 1 .. Len(queue) /\ queue[i] = t
        BY <3>1, <2>0 DEF Range
      <4>2. queue' = RemoveAt(queue, i)
        BY <3>1, <2>1 DEF DeleteItem
      <4> HIDE DEF i
      <4>3. LET r == RemoveAt(queue, i)
            IN  /\ r \in Seq(Tasks) /\ IsInjective(r) /\ Len(r) + 1 = Len(queue)
                /\ Range(r) = Range(queue) \ {queue[i]}
        BY <2>0, <4>1, RemoveFacts
      <4> QED BY <2>0, <4>1, <4>2, <4>3
    <3>2. CASE t \notin Range(queue)
      <4>1. queue' = queue
        BY <3>2, <2>1 DEF DeleteItem
      <4> QED BY <2>0, <3>2, <4>1
    <3> QED BY <3>1, <3>2
  <2>5. ~Heads(stack[th])
    BY <1>1, <1>2 DEF Heads, TopIn, ForceCalls
  <2>6. stack' = [stack EXCEPT ![th] = Append(MoveTop(@, Pending[Last(stack[th]).call]),
                                              Job(caller, t))]
    BY <2>1, <2>2
  <2>7. Last(stack[th]).call \in {"executeWorkLoop"} \cup ForceCalls
    BY <1>1, <1>2
  <2> HIDE DEF t, caller
  <2> QED BY <1>1, <1>2, <1>4, <2>2, <2>3, <2>4, <2>5, <2>6, <2>7, StartStep
<1> QED BY <1>3, <1>4

-----------------------------------------------------------------------------
(* What clients do                                                         *)

LEMMA FirstStacks ==
  ASSUME NEW P
  PROVE  /\ WellFormed(<<>>, P) /\ WellFormed(<<Loop>>, P) /\ WellFormed(<<Joins, Loop>>, P)
         /\ \A t \in Tasks : Works(<<>>, t) = {} /\ Works(<<Loop>>, t) = {}
                             /\ Works(<<Joins, Loop>>, t) = {}
         /\ Heads(<<Loop>>) /\ Heads(<<Joins, Loop>>)
<1>1. /\ Loop \in Frames /\ Loop.call = "executeWorkLoop" /\ Loop.at = "test"
      /\ Joins \in Frames /\ Joins.call = "finish" /\ Joins.at = "join"
  BY DEF Loop, Joins, Frame, Frames, None
<1>2. Loop.call \notin JobCalls /\ Joins.call \notin JobCalls
  BY <1>1 DEF JobCalls
<1>3. GoodFrame(Loop, P) /\ GoodFrame(Joins, P)
  BY <1>1, <1>2 DEF GoodFrame, Places, ForceCalls
<1>4. Joins.at = Pending[Joins.call] /\ Calls(Joins.call, Loop.call)
  BY <1>1 DEF Pending, Calls
<1> DEFINE l == Loop
           j == Joins
<1> HIDE DEF l, j
<1>5. l \in Frames /\ j \in Frames
  BY <1>1 DEF l, j
<1>6. /\ <<l>> \in Seq(Frames) /\ Len(<<l>>) = 1 /\ <<l>>[1] = l
      /\ <<j, l>> \in Seq(Frames) /\ Len(<<j, l>>) = 2 /\ <<j, l>>[1] = j /\ <<j, l>>[2] = l
      /\ <<>> \in Seq(Frames) /\ Len(<<>>) = 0 /\ <<l>> # <<>> /\ <<j, l>> # <<>>
  BY <1>5
<1>7. l = Loop /\ j = Joins
  BY DEF l, j
<1>8. /\ \A i \in 1 .. 0 : FALSE
      /\ \A i \in 1 .. 1 : i = 1
      /\ \A i \in 1 .. 2 : i = 1 \/ i = 2
      /\ 1 - 1 = 0 /\ 2 - 1 = 1 /\ 1 + 1 = 2
  OBVIOUS
<1>9. WellFormed(<<>>, P)
  BY <1>6 DEF WellFormed
<1>10. WellFormed(<<l>>, P)
  BY <1>2, <1>3, <1>6, <1>7, <1>8 DEF WellFormed
<1>11. WellFormed(<<j, l>>, P)
  BY <1>2, <1>3, <1>4, <1>6, <1>7, <1>8 DEF WellFormed
<1>12. \A t \in Tasks : Works(<<>>, t) = {} /\ Works(<<l>>, t) = {} /\ Works(<<j, l>>, t) = {}
  BY <1>2, <1>6, <1>7, <1>8 DEF Works
<1>13. Heads(<<l>>) /\ Heads(<<j, l>>)
  BY <1>1, <1>6, <1>7 DEF Heads, TopIn, Last
<1> QED BY <1>7, <1>9, <1>10, <1>11, <1>12, <1>13

LEMMA ForceTaskStep ==
  ASSUME IInv, NEW c \in Clients, NEW t \in Tasks, ForceTask(c, t)
  PROVE  IInv'
<1> DEFINE below == <<>>
<1>1. PICK kind \in ClientForce : stack' = [stack EXCEPT ![c] = <<ForceFrame(kind, t)>>]
  BY DEF ForceTask
<1>2. /\ stack[c] = <<>> /\ t \in hasPool /\ c \in Threads /\ kind \in ForceCalls
      /\ stack \in [Threads -> Seq(Frames)]
      /\ UNCHANGED <<taskStatus, hasPool, queue, status>>
  BY ForceOK DEF ForceTask, Idle, Threads, ForceCalls, IInv, StacksRight
<1>3. /\ WellFormed(below, hasPool) /\ \A x \in Tasks : Works(below, x) = Works(stack[c], x)
      /\ below # <<>> => /\ Last(below).at = Pending[Last(below).call]
                         /\ Last(below).call \in JobCalls
  BY <1>2, FirstStacks
<1>4. StackBecomes(c, Append(below, ForceFrame(kind, t)), {})
  <2>1. <<ForceFrame(kind, t)>> = Append(below, ForceFrame(kind, t))
    OBVIOUS
  <2>2. StackBecomes(c, <<ForceFrame(kind, t)>>, {})
    BY <1>1, <1>2 DEF StackBecomes
  <2> QED BY <2>1, <2>2
<1>5. ~Heads(stack[c])
  BY <1>2 DEF Heads, TopIn
<1> HIDE DEF below
<1> QED BY <1>2, <1>3, <1>4, <1>5, PushStep

LEMMA StopStep ==
  ASSUME IInv, NEW c \in Clients, Stop(c)
  PROVE  IInv'
<1> DEFINE s == <<>>
           S == AsleepWorkers
<1>1. /\ stack[c] = <<>> /\ c \in Threads /\ Stoppers # {} /\ status' = "stopNow"
      /\ UNCHANGED <<taskStatus, hasPool, queue>> /\ stack' = Woken(S)
  BY DEF Stop, Idle, Threads
<1>2. c \notin S
  BY <1>1, ThreadFacts DEF SetsOfThreads, Sleeps, TopIn
<1>3. StackBecomes(c, s, S)
  BY <1>1, <1>2 DEF StackBecomes, Woken
<1>4. /\ WellFormed(s, hasPool) /\ \A t \in Tasks : Works(s, t) = Works(stack[c], t)
      /\ S \subseteq AsleepWorkers \cup AsleepWaiters /\ AsleepWorkers \subseteq S \cup {c}
  BY <1>1, FirstStacks
<1>5. ~Sleeps(s) /\ ~Leaves(s) /\ ~Notifies(s) /\ ~Heads(stack[c])
  BY <1>1 DEF Sleeps, Leaves, Notifies, Heads, TopIn
<1> HIDE DEF s, S
<1> QED BY <1>1, <1>3, <1>4, <1>5, KeepStep

LEMMA FinishStep ==
  ASSUME IInv, NEW c \in Clients, NEW blocking \in BOOLEAN, Finish(c, blocking)
  PROVE  IInv'
<1> DEFINE s == IF blocking THEN <<Joins, Loop>> ELSE <<>>
           S == AsleepWorkers
<1>1. /\ stack[c] = <<>> /\ c \in Threads
      /\ status' = IF status = "running" THEN "finishing" ELSE status
      /\ UNCHANGED <<taskStatus, hasPool, queue>>
      /\ stack' = [Woken(S) EXCEPT ![c] = IF blocking THEN <<Joins, Loop>> ELSE @]
  BY DEF Finish, Idle, Threads
<1>2. c \notin S
  BY <1>1, ThreadFacts DEF SetsOfThreads, Sleeps, TopIn
<1>3. StackBecomes(c, s, S)
  BY <1>1, <1>2 DEF StackBecomes, Woken
<1>4. /\ WellFormed(s, hasPool) /\ \A t \in Tasks : Works(s, t) = Works(stack[c], t)
      /\ S \subseteq AsleepWorkers \cup AsleepWaiters /\ AsleepWorkers \subseteq S \cup {c}
  BY <1>1, FirstStacks
<1>5. ~Sleeps(s) /\ ~Leaves(s) /\ ~Notifies(s) /\ ~Heads(stack[c])
  BY <1>1, FirstStacks DEF Sleeps, Leaves, Notifies, Heads, TopIn
<1>6. /\ status' \in {"finishing", "stopNow"}
      /\ Stoppers = {} /\ status' = "stopNow" => queue = <<>>
  BY <1>1 DEF IInv, Types, FinishDrains
<1> HIDE DEF s, S
<1> QED BY <1>1, <1>3, <1>4, <1>5, <1>6, KeepStep

-----------------------------------------------------------------------------
(* The invariant holds                                                     *)

LEMMA InitInv == Init => IInv
<1> SUFFICES ASSUME Init PROVE IInv
  OBVIOUS
<1>1. \A th \in Threads : stack[th] = (IF th \in Workers THEN <<Loop>> ELSE <<>>)
  BY DEF Init
<1>2. /\ queue = <<>> /\ Len(queue) = 0 /\ hasPool = {} /\ status = "running"
      /\ taskStatus = [t \in Tasks |-> "notStarted"]
  BY DEF Init
<1>3. Types
  BY <1>2 DEF Types, IsInjective, Range
<1>4. StacksRight
  <2>1. \A th \in Threads : WellFormed(stack[th], hasPool) /\ stack[th] \in Seq(Frames)
    <3>1. \A th \in Threads : WellFormed(stack[th], hasPool)
      BY <1>1, FirstStacks
    <3> QED BY <3>1 DEF WellFormed
  <2>2. stack = [th \in Threads |-> stack[th]]
    BY DEF Init
  <2> QED BY <2>1, <2>2 DEF StacksRight
<1>5. \A th \in Threads, t \in Tasks : Works(stack[th], t) = {}
  BY <1>1, FirstStacks
<1>6. OneRuns /\ QueueFresh /\ PutFirst
  <2>1. \A t \in Tasks : taskStatus[t] = "notStarted"
    BY <1>2
  <2>2. OneRuns
    BY <2>1, <1>5 DEF OneRuns
  <2>3. QueueFresh /\ PutFirst
    BY <2>1, <1>2 DEF QueueFresh, PutFirst
  <2> QED BY <2>2, <2>3
<1>7. \A th \in Threads : ~Sleeps(stack[th]) /\ ~Leaves(stack[th]) /\ ~Notifies(stack[th])
  <2>1. /\ ~Sleeps(<<>>) /\ ~Leaves(<<>>) /\ ~Notifies(<<>>)
        /\ ~Sleeps(<<Loop>>) /\ ~Leaves(<<Loop>>) /\ ~Notifies(<<Loop>>)
    BY FirstStacks DEF Sleeps, Leaves, Notifies, Heads, TopIn
  <2> QED BY <1>1, <2>1
<1>8. NotifiesDone /\ NothingCame
  BY <1>7 DEF NotifiesDone, NothingCame
<1>9. AsleepWorkers = {}
  BY <1>7, ThreadFacts DEF SetsOfThreads
<1>10. WorkConserving /\ NoWorkerLeftAsleep /\ FinishDrains
  BY <1>2, <1>9 DEF WorkConserving, NoWorkerLeftAsleep, FinishDrains
<1> QED BY <1>3, <1>4, <1>6, <1>8, <1>10 DEF IInv

LEMMA StutterStep ==
  ASSUME IInv, UNCHANGED vars
  PROVE  IInv'
<1>1. UNCHANGED <<taskStatus, queue, status, stack>> /\ hasPool' = hasPool
  BY DEF vars
<1>2. Types' /\ StacksRight' /\ QueueFresh' /\ PutFirst'
  BY <1>1 DEF IInv, Types, StacksRight, QueueFresh, PutFirst
<1>3. OneRuns'
  BY <1>1, RunsKept DEF IInv
<1>4. NotifiesDone' /\ NothingCame'
  BY <1>1 DEF IInv, NotifiesDone, NothingCame, Notifies, Leaves, TopIn, Last
<1>5. AsleepWorkers' = AsleepWorkers /\ Heading' = Heading
  BY <1>1, ThreadFacts, ThreadFactsAfter DEF SetsOfThreads, Heading
<1>6. NoWorkerLeftAsleep' /\ WorkConserving' /\ FinishDrains'
  BY <1>1, <1>5, ThreadFacts, ThreadFactsAfter
     DEF SetsOfThreads, IInv, NoWorkerLeftAsleep, FinishDrains
<1> QED BY <1>2, <1>3, <1>4, <1>6 DEF IInv

LEMMA InvStep == IInv /\ [Next]_vars => IInv'
<1> SUFFICES ASSUME IInv, [Next]_vars PROVE IInv'
  OBVIOUS
<1>1. ASSUME NEW th \in Threads, Step(th) PROVE IInv'
  <2>1. CASE TestStatus(th)
    BY <2>1, TestStatusStep
  <2>2. CASE PopTask(th) \/ WorkTask(th)
    BY <2>2, DequeueStep
  <2>3. CASE PopNothing(th)
    BY <2>3, PopNothingStep
  <2>4. CASE LeaveLoop(th)
    BY <2>4, LeaveLoopStep
  <2>5. CASE RunJob(th)
    BY <2>5, RunJobStep
  <2>6. CASE Publish(th)
    BY <2>6, PublishStep
  <2>7. CASE NotifyWaiters(th)
    BY <2>7, NotifyWaitersStep
  <2>8. CASE TryDelete(th)
    BY <2>8, TryDeleteStep
  <2>9. CASE CheckDone(th) \/ CheckNotDone(th) \/ WaitDone(th) \/ Join(th)
    BY <2>9, ForceSteps
  <2>10. CASE WorkNothing(th)
    BY <2>10, WorkNothingStep
  <2> QED BY <1>1, <2>1, <2>2, <2>3, <2>4, <2>5, <2>6, <2>7, <2>8, <2>9, <2>10 DEF Step
<1>2. ASSUME NEW th \in Threads, SpuriousWakeup(th) PROVE IInv'
  BY <1>2, SpuriousWakeupStep
<1>3. ASSUME NEW c \in Clients, UseTask(c) PROVE IInv'
  <2>1. PICK t \in Tasks : Put(c, t) \/ PutRejected(c, t) \/ ForceTask(c, t)
    BY <1>3 DEF UseTask
  <2> QED BY <2>1, PutStep, PutRejectedStep, ForceTaskStep
<1>4. ASSUME NEW c \in Clients, ShutDown(c) PROVE IInv'
  BY <1>4, StopStep, FinishStep DEF ShutDown
<1>5. CASE UNCHANGED vars
  BY <1>5, StutterStep
<1> QED BY <1>1, <1>2, <1>3, <1>4, <1>5 DEF Next

-----------------------------------------------------------------------------
(* What the invariant says                                                 *)

\* The jobs in a stack are of different tasks, and no two forces follow each
\* other.
LEMMA Depth ==
  ASSUME IInv, NEW th \in Threads
  PROVE  Len(stack[th]) <= 2 + 2 * Cardinality(Tasks)
<1> DEFINE s == stack[th]
           n == Len(s)
           J == {i \in 1 .. n : s[i].call \in JobCalls}
           F == {i \in 3 .. n : s[i].call \in ForceCalls}
<1>0. /\ WellFormed(s, hasPool) /\ hasPool \subseteq Tasks /\ s \in Seq(Frames) /\ n \in Nat
      /\ IsFiniteSet(Tasks) /\ Cardinality(Tasks) \in Nat
  BY FiniteOK, FS_CardinalityType DEF IInv, StacksRight, Types, WellFormed
<1>1. \A i \in 1 .. n : s[i].call \in JobCalls => s[i].task \in Tasks
  BY <1>0 DEF WellFormed, GoodFrame
<1>2. \A i \in 1 .. n - 1 : s[i].call \in JobCalls => s[i].at # "notify"
  <2> TAKE i \in 1 .. n - 1
  <2>1. s[i].at = Pending[s[i].call]
    BY <1>0 DEF WellFormed
  <2> QED BY <2>1 DEF Pending, JobCalls
<1>3. ASSUME NEW i \in 1 .. n, NEW j \in 1 .. n, s[i].call \in JobCalls, s[j].call \in JobCalls,
             s[i].task = s[j].task, i # j
      PROVE  FALSE
  <2> DEFINE t == s[i].task
  <2>0. t \in Tasks
    BY <1>1, <1>3
  <2>1. \A k, l \in Works(s, t) : k = l
    <3>1. \A x \in Tasks : \A k, l \in Works(stack[th], x) : k = l
      BY DEF IInv, OneRuns
    <3> QED BY <2>0, <3>1
  <2>2. Works(s, t) # {} => taskStatus[t] = "inProgress"
    <3>1. \A x \in Tasks : Works(stack[th], x) # {} => taskStatus[x] = "inProgress"
      BY DEF IInv, OneRuns
    <3> QED BY <2>0, <3>1
  <2>3. ASSUME s[n].call \in JobCalls, s[n].at = "notify", s[n].task = t, n # 0
        PROVE  taskStatus[t] = "done"
    <3>1. Notifies(s)
      <4>1. s[n].call = "doJob"
        <5>1. s[n].at \in Places[s[n].call]
          BY <1>0, <2>3 DEF WellFormed, GoodFrame
        <5> QED BY <5>1, <2>3 DEF Places, JobCalls
      <4> QED BY <4>1, <2>3, <1>0 DEF Notifies, TopIn, Last
    <3> QED BY <3>1, <2>3 DEF IInv, NotifiesDone, Last
  <2>4. i \in Works(s, t) \/ i = n
    BY <1>0, <1>2, <1>3 DEF Works
  <2>5. j \in Works(s, t) \/ j = n
    BY <1>0, <1>2, <1>3 DEF Works
  <2>6. n \notin Works(s, t) /\ n # 0 /\ s[n].task = t /\ s[n].call \in JobCalls
        /\ Works(s, t) # {}
    BY <2>1, <2>4, <2>5, <1>3
  <2>7. s[n].at = "notify"
    BY <2>6, <1>0 DEF Works
  <2> QED BY <2>2, <2>3, <2>6, <2>7
<1>4. \A i \in 3 .. n : s[i].call \in JobCalls \/ (s[i].call \in ForceCalls /\ i - 1 \in J)
  <2> TAKE i \in 3 .. n
  <2>1. /\ i - 1 \in 1 .. n - 1 /\ i - 1 + 1 = i /\ i - 2 \in 1 .. n - 1 /\ i - 2 + 1 = i - 1
        /\ i - 1 \in 1 .. n
    BY <1>0
  <2>2. Calls(s[i - 1].call, s[i].call) /\ Calls(s[i - 2].call, s[i - 1].call)
    BY <2>1, <1>0 DEF WellFormed
  <2>3. s[i].call \in JobCalls \/ (s[i].call \in ForceCalls /\ s[i - 1].call \in JobCalls)
    BY <2>2 DEF Calls, JobCalls, ForceCalls
  <2> QED BY <2>1, <2>3
<1>5. IsFiniteSet(1 .. n) /\ IsFiniteSet(3 .. n) /\ n <= 2 + Cardinality(3 .. n)
  <2>0. 1 \in Int /\ 3 \in Int /\ n \in Int
    BY <1>0
  <2> HIDE DEF n
  <2>1. /\ IsFiniteSet(1 .. n) /\ IsFiniteSet(3 .. n)
        /\ Cardinality(3 .. n) = IF 3 > n THEN 0 ELSE n - 3 + 1
    BY <2>0, FS_Interval
  <2> QED BY <2>1, <1>0
<1>6. IsFiniteSet(J) /\ IsFiniteSet(F)
  <2>1. J \subseteq 1 .. n /\ F \subseteq 3 .. n
    OBVIOUS
  <2> QED BY <2>1, <1>5, FS_Subset
<1>7. Cardinality(J) <= Cardinality(Tasks)
  <2> DEFINE f == [i \in J |-> s[i].task]
  <2>1. f \in Injection(J, Tasks)
    <3>1. f \in [J -> Tasks]
      BY <1>1
    <3>2. IsInjective(f)
      BY <1>3 DEF IsInjective
    <3> QED BY <3>1, <3>2 DEF Injection
  <2> QED BY <2>1, <1>0, FS_Injection
<1>8. Cardinality(F) <= Cardinality(J)
  <2> DEFINE f == [i \in F |-> i - 1]
  <2>1. f \in Injection(F, J)
    <3>1. f \in [F -> J]
      <4>1. \A i \in F : i - 1 \in J
        BY <1>4 DEF JobCalls, ForceCalls
      <4> QED BY <4>1
    <3>2. IsInjective(f)
      BY <1>0 DEF IsInjective
    <3> QED BY <3>1, <3>2 DEF Injection
  <2> QED BY <2>1, <1>6, FS_Injection
<1>9. Cardinality(3 .. n) <= Cardinality(J \cup F)
  <2>1. 3 .. n \subseteq J \cup F
    BY <1>4
  <2>2. IsFiniteSet(J \cup F)
    BY <1>6, FS_Union
  <2> QED BY <2>1, <2>2, FS_Subset
<1>10. Cardinality(J \cup F) <= Cardinality(J) + Cardinality(F)
  <2>1. Cardinality(J \cup F) = Cardinality(J) + Cardinality(F) - Cardinality(J \cap F)
    BY <1>6, FS_Union
  <2>2. IsFiniteSet(J \cap F)
    BY <1>6, FS_Subset
  <2>3. Cardinality(J \cap F) \in Nat /\ Cardinality(J) \in Nat /\ Cardinality(F) \in Nat
    BY <2>2, <1>6, FS_CardinalityType
  <2> HIDE DEF J, F
  <2> QED BY <2>1, <2>3
<1>11. /\ Cardinality(J) \in Nat /\ Cardinality(F) \in Nat /\ Cardinality(3 .. n) \in Nat
       /\ Cardinality(J \cup F) \in Nat
  <2>1. IsFiniteSet(J \cup F)
    BY <1>6, FS_Union
  <2> QED BY <2>1, <1>5, <1>6, FS_CardinalityType
<1>12. n <= 2 + 2 * Cardinality(Tasks)
  <2> HIDE DEF J, F, n
  <2> QED BY <1>0, <1>5, <1>7, <1>8, <1>9, <1>10, <1>11
<1> QED BY <1>12

LEMMA InvTypes == IInv => TypeOK
<1> SUFFICES ASSUME IInv PROVE TypeOK
  OBVIOUS
<1>1. ASSUME NEW th \in Threads
      PROVE  Range(stack[th]) \subseteq Frames /\ Len(stack[th]) <= 2 + 2 * Cardinality(Tasks)
  <2>1. stack[th] \in Seq(Frames)
    BY DEF IInv, StacksRight
  <2> QED BY <2>1, Depth DEF Range
<1> QED BY <1>1 DEF IInv, Types, TypeOK

LEMMA InvOnce == IInv => RunOnce
<1> SUFFICES ASSUME IInv, NEW t \in Tasks
             PROVE  /\ Cardinality(Runs(t)) = (IF taskStatus[t] = "inProgress" THEN 1 ELSE 0)
                    /\ t \in Range(queue) => taskStatus[t] = "notStarted"
  BY DEF RunOnce
<1>1. ASSUME NEW th \in Threads PROVE DOMAIN stack[th] = 1 .. Len(stack[th])
                                      /\ Len(stack[th]) \in Nat
  BY DEF IInv, StacksRight
<1>2. Cardinality(Tasks) \in Nat
  BY FiniteOK, FS_CardinalityType
<1>3. ASSUME NEW th \in Threads, NEW i
      PROVE  <<th, i>> \in Runs(t) <=> i \in Works(stack[th], t)
  <2> DEFINE top == 2 + 2 * Cardinality(Tasks)
  <2>1. Len(stack[th]) <= top /\ top \in Nat
    BY <1>2, Depth
  <2>2. i \in 1 .. Len(stack[th]) => i \in 1 .. top
    BY <2>1, <1>1
  <2> HIDE DEF top
  <2>3. <<th, i>> \in Runs(t) <=>
          /\ i \in 1 .. top /\ i \in 1 .. Len(stack[th])
          /\ stack[th][i].call \in JobCalls /\ stack[th][i].task = t
          /\ stack[th][i].at # "notify"
    BY <1>1 DEF Runs, top
  <2> QED BY <2>2, <2>3 DEF Works
<1>4. \A r \in Runs(t) : r = <<r[1], r[2]>> /\ r[1] \in Threads
  BY DEF Runs
<1>5. CASE taskStatus[t] = "inProgress"
  <2>1. PICK th \in Threads : Works(stack[th], t) # {}
    BY <1>5 DEF IInv, OneRuns
  <2>2. PICK i \in Works(stack[th], t) : TRUE
    BY <2>1
  <2>3. \A u \in Threads : \A j \in Works(stack[u], t) : u = th /\ j = i
    BY <2>2 DEF IInv, OneRuns
  <2>4. <<th, i>> \in Runs(t)
    BY <2>2, <1>3
  <2>5. \A r \in Runs(t) : r = <<th, i>>
    <3> TAKE r \in Runs(t)
    <3>1. r = <<r[1], r[2]>> /\ r[1] \in Threads /\ <<r[1], r[2]>> \in Runs(t)
      BY <1>4
    <3>2. r[2] \in Works(stack[r[1]], t)
      BY <3>1, <1>3
    <3> QED BY <3>1, <3>2, <2>3
  <2>6. Runs(t) = {<<th, i>>}
    BY <2>4, <2>5
  <2>7. Cardinality(Runs(t)) = 1
    BY <2>6, FS_Singleton
  <2> QED BY <2>7, <1>5 DEF IInv, QueueFresh, Types, Range
<1>6. CASE taskStatus[t] # "inProgress"
  <2>1. \A u \in Threads : Works(stack[u], t) = {}
    BY <1>6 DEF IInv, OneRuns
  <2>2. \A r \in Runs(t) : FALSE
    <3> TAKE r \in Runs(t)
    <3>1. r = <<r[1], r[2]>> /\ r[1] \in Threads /\ <<r[1], r[2]>> \in Runs(t)
      BY <1>4
    <3>2. r[2] \in Works(stack[r[1]], t)
      BY <3>1, <1>3
    <3> QED BY <3>1, <3>2, <2>1
  <2>3. Runs(t) = {}
    BY <2>2
  <2>4. Cardinality(Runs(t)) = 0
    BY <2>3, FS_EmptySet
  <2> QED BY <2>4, <1>6 DEF IInv, QueueFresh, Types, Range
<1> QED BY <1>5, <1>6

LEMMA Invariant == Spec => []IInv
BY InitInv, InvStep, PTL DEF Spec

\* With any number of threads and tasks, a task is run once whoever gets hold
\* of it, a sleeping worker is never needed, and none sleeps through a
\* shutdown: pop(), tryDeleteExecute() and the forces, over put() and finish().
THEOREM PoolRight == Spec => []PoolInv
<1>1. IInv => PoolInv
  BY InvTypes, InvOnce DEF IInv, PoolInv
<1> QED BY <1>1, Invariant, PTL

\* finish() abandons no task: a worker that stops the pool has seen the queue
\* empty after the last put() that was let through.
THEOREM FinishRight == Spec => []FinishDrains
<1>1. IInv => FinishDrains
  BY DEF IInv
<1> QED BY <1>1, Invariant, PTL

=============================================================================
