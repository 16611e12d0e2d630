------------------------------ MODULE TaskList ------------------------------
(***************************************************************************)
(* The queue of a TaskPool as the code keeps it: a doubly linked list that *)
(* is threaded through the prev and next fields of the tasks.  A task can  *)
(* leave from the front (popNoSync) or from anywhere (deleteItemNoSync,    *)
(* when a thread forces it).  tail is not reset when the list runs empty.  *)
(* Every action runs under queueMutex, so each is one step.  The variable  *)
(* queue is auxiliary: the sequence that the list is meant to be, changed  *)
(* as TaskPool changes its queue.                                          *)
(***************************************************************************)
EXTENDS Naturals, Sequences

CONSTANTS Tasks,
          Null,
          Groups  \* the groups of tasks that parallel loops submit

ASSUME NullIsNoTask == Null \notin Tasks
ASSUME GroupsOK == Groups \subseteq Seq(Tasks)

VARIABLES head, tail, next, prev,
          given,     \* the tasks that were handed to put(), whatever came of it
          started,   \* the tasks whose taskStatus is no longer notStarted
          accepting, \* TaskPool.status is running
          queue      \* auxiliary: what the list represents

vars == <<head, tail, next, prev, given, started, accepting, queue>>

Elements(s) == {s[i] : i \in 1 .. Len(s)}
Distinct(s) == \A i, j \in 1 .. Len(s) : s[i] = s[j] => i = j

Init == /\ head = Null /\ tail = Null
        /\ next = [t \in Tasks |-> Null]
        /\ prev = [t \in Tasks |-> Null]
        /\ given = {} /\ started = {} /\ accepting = TRUE
        /\ queue = <<>>

-----------------------------------------------------------------------------
\* abstractPutNoSync()
Put(t) ==
  /\ t \notin given
  /\ accepting
  /\ given' = given \cup {t}
  /\ queue' = Append(queue, t)
  /\ tail' = t
  /\ IF head = Null
     THEN /\ head' = t
          /\ next' = [next EXCEPT ![t] = Null]
          /\ prev' = [prev EXCEPT ![t] = Null]
     ELSE /\ next' = [next EXCEPT ![t] = Null, ![tail] = t]
          /\ prev' = [prev EXCEPT ![t] = tail]
          /\ UNCHANGED head
  /\ UNCHANGED <<started, accepting>>

\* put() throws after it has set the task's pool.
PutRejected(t) ==
  /\ t \notin given
  /\ ~accepting
  /\ given' = given \cup {t}
  /\ UNCHANGED <<head, tail, next, prev, started, accepting, queue>>

\* submitAndExecute() links the tasks of a parallel loop into a chain, and
\* abstractPutGroupNoSync() appends the chain.
Place(s, t) == CHOOSE i \in 1 .. Len(s) : s[i] = t

PutGroup(s) ==
  /\ s # <<>> /\ Distinct(s) /\ Elements(s) \cap given = {}
  /\ accepting
  /\ given' = given \cup Elements(s)
  /\ queue' = queue \o s
  /\ tail' = s[Len(s)]
  /\ next' = [u \in Tasks |->
               IF u \in Elements(s) /\ u # s[Len(s)] THEN s[Place(s, u) + 1]
               ELSE IF head # Null /\ u = tail THEN s[1] ELSE next[u]]
  /\ prev' = [u \in Tasks |->
               IF u \in Elements(s) /\ u # s[1] THEN s[Place(s, u) - 1]
               ELSE IF head # Null /\ u = s[1] THEN tail ELSE prev[u]]
  /\ head' = IF head = Null THEN s[1] ELSE head
  /\ UNCHANGED <<started, accepting>>

\* popNoSync() of a nonempty queue, on the pointers.
Unlink1 ==
  /\ head' = next[head]
  /\ next' = [next EXCEPT ![head] = Null]
  /\ prev' = IF next[head] = Null THEN [prev EXCEPT ![head] = Null]
             ELSE [prev EXCEPT ![head] = Null, ![next[head]] = Null]
  /\ UNCHANGED tail

Pop ==
  /\ head # Null
  /\ Unlink1
  /\ started' = started \cup {head}
  /\ queue' = Tail(queue)
  /\ UNCHANGED <<given, accepting>>

\* What deleteItemNoSync() does with the last item of a longer list.
UnlinkLast ==
  /\ tail' = prev[tail]
  /\ next' = [next EXCEPT ![prev[tail]] = Null, ![tail] = Null]
  /\ prev' = [prev EXCEPT ![tail] = Null]
  /\ UNCHANGED head

\* Wrong: the item after the one that leaves keeps its back link.
KeepsBackLink(t) ==
  /\ next' = [u \in Tasks |-> IF u = t THEN Null
                              ELSE IF u = prev[t] THEN next[t] ELSE next[u]]
  /\ prev' = [prev EXCEPT ![t] = Null]
  /\ UNCHANGED <<head, tail>>

\* ... and with any other item, even one that is not in the list.
UnlinkInside(t) ==
  /\ next' = [u \in Tasks |-> IF u = t THEN Null
                              ELSE IF u = prev[t] THEN next[t] ELSE next[u]]
  /\ prev' = [u \in Tasks |-> IF u = t THEN Null
                              ELSE IF u = next[t] THEN prev[t] ELSE prev[u]]
  /\ UNCHANGED <<head, tail>>

Without(s, i) == [j \in 1 .. Len(s) - 1 |-> IF j < i THEN s[j] ELSE s[j + 1]]

\* deleteItemNoSync() of a task that was not started.
Delete(t) ==
  /\ t \in given \ started
  /\ started' = started \cup {t}
  /\ IF t = head THEN Unlink1
     ELSE IF t = tail THEN UnlinkLast
     ELSE UnlinkInside(t)
  /\ IF t \in Elements(queue)
     THEN \E i \in 1 .. Len(queue) : queue[i] = t /\ queue' = Without(queue, i)
     ELSE UNCHANGED queue
  /\ UNCHANGED <<given, accepting>>

\* stop() or finish()
Close ==
  /\ accepting
  /\ accepting' = FALSE
  /\ UNCHANGED <<head, tail, next, prev, given, started, queue>>

Next == \/ \E t \in Tasks : Put(t) \/ PutRejected(t) \/ Delete(t)
        \/ \E s \in Groups : PutGroup(s)
        \/ Pop \/ Close

Spec == Init /\ [][Next]_vars

-----------------------------------------------------------------------------
(* Properties                                                              *)

TypeOK ==
  /\ head \in Tasks \cup {Null} /\ tail \in Tasks \cup {Null}
  /\ next \in [Tasks -> Tasks \cup {Null}]
  /\ prev \in [Tasks -> Tasks \cup {Null}]
  /\ given \subseteq Tasks /\ started \subseteq given
  /\ accepting \in BOOLEAN
  /\ queue \in Seq(Tasks)

\* Read from head along next, or from tail along prev, the list is the queue,
\* and a task outside it has no neighbours: what the contracts of popNoSync
\* and abstractPutNoSync and the asserts of deleteItemNoSync count on.
ListIsQueue ==
  /\ Distinct(queue)
  /\ head = IF queue = <<>> THEN Null ELSE queue[1]
  /\ queue # <<>> => tail = queue[Len(queue)]
  /\ \A i \in 1 .. Len(queue) :
       /\ next[queue[i]] = IF i = Len(queue) THEN Null ELSE queue[i + 1]
       /\ prev[queue[i]] = IF i = 1 THEN Null ELSE queue[i - 1]
  /\ \A t \in Tasks \ Elements(queue) : next[t] = Null /\ prev[t] = Null

\* Tasks that were accepted and not started are in the list, none is lost when
\* its neighbours leave; and what has been started has left it.
NothingLost ==
  /\ Elements(queue) \subseteq given \ started
  /\ accepting => given \ started \subseteq Elements(queue)
  /\ tail \in started \cup Elements(queue) \cup {Null}

=============================================================================
