---------------------------- MODULE PhobosProofs ----------------------------
(***************************************************************************)
(* Three parts of phobos.  The doubly linked list of a TaskPool is its     *)
(* queue, for any number of tasks: no order of puts, pops and deletions    *)
(* from the middle breaks a link, loses a task or revives one.  A          *)
(* parallel foreach calls its body once for each element and is over only  *)
(* when nobody runs it any more.  And the mailbox of std.concurrency, for  *)
(* any senders, any scripts and any limits, whatever the owner receives:   *)
(* nobody sleeps next to work, the messages of one sender and one kind     *)
(* stay in order, and the box holds twice its limit at most.               *)
(***************************************************************************)
EXTENDS TaskList, ParallelForeach, MessageBox, FiniteSetTheorems, SequenceTheorems,
        WellFoundedInduction, TLAPS

-----------------------------------------------------------------------------
(* TaskList                                                                *)

IInv == TypeOK /\ ListIsQueue /\ NothingLost

LEMMA InitInv == Init => IInv
BY NullIsNoTask DEF Init, IInv, TypeOK, ListIsQueue, NothingLost, Distinct, Elements

\* Every element has a place, and an element's place is its index.
LEMMA PlaceOf ==
  ASSUME NEW s \in Seq(Tasks), Distinct(s), NEW i \in 1 .. Len(s)
  PROVE  Place(s, s[i]) = i
BY DEF Place, Distinct

-----------------------------------------------------------------------------
LEMMA PutStep ==
  ASSUME IInv, NEW t \in Tasks, Put(t)
  PROVE  IInv'
<1> USE NullIsNoTask DEF IInv
<1>1. TypeOK'
  BY DEF TypeOK, Put
<1> DEFINE n == Len(queue)
<1>2. /\ queue \in Seq(Tasks) /\ n \in Nat
      /\ Len(queue') = n + 1
      /\ \A i \in 1 .. n : queue'[i] = queue[i]
      /\ queue'[n + 1] = t
  BY DEF TypeOK, Put
<1>3. t \notin Elements(queue) /\ \A i \in 1 .. n : queue[i] # t /\ queue[i] \in Tasks
  BY <1>2 DEF NothingLost, Put, Elements
<1>4. Elements(queue)' = Elements(queue) \cup {t}
  BY <1>2 DEF Elements
<1>5. Distinct(queue)'
  BY <1>2, <1>3 DEF ListIsQueue, Distinct
<1>6. NothingLost'
  BY <1>4 DEF NothingLost, Put, TypeOK
<1>7. CASE head = Null
  <2>1. queue = <<>> /\ n = 0
    BY <1>2, <1>3, <1>7 DEF ListIsQueue
  <2>2. ListIsQueue'
    BY <1>1, <1>2, <1>4, <1>5, <1>7, <2>1 DEF ListIsQueue, Put, TypeOK, Elements
  <2> QED BY <1>1, <1>6, <2>2
<1>8. CASE head # Null
  <2>1. n # 0 /\ queue # <<>> /\ tail = queue[n] /\ tail # t
    BY <1>2, <1>3, <1>8 DEF ListIsQueue
  <2>2. /\ next' = [next EXCEPT ![t] = Null, ![tail] = t]
        /\ prev' = [prev EXCEPT ![t] = tail]
        /\ head' = head /\ tail' = t
    BY <1>8 DEF Put
  <2>3. \A i \in 1 .. n + 1 :
          /\ next'[queue'[i]] = IF i = n + 1 THEN Null ELSE queue'[i + 1]
          /\ prev'[queue'[i]] = IF i = 1 THEN Null ELSE queue'[i - 1]
    <3>1. \A i \in 1 .. n : queue[i] = tail <=> i = n
      BY <1>2, <2>1 DEF ListIsQueue, Distinct
    <3>2. tail \in Tasks
      BY <1>2, <1>3, <2>1
    <3>3. /\ next'[t] = Null /\ next'[tail] = t /\ prev'[t] = tail
          /\ \A u \in Tasks \ {t, tail} : next'[u] = next[u]
          /\ \A u \in Tasks \ {t} : prev'[u] = prev[u]
      BY <2>1, <2>2, <3>2 DEF TypeOK
    <3>4. \A i \in 1 .. n : /\ next[queue[i]] = IF i = n THEN Null ELSE queue[i + 1]
                           /\ prev[queue[i]] = IF i = 1 THEN Null ELSE queue[i - 1]
      BY DEF ListIsQueue
    <3>5. ASSUME NEW i \in 1 .. n
          PROVE  /\ next'[queue'[i]] = queue'[i + 1]
                 /\ prev'[queue'[i]] = IF i = 1 THEN Null ELSE queue'[i - 1]
      <4>1. queue'[i] = queue[i] /\ queue[i] \in Tasks \ {t}
        BY <1>2, <1>3
      <4>2. CASE i = n
        BY <1>2, <2>1, <3>3, <3>4, <4>1, <4>2
      <4>3. CASE i # n
        <5>1. queue[i] # tail /\ queue'[i + 1] = queue[i + 1] /\ i - 1 \in 0 .. n
          BY <1>2, <3>1, <4>3
        <5>2. next'[queue[i]] = queue[i + 1]
          BY <3>3, <3>4, <4>1, <4>3, <5>1
        <5>3. prev'[queue[i]] = prev[queue[i]]
          BY <3>3, <4>1
        <5>4. i # 1 => queue'[i - 1] = queue[i - 1]
          BY <1>2, <5>1
        <5> QED BY <3>4, <4>1, <5>1, <5>2, <5>3, <5>4
      <4> QED BY <4>2, <4>3
    <3> QED BY <1>2, <2>1, <3>3, <3>5
  <2>4. \A u \in Tasks \ Elements(queue)' : next'[u] = Null /\ prev'[u] = Null
    <3>1. tail \in Elements(queue)
      BY <1>2, <2>1 DEF Elements
    <3> QED BY <1>4, <2>2, <3>1 DEF ListIsQueue, TypeOK
  <2>5. ListIsQueue'
    <3>1. queue' # <<>> /\ head' = queue'[1] /\ tail' = queue'[n + 1]
      BY <1>2, <2>1, <2>2 DEF ListIsQueue
    <3> QED BY <1>2, <1>5, <2>3, <2>4, <3>1 DEF ListIsQueue
  <2> QED BY <1>1, <1>6, <2>5
<1> QED BY <1>7, <1>8

-----------------------------------------------------------------------------
(* Every way out of the list removes one element and closes the gap        *)

\* The i-th element leaves: what that has to do to the pointers.
Unlinks(i) ==
  LET t == queue[i]
      n == Len(queue)
  IN  /\ next'[t] = Null /\ prev'[t] = Null
      /\ i > 1 => next'[queue[i - 1]] = next[t]
      /\ i < n => prev'[queue[i + 1]] = prev[t]
      /\ \A u \in Tasks \ {t} : ~(i > 1 /\ u = queue[i - 1]) => next'[u] = next[u]
      /\ \A u \in Tasks \ {t} : ~(i < n /\ u = queue[i + 1]) => prev'[u] = prev[u]
      /\ head' = IF i = 1 THEN next[t] ELSE head
      /\ tail' = IF i = n /\ i > 1 THEN prev[t] ELSE tail

LEMMA Removal ==
  ASSUME IInv, TypeOK', NEW i \in 1 .. Len(queue), Unlinks(i),
         queue' = Without(queue, i),
         started' = started \cup {queue[i]}, given' = given, accepting' = accepting
  PROVE  IInv'
<1> USE NullIsNoTask DEF IInv
<1> DEFINE n == Len(queue)
           t == queue[i]
<1>1. /\ queue \in Seq(Tasks) /\ n \in Nat /\ i \in 1 .. n
      /\ t \in Tasks /\ \A j \in 1 .. n : queue[j] \in Tasks
  BY DEF TypeOK
<1>2. /\ Len(queue') = n - 1
      /\ \A j \in 1 .. n - 1 : queue'[j] = IF j < i THEN queue[j] ELSE queue[j + 1]
  BY <1>1 DEF Without
<1>3. \A j, k \in 1 .. n : queue[j] = queue[k] => j = k
  BY DEF ListIsQueue, Distinct
<1>U. /\ next'[t] = Null /\ prev'[t] = Null
      /\ i > 1 => next'[queue[i - 1]] = next[t]
      /\ i < n => prev'[queue[i + 1]] = prev[t]
      /\ \A u \in Tasks \ {t} : ~(i > 1 /\ u = queue[i - 1]) => next'[u] = next[u]
      /\ \A u \in Tasks \ {t} : ~(i < n /\ u = queue[i + 1]) => prev'[u] = prev[u]
      /\ head' = IF i = 1 THEN next[t] ELSE head
      /\ tail' = IF i = n /\ i > 1 THEN prev[t] ELSE tail
  BY DEF Unlinks
<1>4. Distinct(queue)'
  <2>1. ASSUME NEW j \in 1 .. n - 1, NEW k \in 1 .. n - 1, queue'[j] = queue'[k]
        PROVE  j = k
    <3>1. queue'[j] = (IF j < i THEN queue[j] ELSE queue[j + 1])
          /\ queue'[k] = (IF k < i THEN queue[k] ELSE queue[k + 1])
      BY <1>2
    <3>2. j \in 1 .. n /\ j + 1 \in 1 .. n /\ k \in 1 .. n /\ k + 1 \in 1 .. n
      BY <1>1
    <3>3. CASE j < i /\ k < i
      BY <1>3, <2>1, <3>1, <3>2, <3>3
    <3>4. CASE ~(j < i) /\ ~(k < i)
      <4>1. j + 1 = k + 1
        BY <1>3, <2>1, <3>1, <3>2, <3>4
      <4> QED BY <4>1
    <3>5. CASE j < i /\ ~(k < i)
      <4>1. j = k + 1
        BY <1>3, <2>1, <3>1, <3>2, <3>5
      <4> QED BY <1>1, <3>5, <4>1
    <3>6. CASE ~(j < i) /\ k < i
      <4>1. j + 1 = k
        BY <1>3, <2>1, <3>1, <3>2, <3>6
      <4> QED BY <1>1, <3>6, <4>1
    <3> QED BY <3>3, <3>4, <3>5, <3>6
  <2> QED BY <1>2, <2>1 DEF Distinct
<1>5. Elements(queue)' = Elements(queue) \ {t}
  <2>1. ASSUME NEW u \in Elements(queue)'
        PROVE  u \in Elements(queue) \ {t}
    <3>1. PICK j \in 1 .. n - 1 : u = queue'[j]
      BY <1>2 DEF Elements
    <3>2. CASE j < i
      BY <1>1, <1>2, <1>3, <3>1, <3>2 DEF Elements
    <3>3. CASE ~(j < i)
      BY <1>1, <1>2, <1>3, <3>1, <3>3 DEF Elements
    <3> QED BY <3>2, <3>3
  <2>2. ASSUME NEW u \in Elements(queue) \ {t}
        PROVE  u \in Elements(queue)'
    <3>1. PICK j \in 1 .. n : u = queue[j]
      BY DEF Elements
    <3>2. CASE j < i
      <4>1. j \in 1 .. n - 1 /\ queue'[j] = u
        BY <1>1, <1>2, <3>1, <3>2
      <4> QED BY <1>2, <4>1 DEF Elements
    <3>3. CASE j > i
      <4>1. j - 1 \in 1 .. n - 1 /\ queue'[j - 1] = u
        BY <1>1, <1>2, <3>1, <3>3
      <4> QED BY <1>2, <4>1 DEF Elements
    <3> QED BY <1>1, <3>1, <3>2, <3>3
  <2> QED BY <2>1, <2>2
<1>6. \A j \in 1 .. n : /\ next[queue[j]] = IF j = n THEN Null ELSE queue[j + 1]
                       /\ prev[queue[j]] = IF j = 1 THEN Null ELSE queue[j - 1]
  BY DEF ListIsQueue
<1>B. \A j \in 1 .. n - 1 : prev[queue[j + 1]] = queue[j]
  <2> TAKE j \in 1 .. n - 1
  <2>1. j + 1 \in 1 .. n /\ j + 1 # 1 /\ (j + 1) - 1 = j
    BY <1>1
  <2>2. prev[queue[j + 1]] = IF j + 1 = 1 THEN Null ELSE queue[(j + 1) - 1]
    BY <1>6, <2>1
  <2> QED BY <2>1, <2>2
<1>7. head = queue[1] /\ tail = queue[n]
  BY <1>1 DEF ListIsQueue
<1>8. ASSUME NEW j \in 1 .. n - 1
      PROVE  /\ next'[queue'[j]] = IF j = n - 1 THEN Null ELSE queue'[j + 1]
             /\ prev'[queue'[j]] = IF j = 1 THEN Null ELSE queue'[j - 1]
  <2>1. CASE j < i
    <3>1. queue'[j] = queue[j] /\ queue[j] # t /\ (i < n => queue[j] # queue[i + 1])
      BY <1>1, <1>2, <1>3, <2>1
    <3>2. next'[queue'[j]] = IF j = n - 1 THEN Null ELSE queue'[j + 1]
      <4>1. CASE j = i - 1
        <5>1. next'[queue[j]] = next[t]
          BY <1>1, <1>U, <4>1
        <5>2. next[t] = IF i = n THEN Null ELSE queue[i + 1]
          BY <1>1, <1>6
        <5>3. i # n => queue'[j + 1] = queue[i + 1]
          BY <1>1, <1>2, <4>1
        <5> QED BY <1>1, <3>1, <4>1, <5>1, <5>2, <5>3
      <4>2. CASE j < i - 1
        <5>1. queue[j] # queue[i - 1]
          BY <1>1, <1>3, <2>1, <4>2
        <5>2. next'[queue[j]] = next[queue[j]]
          BY <1>1, <1>U, <3>1, <5>1
        <5>3. next[queue[j]] = queue[j + 1] /\ queue'[j + 1] = queue[j + 1] /\ j # n - 1
          <6>1. j \in 1 .. n /\ j + 1 \in 1 .. n - 1 /\ j + 1 < i /\ j # n /\ j # n - 1
            BY <1>1, <4>2
          <6> QED BY <1>2, <1>6, <6>1
        <5> QED BY <3>1, <5>2, <5>3
      <4> QED BY <1>1, <2>1, <4>1, <4>2
    <3>3. prev'[queue'[j]] = prev[queue[j]]
      BY <1>1, <1>U, <3>1
    <3> QED BY <1>1, <1>2, <1>6, <2>1, <3>2, <3>3
  <2>2. CASE ~(j < i)
    <3>1. /\ queue'[j] = queue[j + 1] /\ queue[j + 1] # t /\ j + 1 \in 1 .. n
          /\ i > 1 => queue[j + 1] # queue[i - 1]
      BY <1>1, <1>2, <1>3, <2>2
    <3>2. prev'[queue'[j]] = IF j = 1 THEN Null ELSE queue'[j - 1]
      <4>1. CASE j = i
        <5>1. i < n
          BY <1>1, <4>1
        <5>2. prev'[queue[i + 1]] = prev[t]
          BY <1>U, <5>1
        <5>3. prev[t] = IF i = 1 THEN Null ELSE queue[i - 1]
          BY <1>6
        <5>4. i # 1 => i - 1 \in 1 .. n - 1 /\ i - 1 < i
          BY <1>1
        <5>5. i # 1 => queue'[i - 1] = queue[i - 1]
          BY <1>2, <5>4
        <5> QED BY <3>1, <4>1, <5>2, <5>3, <5>5
      <4>2. CASE j > i
        <5>1. j + 1 \in 1 .. n /\ i + 1 \in 1 .. n /\ j + 1 # i + 1
          BY <1>1, <4>2
        <5>2. queue[j + 1] \in Tasks \ {t} /\ (i < n => queue[j + 1] # queue[i + 1])
          BY <1>1, <1>3, <3>1, <5>1
        <5>3. prev'[queue[j + 1]] = prev[queue[j + 1]]
          BY <1>U, <5>2
        <5>4. j # 1 /\ j - 1 \in 1 .. n - 1 /\ ~(j - 1 < i) /\ (j - 1) + 1 = j
          BY <1>1, <4>2
        <5>5. queue'[j - 1] = queue[j]
          BY <1>2, <5>4
        <5> QED BY <1>B, <3>1, <5>3, <5>4, <5>5
      <4> QED BY <1>1, <2>2, <4>1, <4>2
    <3>3. next'[queue'[j]] = next[queue[j + 1]]
      BY <1>1, <1>U, <3>1
    <3> QED BY <1>1, <1>2, <1>6, <2>2, <3>1, <3>2, <3>3
  <2> QED BY <2>1, <2>2
<1>9. \A u \in Tasks \ Elements(queue)' : next'[u] = Null /\ prev'[u] = Null
  <2>1. \A j \in 1 .. n : queue[j] \in Elements(queue)
    BY DEF Elements
  <2>2. ASSUME NEW u \in Tasks \ Elements(queue), u # t
        PROVE  next'[u] = next[u] /\ prev'[u] = prev[u]
    <3>1. (i > 1 => u # queue[i - 1]) /\ (i < n => u # queue[i + 1])
      BY <1>1, <2>1
    <3> QED BY <1>U, <2>2, <3>1
  <2> QED BY <1>5, <1>U, <2>2 DEF ListIsQueue
<1>10. /\ head' = IF queue' = <<>> THEN Null ELSE queue'[1]
       /\ queue' # <<>> => tail' = queue'[Len(queue')]
  <2>1. queue' \in Seq(Tasks) /\ (queue' = <<>> <=> n = 1)
    BY <1>1, <1>2 DEF TypeOK
  <2>2. CASE n = 1
    <3>1. i = 1 /\ next[t] = Null
      BY <1>1, <1>6, <2>2
    <3> QED BY <1>U, <2>1, <2>2, <3>1
  <2>3. CASE n # 1
    <3>1. /\ queue' # <<>>
          /\ 1 \in 1 .. n - 1 /\ n - 1 \in 1 .. n - 1
      <4>1. queue' # <<>>
        BY <2>1, <2>3
      <4>2. n \in Nat /\ i \in 1 .. n
        BY <1>1
      <4>3. n >= 2
        <5> HIDE DEF n
        <5> QED BY <2>3, <4>2
      <4> QED BY <4>1, <4>2, <4>3
    <3>2. head' = queue'[1]
      <4>1. CASE i = 1
        BY <1>2, <1>6, <1>U, <2>3, <3>1, <4>1
      <4>2. CASE i # 1
        BY <1>1, <1>2, <1>7, <1>U, <3>1, <4>2
      <4> QED BY <4>1, <4>2
    <3>3. tail' = queue'[n - 1]
      <4>1. CASE i = n
        BY <1>1, <1>2, <1>6, <1>U, <2>3, <3>1, <4>1
      <4>2. CASE i # n
        BY <1>1, <1>2, <1>7, <1>U, <3>1, <4>2
      <4> QED BY <4>1, <4>2
    <3> QED BY <1>2, <3>1, <3>2, <3>3
  <2> QED BY <2>2, <2>3
<1>11. NothingLost'
  <2>1. tail' \in started' \cup Elements(queue)' \cup {Null}
    <3>1. CASE i = n
      <4>1. i > 1 => prev[t] = queue[i - 1] /\ queue[i - 1] \in Elements(queue) \ {t}
        BY <1>1, <1>3, <1>6 DEF Elements
      <4> QED BY <1>1, <1>5, <1>7, <1>U, <3>1, <4>1
    <3>2. CASE i # n
      BY <1>5, <1>U, <3>2 DEF NothingLost
    <3> QED BY <3>1, <3>2
  <2> QED BY <1>5, <2>1 DEF NothingLost
<1>12. ListIsQueue'
  BY <1>2, <1>4, <1>8, <1>9, <1>10 DEF ListIsQueue
<1> QED BY <1>11, <1>12

\* What the invariant says of the neighbours of an element.
LEMMA Neighbours ==
  ASSUME IInv, NEW i \in 1 .. Len(queue)
  PROVE  /\ queue[i] \in Tasks /\ queue[i] \in Elements(queue)
         /\ next[queue[i]] = IF i = Len(queue) THEN Null ELSE queue[i + 1]
         /\ prev[queue[i]] = IF i = 1 THEN Null ELSE queue[i - 1]
         /\ queue[i] # Null
         /\ head = queue[1] /\ tail = queue[Len(queue)]
         /\ \A j \in 1 .. Len(queue) : queue[j] \in Tasks /\ (queue[j] = queue[i] => j = i)
<1>1. queue \in Seq(Tasks) /\ queue # <<>>
  BY DEF IInv, TypeOK
<1> QED BY <1>1, NullIsNoTask DEF IInv, ListIsQueue, Distinct, Elements

\* popNoSync() unlinks the first element.
LEMMA FirstUnlinks ==
  ASSUME IInv, queue # <<>>, Unlink1
  PROVE  1 \in 1 .. Len(queue) /\ Unlinks(1)
<1>1. Len(queue) \in Nat /\ 1 \in 1 .. Len(queue)
  BY DEF IInv, TypeOK
<1>2. /\ head = queue[1] /\ head \in Tasks /\ head # Null /\ prev[head] = Null
      /\ next[head] = IF 1 = Len(queue) THEN Null ELSE queue[2]
  <2>1. /\ queue[1] \in Tasks /\ queue[1] # Null /\ head = queue[1]
        /\ next[queue[1]] = IF 1 = Len(queue) THEN Null ELSE queue[1 + 1]
        /\ prev[queue[1]] = Null
    BY <1>1, Neighbours
  <2> QED BY <2>1
<1>3. next \in [Tasks -> Tasks \cup {Null}] /\ prev \in [Tasks -> Tasks \cup {Null}]
  BY DEF IInv, TypeOK
<1>4. next' = [next EXCEPT ![head] = Null] /\ head' = next[head] /\ tail' = tail
  BY DEF Unlink1
<1>5. CASE Len(queue) = 1
  <2>1. prev' = [prev EXCEPT ![head] = Null]
    BY <1>2, <1>5 DEF Unlink1
  <2> QED BY <1>1, <1>2, <1>3, <1>4, <1>5, <2>1 DEF Unlinks
<1>6. CASE Len(queue) # 1
  <2>1. 2 \in 1 .. Len(queue)
    BY <1>1, <1>6
  <2>2. queue[2] \in Tasks /\ queue[2] # Null /\ queue[2] # head
    BY <1>1, <1>2, <2>1, Neighbours
  <2>3. prev' = [prev EXCEPT ![head] = Null, ![queue[2]] = Null]
    BY <1>2, <1>6, <2>2 DEF Unlink1
  <2>4. /\ next'[head] = Null /\ prev'[head] = Null /\ prev'[queue[2]] = Null
        /\ \A u \in Tasks \ {head} : next'[u] = next[u]
        /\ \A u \in Tasks \ {head, queue[2]} : prev'[u] = prev[u]
    BY <1>2, <1>3, <1>4, <2>2, <2>3
  <2>5. 1 < Len(queue) /\ 1 # Len(queue)
    <3>1. \A m \in Nat : 1 \in 1 .. m /\ m # 1 => 1 < m
      OBVIOUS
    <3> QED BY <1>1, <1>6, <3>1
  <2> QED BY <1>1, <1>2, <1>4, <2>4, <2>5 DEF Unlinks
<1> QED BY <1>5, <1>6

LEMMA LastUnlinks ==
  ASSUME IInv, queue # <<>>, tail # head, UnlinkLast
  PROVE  Len(queue) \in 1 .. Len(queue) /\ Unlinks(Len(queue))
<1> DEFINE n == Len(queue)
<1>1. n \in Nat /\ n \in 1 .. n /\ 1 \in 1 .. n
  BY DEF IInv, TypeOK
<1>2. head = queue[1] /\ tail = queue[n] /\ tail \in Tasks /\ next[tail] = Null
  BY <1>1, Neighbours
<1>3. n # 1
  BY <1>2
<1>4. n - 1 \in 1 .. n
  <2> HIDE DEF n
  <2> QED BY <1>1, <1>3
<1>5. prev[tail] = queue[n - 1] /\ queue[n - 1] \in Tasks /\ queue[n - 1] # tail
  BY <1>1, <1>2, <1>3, <1>4, Neighbours
<1>6. next \in [Tasks -> Tasks \cup {Null}] /\ prev \in [Tasks -> Tasks \cup {Null}]
  BY DEF IInv, TypeOK
<1>7. /\ next' = [next EXCEPT ![queue[n - 1]] = Null, ![tail] = Null]
      /\ prev' = [prev EXCEPT ![tail] = Null]
      /\ tail' = prev[tail] /\ head' = head
  BY <1>5 DEF UnlinkLast
<1> QED BY <1>1, <1>2, <1>3, <1>5, <1>6, <1>7 DEF Unlinks

LEMMA InsideUnlinks ==
  ASSUME IInv, NEW i \in 1 .. Len(queue), queue[i] # head, queue[i] # tail,
         UnlinkInside(queue[i])
  PROVE  Unlinks(i)
<1> DEFINE n == Len(queue)
           t == queue[i]
<1>1. n \in Nat /\ i \in 1 .. n
  BY DEF IInv, TypeOK
<1>2. /\ head = queue[1] /\ tail = queue[n] /\ t \in Tasks
      /\ next[t] = IF i = n THEN Null ELSE queue[i + 1]
      /\ prev[t] = IF i = 1 THEN Null ELSE queue[i - 1]
  BY Neighbours
<1>3. i # 1 /\ i # n
  BY <1>2
<1>4. i - 1 \in 1 .. n /\ i + 1 \in 1 .. n
  BY <1>1, <1>3
<1>5. /\ next[t] = queue[i + 1] /\ prev[t] = queue[i - 1]
      /\ queue[i + 1] \in Tasks \ {t} /\ queue[i - 1] \in Tasks \ {t}
  BY <1>1, <1>2, <1>3, <1>4, Neighbours
<1>6. /\ \A u \in Tasks : next'[u] = IF u = t THEN Null
                                    ELSE IF u = queue[i - 1] THEN next[t] ELSE next[u]
      /\ \A u \in Tasks : prev'[u] = IF u = t THEN Null
                                    ELSE IF u = queue[i + 1] THEN prev[t] ELSE prev[u]
      /\ head' = head /\ tail' = tail
  BY <1>5 DEF UnlinkInside
<1> QED BY <1>2, <1>3, <1>5, <1>6 DEF Unlinks

-----------------------------------------------------------------------------
\* A task outside the list, handed in too late: its links lead nowhere.
LEMMA OutsideUnlinks ==
  ASSUME IInv, NEW t \in Tasks \ Elements(queue), UnlinkInside(t)
  PROVE  UNCHANGED <<head, tail, next, prev>>
<1>1. next[t] = Null /\ prev[t] = Null
  BY DEF IInv, ListIsQueue
<1>2. next \in [Tasks -> Tasks \cup {Null}] /\ prev \in [Tasks -> Tasks \cup {Null}]
  BY DEF IInv, TypeOK
<1>3. next' = [u \in Tasks |-> next[u]] /\ prev' = [u \in Tasks |-> prev[u]]
  BY <1>1, NullIsNoTask DEF UnlinkInside
<1> QED BY <1>2, <1>3 DEF UnlinkInside

LEMMA WithoutType ==
  ASSUME NEW s \in Seq(Tasks), NEW i \in 1 .. Len(s)
  PROVE  Without(s, i) \in Seq(Tasks)
<1>1. Len(s) - 1 \in Nat
  BY LenProperties
<1>2. \A j \in 1 .. Len(s) - 1 : (IF j < i THEN s[j] ELSE s[j + 1]) \in Tasks
  BY LenProperties
<1>3. Without(s, i) \in [1 .. Len(s) - 1 -> Tasks]
  BY <1>2 DEF Without
<1> QED BY <1>1, <1>3, SeqDef

LEMMA TailIsWithout ==
  ASSUME NEW s \in Seq(Tasks), s # <<>>
  PROVE  Tail(s) = Without(s, 1)
<1>1. /\ Tail(s) \in Seq(Tasks) /\ Len(Tail(s)) = Len(s) - 1
      /\ \A j \in 1 .. Len(Tail(s)) : Tail(s)[j] = s[j + 1]
  BY HeadTailProperties
<1>2. Tail(s) = [j \in 1 .. Len(s) - 1 |-> Tail(s)[j]]
  BY <1>1, LenProperties
<1>3. \A j \in 1 .. Len(s) - 1 : Tail(s)[j] = IF j < 1 THEN s[j] ELSE s[j + 1]
  BY <1>1
<1> QED BY <1>2, <1>3 DEF Without

LEMMA PopStep == IInv /\ Pop => IInv'
<1> SUFFICES ASSUME IInv, Pop PROVE IInv'
  OBVIOUS
<1>1. queue # <<>>
  BY DEF Pop, IInv, ListIsQueue
<1>2. 1 \in 1 .. Len(queue) /\ Unlinks(1)
  BY <1>1, FirstUnlinks DEF Pop
<1>3. queue \in Seq(Tasks) /\ queue' = Without(queue, 1) /\ queue' \in Seq(Tasks)
  BY <1>1, <1>2, TailIsWithout, WithoutType DEF Pop, IInv, TypeOK
<1>4. head = queue[1] /\ head \in given /\ head \in Tasks
  BY <1>2, Neighbours DEF IInv, NothingLost
<1>5. TypeOK'
  BY <1>3, <1>4 DEF IInv, TypeOK, Pop, Unlink1
<1>6. started' = started \cup {queue[1]} /\ given' = given /\ accepting' = accepting
  BY <1>4 DEF Pop
<1> QED BY <1>2, <1>3, <1>5, <1>6, Removal

LEMMA DeleteStep ==
  ASSUME IInv, NEW t \in Tasks, Delete(t)
  PROVE  IInv'
<1>1. /\ t \in given \ started
      /\ started' = started \cup {t} /\ given' = given /\ accepting' = accepting
  BY DEF Delete
<1>2. CASE t \in Elements(queue)
  <2>1. PICK i \in 1 .. Len(queue) : queue[i] = t /\ queue' = Without(queue, i)
    BY <1>2 DEF Delete
  <2>2. queue \in Seq(Tasks) /\ queue' \in Seq(Tasks) /\ queue # <<>>
    BY <2>1, WithoutType DEF IInv, TypeOK
  <2>3. /\ head = queue[1] /\ tail = queue[Len(queue)]
        /\ head \in Tasks /\ tail \in Tasks /\ Len(queue) \in Nat
        /\ \A j \in 1 .. Len(queue) : queue[j] = queue[i] => j = i
        /\ 1 \in 1 .. Len(queue) /\ Len(queue) \in 1 .. Len(queue)
    BY <2>1, <2>2, Neighbours
  <2>4. CASE t = head
    <3>1. Unlink1 /\ i = 1
      BY <2>1, <2>3, <2>4 DEF Delete
    <3>2. Unlinks(i)
      BY <2>2, <3>1, FirstUnlinks
    <3>3. TypeOK'
      BY <1>1, <2>2, <2>3, <3>1 DEF IInv, TypeOK, Unlink1
    <3> QED BY <1>1, <2>1, <3>2, <3>3, Removal
  <2>5. CASE t # head /\ t = tail
    <3>1. UnlinkLast /\ i = Len(queue)
      BY <2>1, <2>3, <2>5 DEF Delete
    <3>2. Unlinks(i)
      BY <2>2, <2>5, <3>1, LastUnlinks
    <3>3. TypeOK'
      BY <1>1, <2>2, <2>3, <3>1 DEF IInv, TypeOK, UnlinkLast
    <3> QED BY <1>1, <2>1, <3>2, <3>3, Removal
  <2>6. CASE t # head /\ t # tail
    <3>1. UnlinkInside(queue[i])
      BY <2>1, <2>6 DEF Delete
    <3>2. Unlinks(i)
      BY <2>1, <2>6, <3>1, InsideUnlinks
    <3>3. TypeOK'
      BY <1>1, <2>1, <2>2, <3>1 DEF IInv, TypeOK, UnlinkInside
    <3> QED BY <1>1, <2>1, <3>2, <3>3, Removal
  <2> QED BY <2>4, <2>5, <2>6
<1>3. CASE t \notin Elements(queue)
  <2>1. t # head /\ t # tail
    <3>1. queue # <<>> => 1 \in 1 .. Len(queue)
      BY DEF IInv, TypeOK
    <3>2. head \in Elements(queue) \cup {Null}
      BY <3>1 DEF IInv, ListIsQueue, Elements
    <3> QED BY <1>1, <1>3, <3>2, NullIsNoTask DEF IInv, NothingLost
  <2>2. UnlinkInside(t) /\ queue' = queue
    BY <1>3, <2>1 DEF Delete
  <2>3. UNCHANGED <<head, tail, next, prev>>
    BY <1>3, <2>2, OutsideUnlinks
  <2>4. TypeOK'
    BY <1>1, <2>2, <2>3 DEF IInv, TypeOK
  <2>5. ListIsQueue'
    BY <2>2, <2>3 DEF IInv, ListIsQueue, Elements, Distinct
  <2>6. NothingLost'
    BY <1>1, <1>3, <2>2, <2>3 DEF IInv, NothingLost, Elements
  <2> QED BY <2>4, <2>5, <2>6 DEF IInv
<1> QED BY <1>2, <1>3

-----------------------------------------------------------------------------
LEMMA PutGroupStep ==
  ASSUME IInv, NEW s \in Groups, PutGroup(s)
  PROVE  IInv'
<1> DEFINE n == Len(queue)
           m == Len(s)
<1>1. /\ queue \in Seq(Tasks) /\ s \in Seq(Tasks) /\ n \in Nat /\ m \in Nat
      /\ m # 0 /\ s # <<>>
      /\ \A i \in 1 .. m : s[i] \in Tasks
      /\ \A i \in 1 .. n : queue[i] \in Tasks
  BY GroupsOK, EmptySeq DEF IInv, TypeOK, PutGroup
<1>2. /\ queue' \in Seq(Tasks) /\ Len(queue') = n + m
      /\ \A i \in 1 .. n : queue'[i] = queue[i]
      /\ \A i \in 1 .. m : queue'[n + i] = s[i]
  BY <1>1, ConcatProperties DEF PutGroup
<1> HIDE DEF n, m
<1>3. \A i \in 1 .. n + m : i > n => /\ i - n \in 1 .. m /\ queue'[i] = s[i - n]
  <2> SUFFICES ASSUME NEW i \in 1 .. n + m, i > n
               PROVE  i - n \in 1 .. m /\ queue'[i] = s[i - n]
    OBVIOUS
  <2>1. i - n \in 1 .. m /\ n + (i - n) = i
    BY <1>1
  <2> QED BY <1>2, <2>1
<1>4. Elements(queue)' = Elements(queue) \cup Elements(s)
  <2>1. \A x \in Elements(queue)' : x \in Elements(queue) \cup Elements(s)
    <3> SUFFICES ASSUME NEW i \in 1 .. n + m
                 PROVE  queue'[i] \in Elements(queue) \cup Elements(s)
      BY <1>2 DEF Elements
    <3>1. CASE i > n
      BY <1>3, <3>1 DEF Elements, m
    <3>2. CASE ~(i > n)
      <4>1. i \in 1 .. n
        BY <1>1, <3>2
      <4> QED BY <1>2, <4>1 DEF Elements, n
    <3> QED BY <3>1, <3>2
  <2>2. \A i \in 1 .. n : i \in 1 .. n + m
    BY <1>1
  <2>3. \A i \in 1 .. m : n + i \in 1 .. n + m
    BY <1>1
  <2>4. Elements(queue) \subseteq Elements(queue)'
    BY <1>2, <2>2 DEF Elements, n
  <2>5. Elements(s) \subseteq Elements(queue)'
    BY <1>2, <2>3 DEF Elements, m
  <2> QED BY <2>1, <2>4, <2>5
<1>5. /\ Elements(s) \cap given = {} /\ Distinct(s)
      /\ Elements(queue) \cap Elements(s) = {}
      /\ \A i \in 1 .. n, j \in 1 .. m : queue[i] # s[j]
      /\ \A i, j \in 1 .. n : queue[i] = queue[j] => i = j
      /\ \A i, j \in 1 .. m : s[i] = s[j] => i = j
      /\ \A i \in 1 .. m : s[i] \in Elements(s)
      /\ \A i \in 1 .. n : queue[i] \in Elements(queue) /\ queue[i] \notin Elements(s)
  <2>1. Elements(s) \cap given = {} /\ Distinct(s)
    BY DEF PutGroup
  <2>2. Elements(queue) \subseteq given /\ Distinct(queue)
    BY DEF IInv, NothingLost, ListIsQueue
  <2>3. \A i \in 1 .. m : s[i] \in Elements(s)
    BY DEF Elements, m
  <2>4. \A i \in 1 .. n : queue[i] \in Elements(queue)
    BY DEF Elements, n
  <2>5. Elements(queue) \cap Elements(s) = {}
    BY <2>1, <2>2
  <2>6. /\ \A i, j \in 1 .. n : queue[i] = queue[j] => i = j
        /\ \A i, j \in 1 .. m : s[i] = s[j] => i = j
    BY <2>1, <2>2 DEF Distinct, n, m
  <2>7. \A i \in 1 .. n, j \in 1 .. m : queue[i] # s[j]
    BY <2>3, <2>4, <2>5
  <2> QED BY <2>1, <2>3, <2>4, <2>5, <2>6, <2>7
<1>6. Distinct(queue)'
  <2> SUFFICES ASSUME NEW i \in 1 .. n + m, NEW j \in 1 .. n + m, queue'[i] = queue'[j]
               PROVE  i = j
    BY <1>2 DEF Distinct
  <2>1. CASE i > n /\ j > n
    <3>1. i - n = j - n
      BY <1>3, <1>5, <2>1
    <3> QED BY <1>1, <3>1
  <2>2. CASE i > n /\ ~(j > n)
    <3>1. j \in 1 .. n
      BY <1>1, <2>2
    <3> QED BY <1>2, <1>3, <1>5, <2>2, <3>1
  <2>3. CASE ~(i > n) /\ j > n
    <3>1. i \in 1 .. n
      BY <1>1, <2>3
    <3> QED BY <1>2, <1>3, <1>5, <2>3, <3>1
  <2>4. CASE ~(i > n) /\ ~(j > n)
    <3>1. i \in 1 .. n /\ j \in 1 .. n
      BY <1>1, <2>4
    <3> QED BY <1>2, <1>5, <3>1
  <2> QED BY <2>1, <2>2, <2>3, <2>4
<1>7. /\ 1 \in 1 .. m /\ m \in 1 .. m
      /\ tail' = s[m]
      /\ head' = IF head = Null THEN s[1] ELSE head
      /\ given' = given \cup Elements(s) /\ started' = started
      /\ accepting' = accepting /\ accepting
  BY <1>1 DEF PutGroup, m
<1>8. /\ \A u \in Tasks : next'[u] =
           IF u \in Elements(s) /\ u # s[m] THEN s[Place(s, u) + 1]
           ELSE IF head # Null /\ u = tail THEN s[1] ELSE next[u]
      /\ \A u \in Tasks : prev'[u] =
           IF u \in Elements(s) /\ u # s[1] THEN s[Place(s, u) - 1]
           ELSE IF head # Null /\ u = s[1] THEN tail ELSE prev[u]
  BY DEF PutGroup, m
<1>9. \A i \in 1 .. m : Place(s, s[i]) = i
  BY <1>1, <1>5, PlaceOf DEF m
<1>10. \A u \in Elements(s) : \E i \in 1 .. m : u = s[i] /\ Place(s, u) = i
  BY <1>9 DEF Elements, m
<1>11. /\ (queue = <<>>) = (n = 0)
       /\ (head = Null) = (n = 0)
       /\ n # 0 => /\ head = queue[1] /\ tail = queue[n]
                   /\ 1 \in 1 .. n /\ n \in 1 .. n
       /\ tail \in given \cup {Null}
  <2>1. (queue = <<>>) = (n = 0)
    BY <1>1, EmptySeq DEF n
  <2>2. n # 0 => 1 \in 1 .. n /\ n \in 1 .. n
    BY <1>1
  <2> QED BY <1>1, <2>1, <2>2, NullIsNoTask
          DEF IInv, ListIsQueue, NothingLost, TypeOK, n
<1>12. TypeOK'
  <2>1. \A u \in Tasks : next'[u] \in Tasks \cup {Null}
    <3> SUFFICES ASSUME NEW u \in Tasks PROVE next'[u] \in Tasks \cup {Null}
      OBVIOUS
    <3>1. CASE u \in Elements(s) /\ u # s[m]
      <4>1. PICK i \in 1 .. m : u = s[i] /\ Place(s, u) = i
        BY <1>10, <3>1
      <4>2. i # m
        BY <3>1, <4>1
      <4>3. i + 1 \in 1 .. m
        BY <1>1, <4>2
      <4> QED BY <1>1, <1>8, <3>1, <4>1, <4>3
    <3>2. CASE ~(u \in Elements(s) /\ u # s[m])
      BY <1>1, <1>7, <1>8, <3>2 DEF IInv, TypeOK
    <3> QED BY <3>1, <3>2
  <2>2. \A u \in Tasks : prev'[u] \in Tasks \cup {Null}
    <3> SUFFICES ASSUME NEW u \in Tasks PROVE prev'[u] \in Tasks \cup {Null}
      OBVIOUS
    <3>1. CASE u \in Elements(s) /\ u # s[1]
      <4>1. PICK i \in 1 .. m : u = s[i] /\ Place(s, u) = i
        BY <1>10, <3>1
      <4>2. i # 1
        BY <3>1, <4>1
      <4>3. i - 1 \in 1 .. m
        BY <1>1, <4>2
      <4> QED BY <1>1, <1>8, <3>1, <4>1, <4>3
    <3>2. CASE ~(u \in Elements(s) /\ u # s[1])
      BY <1>1, <1>7, <1>8, <3>2 DEF IInv, TypeOK
    <3> QED BY <3>1, <3>2
  <2>3. next' \in [Tasks -> Tasks \cup {Null}] /\ prev' \in [Tasks -> Tasks \cup {Null}]
    BY <2>1, <2>2 DEF PutGroup
  <2>4. Elements(s) \subseteq Tasks
    BY <1>1 DEF Elements, m
  <2>5. head' \in Tasks \cup {Null} /\ tail' \in Tasks \cup {Null}
    BY <1>1, <1>7 DEF IInv, TypeOK
  <2>6. given' \subseteq Tasks /\ started' \subseteq given' /\ accepting' \in BOOLEAN
    BY <1>7, <2>4 DEF IInv, TypeOK
  <2> QED BY <1>2, <2>3, <2>5, <2>6 DEF TypeOK
<1>13. NothingLost'
  BY <1>4, <1>5, <1>7, <1>11 DEF IInv, NothingLost, TypeOK
<1>14. \A i \in 1 .. n + m :
         next'[queue'[i]] = IF i = n + m THEN Null ELSE queue'[i + 1]
  <2> SUFFICES ASSUME NEW i \in 1 .. n + m
               PROVE  next'[queue'[i]] = IF i = n + m THEN Null ELSE queue'[i + 1]
    OBVIOUS
  <2>1. CASE i > n /\ i # n + m
    <3> DEFINE k == i - n
    <3>1. /\ k \in 1 .. m /\ queue'[i] = s[k] /\ k # m
          /\ i + 1 \in 1 .. n + m /\ i + 1 > n /\ (i + 1) - n = k + 1
          /\ k + 1 \in 1 .. m
      BY <1>1, <1>3, <2>1
    <3> HIDE DEF k
    <3>2. queue'[i + 1] = s[k + 1]
      BY <1>3, <3>1
    <3>3. s[k] # s[m] /\ s[k] \in Elements(s) /\ s[k] \in Tasks /\ Place(s, s[k]) = k
      BY <1>1, <1>5, <1>7, <1>9, <3>1
    <3> QED BY <1>8, <2>1, <3>1, <3>2, <3>3
  <2>2. CASE i = n + m
    <3>1. queue'[i] = s[m] /\ s[m] \in Tasks /\ s[m] \in Elements(s)
      BY <1>1, <1>2, <1>5, <1>7, <2>2
    <3>2. s[m] # tail \/ head = Null
      BY <1>5, <1>7, <1>11
    <3>3. next[s[m]] = Null
      BY <1>5, <3>1 DEF IInv, ListIsQueue
    <3> QED BY <1>8, <2>2, <3>1, <3>2, <3>3
  <2>3. CASE i = n /\ i # n + m
    <3>1. /\ i \in 1 .. n /\ n # 0 /\ queue'[i] = queue[n] /\ queue[n] = tail
          /\ head # Null /\ queue[n] \in Tasks
      BY <1>1, <1>2, <1>11, <2>3
    <3>2. queue'[i + 1] = s[1]
      BY <1>2, <1>7, <2>3
    <3>3. queue[n] \notin Elements(s)
      BY <1>5, <2>3, <3>1
    <3> QED BY <1>8, <2>3, <3>1, <3>2, <3>3
  <2>4. CASE i < n
    <3>1. /\ i \in 1 .. n /\ i + 1 \in 1 .. n /\ i # n + m /\ i # n /\ n # 0
      BY <1>1, <2>4
    <3>2. queue'[i] = queue[i] /\ queue'[i + 1] = queue[i + 1] /\ queue[i] \in Tasks
      BY <1>1, <1>2, <3>1
    <3>3. queue[i] # tail /\ queue[i] \notin Elements(s)
      BY <1>5, <1>11, <3>1
    <3>4. next[queue[i]] = queue[i + 1]
      BY <3>1 DEF IInv, ListIsQueue, n
    <3> QED BY <1>8, <3>1, <3>2, <3>3, <3>4
  <2> QED BY <1>1, <2>1, <2>2, <2>3, <2>4
<1>15. \A i \in 1 .. n + m :
         prev'[queue'[i]] = IF i = 1 THEN Null ELSE queue'[i - 1]
  <2> SUFFICES ASSUME NEW i \in 1 .. n + m
               PROVE  prev'[queue'[i]] = IF i = 1 THEN Null ELSE queue'[i - 1]
    OBVIOUS
  <2>1. CASE i > n + 1
    <3> DEFINE k == i - n
    <3>1. /\ k \in 1 .. m /\ queue'[i] = s[k] /\ k # 1 /\ i # 1
          /\ i - 1 \in 1 .. n + m /\ i - 1 > n /\ (i - 1) - n = k - 1
          /\ k - 1 \in 1 .. m
      BY <1>1, <1>3, <2>1
    <3> HIDE DEF k
    <3>2. queue'[i - 1] = s[k - 1]
      BY <1>3, <3>1
    <3>3. s[k] # s[1] /\ s[k] \in Elements(s) /\ s[k] \in Tasks /\ Place(s, s[k]) = k
      BY <1>1, <1>5, <1>7, <1>9, <3>1
    <3> QED BY <1>8, <3>1, <3>2, <3>3
  <2>2. CASE i = n + 1
    <3>1. queue'[i] = s[1] /\ s[1] \in Tasks /\ s[1] \in Elements(s)
      BY <1>1, <1>2, <1>5, <1>7, <2>2
    <3>2. prev[s[1]] = Null
      BY <1>5, <3>1 DEF IInv, ListIsQueue
    <3>3. CASE n = 0
      BY <1>8, <1>11, <2>2, <3>1, <3>2, <3>3
    <3>4. CASE n # 0
      <4>1. i # 1 /\ i - 1 = n
        BY <1>1, <2>2, <3>4
      <4>2. queue'[i - 1] = tail /\ head # Null
        BY <1>2, <1>11, <3>4, <4>1
      <4> QED BY <1>8, <3>1, <4>1, <4>2
    <3> QED BY <3>3, <3>4
  <2>3. CASE i \in 1 .. n
    <3>1. queue'[i] = queue[i] /\ queue[i] \in Tasks /\ queue[i] \notin Elements(s)
      BY <1>1, <1>2, <1>5, <2>3
    <3>2. queue[i] # s[1]
      BY <1>5, <1>7, <2>3
    <3>3. prev'[queue'[i]] = prev[queue[i]]
      BY <1>8, <3>1, <3>2
    <3>4. prev[queue[i]] = IF i = 1 THEN Null ELSE queue[i - 1]
      BY <2>3 DEF IInv, ListIsQueue, n
    <3>5. i # 1 => i - 1 \in 1 .. n
      BY <1>1, <2>3
    <3> QED BY <1>2, <3>3, <3>4, <3>5
  <2> QED BY <1>1, <2>1, <2>2, <2>3
<1>16. \A u \in Tasks \ Elements(queue)' : next'[u] = Null /\ prev'[u] = Null
  <2> SUFFICES ASSUME NEW u \in Tasks, u \notin Elements(queue), u \notin Elements(s)
               PROVE  next'[u] = Null /\ prev'[u] = Null
    BY <1>4
  <2>1. next[u] = Null /\ prev[u] = Null
    BY DEF IInv, ListIsQueue
  <2>2. u # tail \/ head = Null
    BY <1>5, <1>11
  <2>3. u # s[1]
    BY <1>5, <1>7
  <2> QED BY <1>8, <2>1, <2>2, <2>3
<1>17. head' = queue'[1] /\ tail' = queue'[n + m] /\ queue' # <<>>
  <2>1. tail' = queue'[n + m]
    BY <1>2, <1>7
  <2>2. head' = queue'[1]
    <3>1. CASE n = 0
      BY <1>2, <1>7, <1>11, <3>1
    <3>2. CASE n # 0
      BY <1>2, <1>7, <1>11, <3>2
    <3> QED BY <3>1, <3>2
  <2>3. n + m # 0
    BY <1>1
  <2> QED BY <1>2, <2>1, <2>2, <2>3, EmptySeq
<1>18. ListIsQueue'
  BY <1>2, <1>6, <1>14, <1>15, <1>16, <1>17 DEF ListIsQueue
<1> QED BY <1>12, <1>13, <1>18 DEF IInv

-----------------------------------------------------------------------------
LEMMA InvStep == IInv /\ [Next]_vars => IInv'
<1> SUFFICES ASSUME IInv, [Next]_vars PROVE IInv'
  OBVIOUS
<1>1. ASSUME NEW t \in Tasks, Put(t) PROVE IInv'
  BY <1>1, PutStep
<1>2. ASSUME NEW t \in Tasks, PutRejected(t) PROVE IInv'
  BY <1>2 DEF PutRejected, IInv, TypeOK, ListIsQueue, NothingLost, Distinct, Elements
<1>3. ASSUME NEW t \in Tasks, Delete(t) PROVE IInv'
  BY <1>3, DeleteStep
<1>4. ASSUME NEW s \in Groups, PutGroup(s) PROVE IInv'
  BY <1>4, PutGroupStep
<1>5. CASE Pop
  BY <1>5, PopStep
<1>6. CASE Close
  <2>1. UNCHANGED <<head, tail, next, prev, given, started, queue>> /\ accepting' = FALSE
    BY <1>6 DEF Close
  <2>2. TypeOK'
    BY <2>1 DEF IInv, TypeOK
  <2>3. ListIsQueue'
    BY <2>1 DEF IInv, ListIsQueue, Distinct, Elements
  <2>4. NothingLost'
    BY <2>1 DEF IInv, NothingLost, Elements
  <2> QED BY <2>2, <2>3, <2>4 DEF IInv
<1>7. CASE UNCHANGED vars
  BY <1>7 DEF vars, IInv, TypeOK, ListIsQueue, NothingLost, Distinct, Elements
<1> QED BY <1>1, <1>2, <1>3, <1>4, <1>5, <1>6, <1>7 DEF Next

LEMMA InvHolds == Spec => []IInv
<1>1. Init => IInv
  BY InitInv
<1>2. IInv /\ [Next]_vars => IInv'
  BY InvStep
<1> QED BY <1>1, <1>2, PTL DEF Spec

\* The pointers are pointers and the queue is a sequence of tasks.
THEOREM TypeCorrect == Spec => []TypeOK
<1>1. IInv => TypeOK
  BY DEF IInv
<1> QED BY <1>1, InvHolds, PTL

\* Whatever leaves the list, from either end or from the middle, and whatever
\* is put in, alone or as a chain, the links spell out the queue.
THEOREM ListCorrect == Spec => []ListIsQueue
<1>1. IInv => ListIsQueue
  BY DEF IInv
<1> QED BY <1>1, InvHolds, PTL

\* No accepted task drops out of the list before it is started, and none stays
\* in it afterwards.
THEOREM NoTaskLost == Spec => []NothingLost
<1>1. IInv => NothingLost
  BY DEF IInv
<1> QED BY <1>1, InvHolds, PTL

-----------------------------------------------------------------------------
(* ParallelForeach                                                         *)

DoItPlaces == {"nothing", "test", "claim", "stop", "body", "end", "Exception", "Error", "escape"}
CallerPlaces == {"own", "help", "force", "returned"}

LoopTypes ==
  /\ loop \in Loops
  /\ workUnitIndex \in 0 .. IndexSize - 1 /\ shouldContinue \in BOOLEAN
  /\ calls \in [0 .. loop.len - 1 -> Nat]
  /\ job \in [Runners -> 0 .. LastTask + 1]
  /\ doing \in [Runners -> DoItPlaces]
  /\ from \in [Runners -> Nat] /\ upTo \in [Runners -> Nat]
  /\ jobStatus \in [LoopTasks -> {"notStarted", "inProgress", "done"}]
  /\ exception \in [LoopTasks -> {"none", "Exception", "Error"}]
  /\ caller \in [place : CallerPlaces, task : 0 .. LastTask + 1]

\* A thread in doIt() runs a task, and a task in progress is run by one thread.
OneEach ==
  /\ \A r \in Runners : doing[r] = "nothing" <=> job[r] = NoJob
  /\ \A r \in Runners : job[r] # NoJob => jobStatus[job[r]] = "inProgress"
  /\ \A k \in LoopTasks : jobStatus[k] = "inProgress" => \E r \in Runners : job[r] = k
  /\ \A r, q \in Runners : (job[r] = job[q] /\ job[r] # NoJob) => r = q

\* doIt() ends only once all threads have been told to bail.
EndedBails ==
  /\ \A r \in Runners : doing[r] \in {"end", "escape"} => ~shouldContinue
  /\ \A k \in LoopTasks : jobStatus[k] = "done" => ~shouldContinue

\* The caller goes through all tasks twice: to start what nobody has, and to wait.
CallerRight ==
  /\ \A r \in Runners : doing[r] # "escape"
  /\ caller.place = "own" => caller.task = 0 /\ job[Caller] = 0
  /\ caller.place = "help" =>
       /\ caller.task > 0 /\ jobStatus[0] = "done"
       /\ doing[Caller] \in {"nothing", "test", "end"}
       /\ job[Caller] \in {NoJob, caller.task}
       /\ \A k \in LoopTasks : k < caller.task => jobStatus[k] # "notStarted"
  /\ caller.place \in {"force", "returned"} =>
       job[Caller] = NoJob /\ \A k \in LoopTasks : jobStatus[k] # "notStarted"
  /\ caller.place = "force" => \A k \in LoopTasks : k < caller.task => jobStatus[k] = "done"
  /\ caller.place = "returned" => \A k \in LoopTasks : jobStatus[k] = "done"

JobsInv == LoopTypes /\ OneEach /\ EndedBails /\ CallerRight

LEMMA LoopSizes ==
  /\ LastTask \in Nat /\ IsFiniteSet(Runners) /\ Cardinality(Runners) = LastTask + 1
  /\ Caller \in Runners /\ LoopWorkers \subseteq Runners /\ NoJob = LastTask + 1
  /\ NoJob \notin LoopTasks /\ 0 \in LoopTasks /\ LoopTasks \subseteq Nat
<1>1. IsFiniteSet(LoopWorkers) /\ Caller \notin LoopWorkers
  BY CallerNoWorker
<1>2. Cardinality(LoopWorkers) \in Nat
  BY <1>1, FS_CardinalityType
<1>3. IsFiniteSet(Runners) /\ Cardinality(Runners) = Cardinality(LoopWorkers) + 1
  BY <1>1, FS_AddElement DEF Runners
<1> QED BY <1>2, <1>3 DEF Runners, LastTask, NoJob, LoopTasks

LEMMA MinOfTwo ==
  ASSUME NEW m \in Nat, NEW n \in Nat
  PROVE  /\ Min({m, n}) \in Nat /\ Min({m, n}) <= m /\ Min({m, n}) <= n
         /\ Min({m, n}) \in {m, n}
<1> DEFINE S == {m, n}
<1>1. \E x \in S : \A y \in S : x <= y
  <2>1. m <= n \/ n <= m
    OBVIOUS
  <2> QED BY <2>1
<1> HIDE DEF S
<1>2. Min(S) \in S /\ \A y \in S : Min(S) <= y
  BY <1>1 DEF Min
<1> QED BY <1>2 DEF S

LEMMA LoopFits ==
  ASSUME loop \in Loops
  PROVE  /\ loop.len \in Nat \ {0} /\ loop.workUnitSize \in Nat \ {0} /\ IndexSize \in Nat
         /\ LastTask \in Nat /\ (loop.len + LastTask + 2) * loop.workUnitSize < IndexSize
         /\ IndexSize > 1
<1>1. /\ loop.len \in Nat \ {0} /\ loop.workUnitSize \in Nat \ {0}
      /\ (loop.len + LastTask + 2) * loop.workUnitSize < IndexSize
  BY LoopsOK DEF Fits
<1>2. (loop.len + LastTask + 2) * loop.workUnitSize > 1
  BY <1>1, LoopSizes
<1> QED BY <1>1, <1>2, LoopSizes, IndexSizeOK

LEMMA JobsInit == LoopInit => JobsInv
<1> SUFFICES ASSUME LoopInit PROVE JobsInv
  OBVIOUS
<1>1. /\ loop.len \in Nat \ {0} /\ IndexSize \in Nat /\ IndexSize > 1
  BY LoopFits DEF LoopInit
<1>2. IndexSize - 1 \in 0 .. IndexSize - 1
  BY <1>1
<1>3. LoopTypes
  BY <1>1, <1>2, LoopSizes DEF LoopInit, LoopTypes, CallerAt, DoItPlaces, CallerPlaces
<1>4. OneEach
  BY LoopSizes DEF LoopInit, OneEach
<1>5. EndedBails /\ CallerRight
  BY LoopSizes DEF LoopInit, EndedBails, CallerRight, CallerAt
<1> QED BY <1>3, <1>4, <1>5 DEF JobsInv

\* What a step in doIt() leaves alone.
LEMMA DoItJobs ==
  ASSUME JobsInv, NEW r \in Runners, DoIt(r)
  PROVE  JobsInv'
<1> USE LoopSizes
<1>1. UNCHANGED <<loop, job, jobStatus, caller>>
  BY DEF DoIt, TestContinue, Claim, CallBody, UnitDone, Bail, unitVars, jobVars
<1>2. /\ workUnitIndex' \in 0 .. IndexSize - 1
  <2>1. workUnitIndex' = workUnitIndex \/ workUnitIndex' = (workUnitIndex + 1) % IndexSize
    BY DEF DoIt, TestContinue, Claim, CallBody, UnitDone, Bail, unitVars, jobVars
  <2>2. IndexSize \in Nat \ {0} /\ workUnitIndex \in 0 .. IndexSize - 1
    BY LoopFits DEF JobsInv, LoopTypes
  <2>3. (workUnitIndex + 1) % IndexSize \in 0 .. IndexSize - 1
    BY <2>2
  <2> QED BY <2>1, <2>2, <2>3
<1>3. /\ from' \in [Runners -> Nat] /\ upTo' \in [Runners -> Nat]
      /\ calls' \in [0 .. loop.len - 1 -> Nat]
  <2>1. CASE Claim(r)
    <3> DEFINE start == (loop.workUnitSize * workUnitIndex') % IndexSize
    <3>1. /\ loop.len \in Nat /\ loop.workUnitSize \in Nat /\ IndexSize \in Nat \ {0}
          /\ workUnitIndex' \in Nat
      <4>1. loop \in Loops
        BY DEF JobsInv, LoopTypes
      <4>2. /\ loop.len \in Nat /\ loop.workUnitSize \in Nat /\ IndexSize \in Nat \ {0}
        BY <4>1, LoopFits
      <4> QED BY <1>2, <4>2
    <3>2. loop.workUnitSize * workUnitIndex' \in Nat
      BY <3>1
    <3>3. start \in Nat
      BY <3>1, <3>2
    <3>4. (start + loop.workUnitSize) % IndexSize \in Nat
      BY <3>1, <3>3
    <3>5. Min({loop.len, (start + loop.workUnitSize) % IndexSize}) \in Nat
      BY <3>1, <3>4, MinOfTwo
    <3>6. /\ from \in [Runners -> Nat] /\ upTo \in [Runners -> Nat]
          /\ calls \in [0 .. loop.len - 1 -> Nat]
      BY DEF JobsInv, LoopTypes
    <3> DEFINE end == Min({loop.len, (start + loop.workUnitSize) % IndexSize})
    <3>7. /\ from' = from \/ from' = [from EXCEPT ![r] = start]
          /\ upTo' = upTo \/ upTo' = [upTo EXCEPT ![r] = end]
          /\ calls' = calls
      BY <2>1 DEF Claim
    <3>8. end \in Nat
      BY <3>5
    <3> HIDE DEF start, end
    <3> QED BY <3>3, <3>6, <3>7, <3>8
  <2>2. CASE CallBody(r)
    <3>1. from' = [from EXCEPT ![r] = @ + 1] /\ upTo' = upTo
      BY <2>2 DEF CallBody
    <3>2. calls' = [calls EXCEPT ![from[r]] = @ + 1]
      BY <2>2 DEF CallBody
    <3>3. from' \in [Runners -> Nat] /\ upTo' \in [Runners -> Nat]
      BY <3>1 DEF JobsInv, LoopTypes
    <3>4. calls' \in [0 .. loop.len - 1 -> Nat]
      <4>1. calls \in [0 .. loop.len - 1 -> Nat]
        BY DEF JobsInv, LoopTypes
      <4>2. CASE from[r] \in 0 .. loop.len - 1
        BY <3>2, <4>1, <4>2
      <4>3. CASE from[r] \notin 0 .. loop.len - 1
        BY <3>2, <4>1, <4>3
      <4> QED BY <4>2, <4>3
    <3> QED BY <3>3, <3>4
  <2>3. CASE TestContinue(r) \/ UnitDone(r) \/ Bail(r)
    BY <2>3 DEF TestContinue, UnitDone, Bail, unitVars, JobsInv, LoopTypes
  <2> QED BY <2>1, <2>2, <2>3 DEF DoIt
<1>4. PICK p \in DoItPlaces :
        /\ doing' = [doing EXCEPT ![r] = p] /\ doing[r] # "nothing" /\ p # "nothing"
        /\ p \in {"end", "escape"} => ~shouldContinue'
        /\ p = "escape" => doing[r] = "Error" /\ caller.place = "help" /\ r = Caller
  <2>1. CASE CallBody(r)
    BY <2>1 DEF CallBody, JobsInv, LoopTypes, DoItPlaces
  <2>2. CASE TestContinue(r)
    BY <2>2 DEF TestContinue, Move, DoItPlaces
  <2>3. CASE Claim(r)
    BY <2>3 DEF Claim, Move, DoItPlaces
  <2>4. CASE UnitDone(r)
    BY <2>4 DEF UnitDone, Move, DoItPlaces
  <2>5. CASE Bail(r)
    BY <2>5 DEF Bail, Move, DoItPlaces
  <2> QED BY <2>1, <2>2, <2>3, <2>4, <2>5 DEF DoIt
<1>5. shouldContinue' \in BOOLEAN /\ (~shouldContinue => ~shouldContinue')
  <2>1. shouldContinue' = shouldContinue \/ shouldContinue' = FALSE
    BY DEF DoIt, TestContinue, Claim, CallBody, UnitDone, Bail
  <2>2. shouldContinue \in BOOLEAN
    BY DEF JobsInv, LoopTypes
  <2>3. shouldContinue' \in BOOLEAN
    BY <2>1, <2>2, Zenon
  <2>4. ~shouldContinue => ~shouldContinue'
    BY <2>1, Zenon
  <2> QED BY <2>3, <2>4
<1>6. exception' \in [LoopTasks -> {"none", "Exception", "Error"}]
  <2>1. \/ exception' = exception
        \/ /\ doing[r] \in {"Exception", "Error"}
           /\ exception' = [exception EXCEPT ![job[r]] = doing[r]]
    <3>1. CASE Bail(r)
      BY <3>1 DEF Bail
    <3>2. CASE TestContinue(r) \/ Claim(r) \/ CallBody(r) \/ UnitDone(r)
      BY <3>2 DEF TestContinue, Claim, CallBody, UnitDone, jobVars
    <3> QED BY <3>1, <3>2 DEF DoIt
  <2> QED BY <2>1 DEF JobsInv, LoopTypes
<1>7. LoopTypes'
  BY <1>1, <1>2, <1>3, <1>4, <1>5, <1>6 DEF JobsInv, LoopTypes
<1>8. OneEach'
  BY <1>1, <1>4 DEF JobsInv, OneEach, LoopTypes
<1>9. EndedBails'
  BY <1>1, <1>4, <1>5 DEF JobsInv, EndedBails, LoopTypes
<1>10. ASSUME caller.place = "help"
       PROVE  ~shouldContinue /\ doing[Caller] \in {"nothing", "test", "end"}
  BY <1>10 DEF JobsInv, CallerRight, EndedBails
<1>11. CallerRight'
  <2>1. p # "escape"
    BY <1>4, <1>10
  <2>2. ASSUME caller.place = "help" PROVE doing'[Caller] \in {"nothing", "test", "end"}
    <3>1. CASE r = Caller
      <4>1. doing[r] \in {"test", "end"} /\ ~shouldContinue
        BY <1>4, <1>10, <2>2, <3>1
      <4>2. TestContinue(r)
        BY <4>1 DEF DoIt, Claim, CallBody, UnitDone, Bail
      <4>3. doing' = [doing EXCEPT ![r] = "end"]
        BY <4>1, <4>2 DEF TestContinue, Move
      <4> QED BY <3>1, <4>3 DEF JobsInv, LoopTypes
    <3>2. CASE r # Caller
      BY <1>4, <1>10, <2>2, <3>2 DEF JobsInv, LoopTypes
    <3> QED BY <3>1, <3>2
  <2> QED BY <1>1, <1>4, <2>1, <2>2 DEF JobsInv, CallerRight, LoopTypes
<1> QED BY <1>7, <1>8, <1>9, <1>11 DEF JobsInv

LEMMA TakeTaskJobs ==
  ASSUME JobsInv, NEW w \in LoopWorkers, TakeTask(w)
  PROVE  JobsInv'
<1> USE LoopSizes
<1>1. w \in Runners /\ w # Caller /\ job[w] = NoJob
  BY CallerNoWorker DEF TakeTask
<1>2. PICK k \in LoopTasks :
        /\ jobStatus[k] = "notStarted"
        /\ jobStatus' = [jobStatus EXCEPT ![k] = "inProgress"] /\ job' = [job EXCEPT ![w] = k]
  BY DEF TakeTask
<1>3. doing' = [doing EXCEPT ![w] = "test"]
  BY DEF TakeTask, Move
<1>4. UNCHANGED <<loop, workUnitIndex, calls, from, upTo, shouldContinue, exception, caller>>
  BY DEF TakeTask, unitVars
<1>5. k \in 0 .. LastTask + 1
  BY DEF LoopTasks
<1>6. LoopTypes'
  BY <1>1, <1>2, <1>3, <1>4, <1>5 DEF JobsInv, LoopTypes, DoItPlaces
<1>7. OneEach'
  <2>1. \A r \in Runners : job[r] # k
    BY <1>2 DEF JobsInv, OneEach
  <2>2. /\ job'[w] = k /\ doing'[w] = "test" /\ jobStatus'[k] = "inProgress" /\ k # NoJob
        /\ \A r \in Runners : r # w => job'[r] = job[r] /\ doing'[r] = doing[r]
        /\ \A i \in LoopTasks : i # k => jobStatus'[i] = jobStatus[i]
    BY <1>1, <1>2, <1>3 DEF JobsInv, LoopTypes
  <2>3. \A r \in Runners : doing'[r] = "nothing" <=> job'[r] = NoJob
    BY <2>2 DEF JobsInv, OneEach
  <2>4. \A r \in Runners : job'[r] # NoJob => jobStatus'[job'[r]] = "inProgress"
    <3>1. \A r \in Runners : job[r] # NoJob => job[r] \in LoopTasks
      BY DEF JobsInv, LoopTypes, LoopTasks
    <3> SUFFICES ASSUME NEW r \in Runners, job'[r] # NoJob
                 PROVE  jobStatus'[job'[r]] = "inProgress"
      OBVIOUS
    <3>2. CASE r = w
      BY <2>2, <3>2
    <3>3. CASE r # w
      <4>1. job'[r] = job[r] /\ job[r] \in LoopTasks /\ job[r] # k
        BY <2>1, <2>2, <3>1, <3>3
      <4>2. jobStatus[job[r]] = "inProgress"
        BY <4>1 DEF JobsInv, OneEach
      <4> QED BY <2>2, <4>1, <4>2
    <3> QED BY <3>2, <3>3
  <2>5. \A i \in LoopTasks : jobStatus'[i] = "inProgress" => \E r \in Runners : job'[r] = i
    <3> SUFFICES ASSUME NEW i \in LoopTasks, i # k, jobStatus[i] = "inProgress"
                 PROVE  \E r \in Runners : job'[r] = i
      BY <1>1, <2>2
    <3>1. PICK r \in Runners : job[r] = i
      BY DEF JobsInv, OneEach
    <3>2. r # w
      BY <1>1, <3>1
    <3> QED BY <2>2, <3>1, <3>2
  <2>6. \A r, q \in Runners : (job'[r] = job'[q] /\ job'[r] # NoJob) => r = q
    BY <2>1, <2>2 DEF JobsInv, OneEach
  <2> QED BY <2>3, <2>4, <2>5, <2>6 DEF OneEach
<1>8. EndedBails'
  BY <1>1, <1>2, <1>3, <1>4 DEF JobsInv, EndedBails, LoopTypes
<1>9. CallerRight'
  BY <1>1, <1>2, <1>3, <1>4 DEF JobsInv, CallerRight, LoopTypes
<1> QED BY <1>6, <1>7, <1>8, <1>9 DEF JobsInv

\* A thread, the caller or a worker, is done with its task.
LEMMA EndJobs ==
  ASSUME JobsInv, NEW r \in Runners, doing[r] = "end",
         doing' = [doing EXCEPT ![r] = "nothing"], job' = [job EXCEPT ![r] = NoJob],
         jobStatus' = [jobStatus EXCEPT ![job[r]] = "done"],
         UNCHANGED <<loop, workUnitIndex, calls, from, upTo, shouldContinue, exception>>,
         caller' \in [place : CallerPlaces, task : 0 .. LastTask + 1]
  PROVE  LoopTypes' /\ OneEach' /\ EndedBails' /\ job[r] \in LoopTasks
<1> USE LoopSizes
<1>1. job[r] \in LoopTasks /\ jobStatus[job[r]] = "inProgress"
  BY DEF JobsInv, OneEach, LoopTypes, LoopTasks
<1>2. NoJob \in 0 .. LastTask + 1
  OBVIOUS
<1>3. LoopTypes'
  BY <1>1, <1>2 DEF JobsInv, LoopTypes, DoItPlaces
<1>4. OneEach'
  <2>1. \A q \in Runners : q # r => job'[q] = job[q] /\ job[q] # job[r]
    BY <1>1 DEF JobsInv, OneEach, LoopTypes
  <2>2. job'[r] = NoJob /\ doing'[r] = "nothing"
    BY DEF JobsInv, LoopTypes
  <2>3. \A k \in LoopTasks : jobStatus'[k] = IF k = job[r] THEN "done" ELSE jobStatus[k]
    BY DEF JobsInv, LoopTypes
  <2>4. \A q \in Runners : q # r => doing'[q] = doing[q]
    BY DEF JobsInv, LoopTypes
  <2>5. \A q \in Runners : doing'[q] = "nothing" <=> job'[q] = NoJob
    BY <2>1, <2>2, <2>4 DEF JobsInv, OneEach
  <2>6. \A q \in Runners : job[q] # NoJob => job[q] \in LoopTasks
    BY DEF JobsInv, LoopTypes, LoopTasks
  <2>7. \A q \in Runners : job'[q] # NoJob => jobStatus'[job'[q]] = "inProgress"
    BY <2>1, <2>2, <2>3, <2>6 DEF JobsInv, OneEach
  <2>8. \A k \in LoopTasks : jobStatus'[k] = "inProgress" => \E q \in Runners : job'[q] = k
    <3> SUFFICES ASSUME NEW k \in LoopTasks, jobStatus'[k] = "inProgress"
                 PROVE  \E q \in Runners : job'[q] = k
      OBVIOUS
    <3>1. k # job[r] /\ jobStatus[k] = "inProgress"
      BY <2>3
    <3>2. PICK q \in Runners : job[q] = k
      BY <3>1 DEF JobsInv, OneEach
    <3> QED BY <2>1, <3>1, <3>2
  <2>9. \A q, s \in Runners : (job'[q] = job'[s] /\ job'[q] # NoJob) => q = s
    BY <2>1, <2>2 DEF JobsInv, OneEach
  <2> QED BY <2>5, <2>7, <2>8, <2>9 DEF OneEach
<1>5. EndedBails'
  BY <1>1 DEF JobsInv, EndedBails, LoopTypes
<1> QED BY <1>1, <1>3, <1>4, <1>5

LEMMA EndTaskJobs ==
  ASSUME JobsInv, NEW w \in LoopWorkers, EndTask(w)
  PROVE  JobsInv'
<1> USE LoopSizes
<1>1. w \in Runners /\ w # Caller /\ doing[w] = "end"
  BY CallerNoWorker DEF EndTask
<1>2. /\ doing' = [doing EXCEPT ![w] = "nothing"] /\ job' = [job EXCEPT ![w] = NoJob]
      /\ jobStatus' = [jobStatus EXCEPT ![job[w]] = "done"]
      /\ UNCHANGED <<loop, workUnitIndex, calls, from, upTo, shouldContinue, exception, caller>>
  BY DEF EndTask, Move, unitVars
<1>3. LoopTypes' /\ OneEach' /\ EndedBails' /\ job[w] \in LoopTasks
  BY <1>1, <1>2, EndJobs DEF JobsInv, LoopTypes
<1>4. CallerRight'
  BY <1>1, <1>2, <1>3 DEF JobsInv, CallerRight, LoopTypes
<1> QED BY <1>3, <1>4 DEF JobsInv

LEMMA EndOwnJobs ==
  ASSUME JobsInv, EndOwn
  PROVE  JobsInv'
<1> USE LoopSizes
<1>1. doing[Caller] = "end"
  BY DEF EndOwn, JobsInv, CallerRight
<1>2. /\ doing' = [doing EXCEPT ![Caller] = "nothing"] /\ job' = [job EXCEPT ![Caller] = NoJob]
      /\ jobStatus' = [jobStatus EXCEPT ![job[Caller]] = "done"]
      /\ caller' = [place |-> "help", task |-> caller.task + 1]
      /\ UNCHANGED <<loop, workUnitIndex, calls, from, upTo, shouldContinue, exception>>
  BY <1>1 DEF EndOwn, Move, unitVars, CallerAt
<1>3. job[Caller] \in LoopTasks /\ job[Caller] = caller.task
      /\ caller.place \in {"own", "help"}
  <2>1. job[Caller] # NoJob /\ job[Caller] \in LoopTasks
    BY <1>1 DEF JobsInv, OneEach, LoopTypes, LoopTasks
  <2>2. caller.place \in {"own", "help"}
    BY <2>1 DEF JobsInv, CallerRight, LoopTypes, CallerPlaces
  <2>3. job[Caller] = caller.task
    BY <2>1, <2>2 DEF JobsInv, CallerRight
  <2> QED BY <2>1, <2>2, <2>3
<1>4. caller' \in [place : CallerPlaces, task : 0 .. LastTask + 1]
  BY <1>2, <1>3 DEF CallerPlaces, LoopTasks
<1>5. LoopTypes' /\ OneEach' /\ EndedBails'
  BY <1>1, <1>2, <1>4, EndJobs
<1>6. CallerRight'
  <2>1. caller'.place = "help" /\ caller'.task = caller.task + 1 /\ caller'.task > 0
    BY <1>2, <1>3 DEF LoopTasks
  <2>2. \A k \in LoopTasks : jobStatus'[k] = IF k = caller.task THEN "done" ELSE jobStatus[k]
    BY <1>2, <1>3 DEF JobsInv, LoopTypes
  <2>3. jobStatus'[0] = "done"
    BY <1>3, <2>2 DEF JobsInv, CallerRight
  <2>4. ASSUME NEW k \in LoopTasks, k < caller.task + 1 PROVE jobStatus'[k] # "notStarted"
    <3>1. k = caller.task \/ (k < caller.task /\ caller.place = "help")
      BY <1>3, <2>4 DEF JobsInv, CallerRight, LoopTasks
    <3> QED BY <2>2, <3>1 DEF JobsInv, CallerRight
  <2>5. doing'[Caller] = "nothing" /\ job'[Caller] = NoJob
    BY <1>2 DEF JobsInv, LoopTypes
  <2>6. \A r \in Runners : doing'[r] # "escape"
    BY <1>2 DEF JobsInv, CallerRight, LoopTypes
  <2> QED BY <2>1, <2>3, <2>4, <2>5, <2>6 DEF CallerRight
<1> QED BY <1>5, <1>6 DEF JobsInv

LEMMA HelpJobs ==
  ASSUME JobsInv, Help
  PROVE  JobsInv'
<1> USE LoopSizes
<1>1. /\ caller.place = "help" /\ job[Caller] = NoJob /\ caller.task \in LoopTasks
      /\ UNCHANGED <<loop, workUnitIndex, calls, from, upTo, shouldContinue, exception>>
  BY DEF Help, unitVars, JobsInv, LoopTypes, LoopTasks
<1>2. CASE jobStatus[caller.task] = "notStarted"
  <2> DEFINE k == caller.task
  <2>1. /\ jobStatus' = [jobStatus EXCEPT ![k] = "inProgress"]
        /\ job' = [job EXCEPT ![Caller] = k] /\ doing' = [doing EXCEPT ![Caller] = "test"]
        /\ caller' = caller
    BY <1>2 DEF Help, Move
  <2>2. LoopTypes'
    BY <1>1, <2>1 DEF JobsInv, LoopTypes, DoItPlaces, LoopTasks
  <2>3. OneEach'
    <3>1. \A r \in Runners : job[r] # k
      BY <1>1, <1>2 DEF JobsInv, OneEach
    <3> HIDE DEF k
    <3> QED BY <1>1, <1>2, <2>1, <3>1 DEF k, JobsInv, OneEach, LoopTypes
  <2>4. EndedBails'
    BY <1>1, <1>2, <2>1 DEF JobsInv, EndedBails, LoopTypes
  <2>5. CallerRight'
    BY <1>1, <1>2, <2>1 DEF JobsInv, CallerRight, LoopTypes
  <2> QED BY <2>2, <2>3, <2>4, <2>5 DEF JobsInv
<1>3. CASE jobStatus[caller.task] # "notStarted"
  <2>1. /\ UNCHANGED <<jobStatus, job, doing>>
        /\ caller' = [place |-> "help", task |-> caller.task + 1]
    BY <1>3 DEF Help, CallerAt
  <2>2. LoopTypes'
    BY <1>1, <2>1 DEF JobsInv, LoopTypes, LoopTasks, CallerPlaces
  <2>3. OneEach' /\ EndedBails'
    BY <1>1, <2>1 DEF JobsInv, OneEach, EndedBails
  <2>4. CallerRight'
    <3>1. ASSUME NEW k \in LoopTasks, k < caller.task + 1 PROVE jobStatus[k] # "notStarted"
      <4>1. k = caller.task \/ k < caller.task
        BY <1>1, <3>1 DEF LoopTasks
      <4> QED BY <1>1, <1>3, <4>1 DEF JobsInv, CallerRight
    <3>2. caller.task + 1 > 0
      BY <1>1 DEF LoopTasks
    <3> QED BY <1>1, <2>1, <3>1, <3>2 DEF JobsInv, CallerRight
  <2> QED BY <2>2, <2>3, <2>4 DEF JobsInv
<1> QED BY <1>2, <1>3

\* The caller has helped out, waits for the next task, or returns.
LEMMA CallerJobs ==
  ASSUME JobsInv, HelpDone \/ ForceNext \/ ReturnFromLoop
  PROVE  JobsInv'
<1> USE LoopSizes
<1>1. UNCHANGED <<loop, workUnitIndex, calls, from, upTo, shouldContinue, exception,
                  jobStatus, job, doing>>
  BY DEF HelpDone, ForceNext, ReturnFromLoop, unitVars
<1>2. OneEach' /\ EndedBails'
  BY <1>1 DEF JobsInv, OneEach, EndedBails
<1>3. CASE HelpDone
  <2>1. /\ caller.place = "help" /\ caller.task = LastTask + 1
        /\ caller' = [place |-> "force", task |-> 0]
    BY <1>3 DEF HelpDone, CallerAt
  <2>2. \A k \in LoopTasks : k < caller.task /\ k >= 0
    BY <2>1 DEF LoopTasks
  <2>3. job[Caller] = NoJob
    <3>1. job[Caller] \in {NoJob, caller.task}
      BY <2>1 DEF JobsInv, CallerRight
    <3> QED BY <2>1, <3>1
  <2>4. LoopTypes'
    BY <1>1, <2>1 DEF JobsInv, LoopTypes, CallerPlaces
  <2>5. CallerRight'
    BY <1>1, <2>1, <2>2, <2>3 DEF JobsInv, CallerRight
  <2> QED BY <1>2, <2>4, <2>5 DEF JobsInv
<1>4. CASE ForceNext
  <2>1. /\ caller.place = "force" /\ caller.task \in LoopTasks
        /\ jobStatus[caller.task] = "done"
        /\ caller' = [place |-> "force", task |-> caller.task + 1]
    BY <1>4 DEF ForceNext, CallerAt, JobsInv, LoopTypes, LoopTasks
  <2>2. ASSUME NEW k \in LoopTasks, k < caller.task + 1 PROVE jobStatus[k] = "done"
    <3>1. k = caller.task \/ k < caller.task
      BY <2>1, <2>2 DEF LoopTasks
    <3> QED BY <2>1, <3>1 DEF JobsInv, CallerRight
  <2>3. LoopTypes'
    BY <1>1, <2>1 DEF JobsInv, LoopTypes, LoopTasks, CallerPlaces
  <2>4. CallerRight'
    BY <1>1, <2>1, <2>2 DEF JobsInv, CallerRight
  <2> QED BY <1>2, <2>3, <2>4 DEF JobsInv
<1>5. CASE ReturnFromLoop
  <2>1. /\ caller.place = "force" /\ caller.task = LastTask + 1
        /\ caller' = [place |-> "returned", task |-> 0]
    BY <1>5 DEF ReturnFromLoop, CallerAt
  <2>2. \A k \in LoopTasks : k < caller.task
    BY <2>1 DEF LoopTasks
  <2>3. LoopTypes'
    BY <1>1, <2>1 DEF JobsInv, LoopTypes, CallerPlaces
  <2>4. CallerRight'
    BY <1>1, <2>1, <2>2 DEF JobsInv, CallerRight
  <2> QED BY <1>2, <2>3, <2>4 DEF JobsInv
<1> QED BY <1>3, <1>4, <1>5

LEMMA JobsStep == JobsInv /\ [LoopNext]_loopVars => JobsInv'
<1> SUFFICES ASSUME JobsInv, [LoopNext]_loopVars PROVE JobsInv'
  OBVIOUS
<1>1. CASE UNCHANGED loopVars
  BY <1>1 DEF loopVars, unitVars, jobVars, JobsInv, LoopTypes, OneEach, EndedBails, CallerRight
<1>2. CASE CallerStep
  BY <1>2, LoopSizes, DoItJobs, EndOwnJobs, HelpJobs, CallerJobs DEF CallerStep
<1>3. ASSUME NEW w \in LoopWorkers, TakeTask(w) \/ DoIt(w) \/ EndTask(w) PROVE JobsInv'
  BY <1>3, LoopSizes, TakeTaskJobs, DoItJobs, EndTaskJobs
<1> QED BY <1>1, <1>2, <1>3 DEF LoopNext

-----------------------------------------------------------------------------
(* How often the index is increased                                        *)

\* The index of the next claim, which starts from the largest value of a size_t.
Claims == (workUnitIndex + 1) % IndexSize
Claimed == Claims * loop.workUnitSize

AtPlace(p) == {r \in Runners : doing[r] = p}

\* Each thread claims in vain once: then it tells all the others.
ClaimsFew ==
  /\ shouldContinue => Claims <= loop.len + Cardinality(AtPlace("stop"))
  /\ ~shouldContinue => Claims + Cardinality(AtPlace("claim")) <= loop.len + LastTask + 1

LEMMA PlacesNumbered ==
  ASSUME NEW p, NEW q, p # q
  PROVE  /\ IsFiniteSet(AtPlace(p)) /\ Cardinality(AtPlace(p)) \in Nat
         /\ Cardinality(AtPlace(q)) \in Nat
         /\ Cardinality(AtPlace(p)) + Cardinality(AtPlace(q)) <= LastTask + 1
<1> DEFINE S == AtPlace(p)
           T == AtPlace(q)
<1>1. S \in SUBSET Runners /\ T \in SUBSET Runners /\ S \cap T = {}
  BY DEF AtPlace
<1> HIDE DEF S, T
<1>2. /\ IsFiniteSet(S) /\ IsFiniteSet(T) /\ IsFiniteSet(S \cup T)
      /\ Cardinality(S \cup T) <= LastTask + 1
  BY <1>1, LoopSizes, FS_Subset
<1>3. Cardinality(S) \in Nat /\ Cardinality(T) \in Nat
  BY <1>2, FS_CardinalityType
<1>4. Cardinality(S \cap T) = 0
  BY <1>1, FS_EmptySet
<1>5. Cardinality(S \cup T) = Cardinality(S) + Cardinality(T) - Cardinality(S \cap T)
  BY <1>2, FS_Union
<1>6. Cardinality(S \cup T) = Cardinality(S) + Cardinality(T)
  BY <1>3, <1>4, <1>5
<1>7. Cardinality(S) + Cardinality(T) <= LastTask + 1
  BY <1>2, <1>6
<1> QED BY <1>2, <1>3, <1>7 DEF S, T

LEMMA StopOrClaim ==
  /\ IsFiniteSet(AtPlace("claim"))
  /\ Cardinality(AtPlace("stop")) \in Nat /\ Cardinality(AtPlace("claim")) \in Nat
  /\ Cardinality(AtPlace("stop")) + Cardinality(AtPlace("claim")) <= LastTask + 1
<1>1. "claim" # "stop"
  OBVIOUS
<1>2. /\ IsFiniteSet(AtPlace("claim")) /\ Cardinality(AtPlace("stop")) \in Nat
      /\ Cardinality(AtPlace("claim")) \in Nat
      /\ Cardinality(AtPlace("claim")) + Cardinality(AtPlace("stop")) <= LastTask + 1
  BY <1>1, PlacesNumbered
<1> QED BY <1>2, LoopSizes

\* A thread enters a place or leaves it.
LEMMA PlaceMoves ==
  ASSUME doing \in [Runners -> DoItPlaces], NEW r \in Runners, NEW to, NEW p,
         doing' = [doing EXCEPT ![r] = to]
  PROVE  /\ doing[r] = p /\ to # p =>
              Cardinality(AtPlace(p))' = Cardinality(AtPlace(p)) - 1
         /\ doing[r] # p /\ to = p =>
              Cardinality(AtPlace(p))' = Cardinality(AtPlace(p)) + 1
         /\ doing[r] # p /\ to # p => Cardinality(AtPlace(p))' = Cardinality(AtPlace(p))
<1> DEFINE S == AtPlace(p)
           T == AtPlace(p)'
<1>1. IsFiniteSet(S) /\ (r \in S <=> doing[r] = p)
  BY LoopSizes, FS_Subset DEF AtPlace
<1>2. T = IF to = p THEN S \cup {r} ELSE S \ {r}
  BY DEF AtPlace
<1>3. Cardinality(AtPlace(p))' = Cardinality(T)
  OBVIOUS
<1> HIDE DEF S, T
<1>4. /\ Cardinality(S \cup {r}) = IF r \in S THEN Cardinality(S) ELSE Cardinality(S) + 1
      /\ Cardinality(S \ {r}) = IF r \in S THEN Cardinality(S) - 1 ELSE Cardinality(S)
  BY <1>1, FS_AddElement, FS_RemoveElement
<1>5. r \notin S => S \ {r} = S
  OBVIOUS
<1> QED BY <1>1, <1>2, <1>3, <1>4, <1>5 DEF S

LEMMA Product ==
  ASSUME NEW m \in Nat, NEW n \in Nat, NEW w \in Nat \ {0}, m <= n
  PROVE  m * w \in Nat /\ m <= m * w /\ m * w <= n * w /\ (m + 1) * w = m * w + w
OBVIOUS

LEMMA SmallMod ==
  ASSUME NEW m \in Nat, NEW b \in Nat, m < b
  PROVE  m % b = m
OBVIOUS

\* The arithmetic of a claim: nothing wraps but the index itself, once.
LEMMA ClaimFits ==
  ASSUME LoopTypes, Claims <= loop.len + LastTask,
         workUnitIndex' = (workUnitIndex + 1) % IndexSize, loop' = loop
  PROVE  /\ Claims \in Nat /\ Claims' = Claims + 1 /\ workUnitIndex' = Claims
         /\ Claimed \in Nat /\ Claims <= Claimed /\ Claimed' = Claimed + loop.workUnitSize
         /\ (loop.workUnitSize * workUnitIndex') % IndexSize = Claimed
         /\ (Claimed + loop.workUnitSize) % IndexSize = Claimed + loop.workUnitSize
<1> DEFINE w == loop.workUnitSize
           n == loop.len + LastTask
           c == Claims
<1>1. /\ w \in Nat \ {0} /\ n \in Nat /\ IndexSize \in Nat \ {0} /\ workUnitIndex \in Nat
      /\ (n + 2) * w < IndexSize
  <2>1. loop \in Loops /\ workUnitIndex \in 0 .. IndexSize - 1
    BY DEF LoopTypes
  <2>2. /\ loop.len \in Nat /\ w \in Nat \ {0} /\ IndexSize \in Nat \ {0} /\ LastTask \in Nat
        /\ (loop.len + LastTask + 2) * w < IndexSize
    BY <2>1, LoopFits
  <2> HIDE DEF w
  <2>3. n \in Nat /\ workUnitIndex \in Nat
    BY <2>1, <2>2
  <2> QED BY <2>2, <2>3
<1>2. c \in Nat /\ c <= n /\ workUnitIndex' = c
  BY <1>1 DEF Claims
<1>3. Claims' = (c + 1) % IndexSize
  BY <1>2 DEF Claims
<1>4. Claimed = c * w /\ Claimed' = Claims' * w
  BY DEF Claimed
<1> HIDE DEF w, n, c
<1>5. n + 2 <= (n + 2) * w /\ (c + 1) * w <= (n + 2) * w /\ (c + 1) * w = c * w + w
      /\ c * w \in Nat /\ c <= c * w
  <2>1. n + 2 \in Nat /\ c + 1 \in Nat /\ c + 1 <= n + 2 /\ c <= n + 2
    BY <1>1, <1>2
  <2>2. n + 2 <= (n + 2) * w
    BY <1>1, <2>1, Product
  <2>3. (c + 1) * w <= (n + 2) * w
    BY <1>1, <2>1, Product
  <2>4. (c + 1) * w = c * w + w /\ c * w \in Nat /\ c <= c * w
    BY <1>1, <1>2, <2>1, Product
  <2> QED BY <2>2, <2>3, <2>4
<1> DEFINE x == c * w
           y == (n + 2) * w
<1>6. x \in Nat /\ y \in Nat /\ x + w <= y /\ y < IndexSize /\ c + 1 < IndexSize
  <2>1. y \in Nat
    BY <1>1, <1>2
  <2>2. c * w + w <= y
    BY <1>5
  <2>3. c + 1 < n + 2 /\ n + 2 <= y
    BY <1>1, <1>2, <1>5
  <2> HIDE DEF y
  <2>4. y < IndexSize
    BY <1>1 DEF y
  <2> QED BY <1>1, <1>2, <1>5, <2>1, <2>2, <2>3, <2>4
<1> HIDE DEF x, y
<1>7. (c + 1) % IndexSize = c + 1
  BY <1>1, <1>2, <1>6, SmallMod
<1>8. x % IndexSize = x /\ (x + w) % IndexSize = x + w
  <2>1. x < IndexSize /\ x + w < IndexSize /\ x + w \in Nat
    BY <1>1, <1>6
  <2> QED BY <1>1, <1>6, <2>1, SmallMod
<1>9. w * c = x
  BY <1>1, <1>2 DEF x
<1>10. Claimed = x /\ Claimed' = x + w
  <2>1. Claims' = c + 1
    BY <1>3, <1>7
  <2> QED BY <1>4, <1>5, <2>1 DEF x
<1>11. c <= x
  BY <1>5 DEF x
<1>12. (w * workUnitIndex') % IndexSize = x
  BY <1>2, <1>8, <1>9
<1> QED BY <1>2, <1>3, <1>6, <1>7, <1>8, <1>10, <1>11, <1>12 DEF w, c

LEMMA ClaimBound ==
  ASSUME LoopTypes, ClaimsFew, NEW r \in Runners, doing[r] = "claim"
  PROVE  Claims <= loop.len + LastTask
<1> DEFINE s == Cardinality(AtPlace("stop"))
           c == Cardinality(AtPlace("claim"))
<1>1. s \in Nat /\ c \in Nat /\ s + c <= LastTask + 1
  BY StopOrClaim
<1>2. AtPlace("claim") # {} /\ IsFiniteSet(AtPlace("claim"))
  BY StopOrClaim DEF AtPlace
<1>3. c # 0
  BY <1>2, FS_EmptySet
<1>4. Claims \in Int /\ loop.len \in Nat /\ LastTask \in Nat
  <2>1. loop \in Loops /\ workUnitIndex \in 0 .. IndexSize - 1
    BY DEF LoopTypes
  <2>2. IndexSize \in Nat /\ IndexSize > 1 /\ loop.len \in Nat /\ LastTask \in Nat
    BY <2>1, LoopFits
  <2>3. workUnitIndex + 1 \in Nat
    BY <2>1, <2>2
  <2> QED BY <2>2, <2>3 DEF Claims
<1>5. /\ shouldContinue => Claims <= loop.len + s
      /\ ~shouldContinue => Claims + c <= loop.len + LastTask + 1
  BY DEF ClaimsFew
<1> HIDE DEF s, c
<1>6. CASE shouldContinue
  BY <1>1, <1>3, <1>4, <1>5, <1>6
<1>7. CASE ~shouldContinue
  BY <1>1, <1>3, <1>4, <1>5, <1>7
<1> QED BY <1>6, <1>7

LEMMA FewSame ==
  ASSUME ClaimsFew, UNCHANGED <<loop, workUnitIndex, shouldContinue, doing>>
  PROVE  ClaimsFew'
<1>1. /\ Claims' = Claims /\ loop' = loop /\ (shouldContinue' <=> shouldContinue)
  BY DEF Claims
<1>2. AtPlace("stop")' = AtPlace("stop") /\ AtPlace("claim")' = AtPlace("claim")
  BY DEF AtPlace
<1>3. /\ Cardinality(AtPlace("stop"))' = Cardinality(AtPlace("stop"))
      /\ Cardinality(AtPlace("claim"))' = Cardinality(AtPlace("claim"))
  BY <1>2
<1> QED BY <1>1, <1>3 DEF ClaimsFew

\* Steps that are no claim, and do not tell the others to stop.
LEMMA FewKept ==
  ASSUME LoopTypes, ClaimsFew, NEW r \in Runners, NEW to,
         UNCHANGED <<loop, workUnitIndex, shouldContinue>>,
         doing' = [doing EXCEPT ![r] = to],
         doing[r] # "stop", to = "claim" => shouldContinue
  PROVE  ClaimsFew'
<1> DEFINE s == Cardinality(AtPlace("stop"))
           c == Cardinality(AtPlace("claim"))
           s2 == Cardinality(AtPlace("stop"))'
           c2 == Cardinality(AtPlace("claim"))'
<1>1. doing \in [Runners -> DoItPlaces]
  BY DEF LoopTypes
<1>2. s2 = s \/ s2 = s + 1
  BY <1>1, PlaceMoves
<1>3. to # "claim" => c2 = c \/ c2 = c - 1
  BY <1>1, PlaceMoves
<1>4. s \in Nat /\ c \in Nat /\ loop.len \in Nat /\ LastTask \in Nat /\ Claims \in Int
  <2>1. loop \in Loops /\ workUnitIndex \in 0 .. IndexSize - 1
    BY DEF LoopTypes
  <2>2. IndexSize \in Nat /\ IndexSize > 1 /\ loop.len \in Nat /\ LastTask \in Nat
    BY <2>1, LoopFits
  <2>3. workUnitIndex + 1 \in Nat
    BY <2>1, <2>2
  <2>4. Claims \in Int
    BY <2>2, <2>3 DEF Claims
  <2>5. s \in Nat /\ c \in Nat
    BY StopOrClaim
  <2> QED BY <2>2, <2>4, <2>5
<1>5. Claims' = Claims /\ loop' = loop /\ (shouldContinue' <=> shouldContinue)
  BY DEF Claims
<1>6. /\ shouldContinue => Claims <= loop.len + s
      /\ ~shouldContinue => Claims + c <= loop.len + LastTask + 1
  BY DEF ClaimsFew
<1>7. /\ (shouldContinue' => Claims' <= loop'.len + s2)
      /\ (~shouldContinue' => Claims' + c2 <= loop'.len + LastTask + 1)
      => ClaimsFew'
  BY DEF ClaimsFew
<1> HIDE DEF s, c, s2, c2
<1>8. shouldContinue => Claims <= loop.len + s2
  BY <1>2, <1>4, <1>6
<1>9. ~shouldContinue => Claims + c2 <= loop.len + LastTask + 1
  BY <1>3, <1>4, <1>6
<1> QED BY <1>5, <1>7, <1>8, <1>9

LEMMA FewClaim ==
  ASSUME LoopTypes, ClaimsFew, NEW r \in Runners, Claim(r)
  PROVE  ClaimsFew'
<1> DEFINE s == Cardinality(AtPlace("stop"))
           c == Cardinality(AtPlace("claim"))
           s2 == Cardinality(AtPlace("stop"))'
           c2 == Cardinality(AtPlace("claim"))'
           w == loop.workUnitSize
<1>1. /\ doing \in [Runners -> DoItPlaces] /\ doing[r] = "claim" /\ loop \in Loops
      /\ workUnitIndex' = (workUnitIndex + 1) % IndexSize /\ loop' = loop
      /\ shouldContinue' = shouldContinue
  BY DEF Claim, LoopTypes
<1>2. Claims <= loop.len + LastTask
  BY <1>1, ClaimBound
<1>3. /\ Claims \in Nat /\ Claims' = Claims + 1 /\ Claims <= Claimed /\ Claimed \in Nat
      /\ (w * workUnitIndex') % IndexSize = Claimed
  BY <1>1, <1>2, ClaimFits
<1>4. \/ Claimed >= loop.len /\ doing' = [doing EXCEPT ![r] = "stop"]
      \/ ~(Claimed >= loop.len) /\ doing' = [doing EXCEPT ![r] = "body"]
  BY <1>3 DEF Claim, Move
<1>5. s \in Nat /\ c \in Nat /\ loop.len \in Nat /\ LastTask \in Nat
  BY <1>1, StopOrClaim, LoopFits
<1>6. c2 = c - 1
  BY <1>1, <1>4, PlaceMoves
<1>7. (s2 = s + 1 /\ Claimed >= loop.len) \/ (s2 = s /\ ~(Claimed >= loop.len))
  BY <1>1, <1>4, PlaceMoves
<1>8. /\ shouldContinue => Claims <= loop.len + s
      /\ ~shouldContinue => Claims + c <= loop.len + LastTask + 1
  BY DEF ClaimsFew
<1>9. /\ (shouldContinue' => Claims' <= loop'.len + s2)
      /\ (~shouldContinue' => Claims' + c2 <= loop'.len + LastTask + 1)
      => ClaimsFew'
  BY DEF ClaimsFew
<1> HIDE DEF s, c, s2, c2
<1>10. shouldContinue => Claims + 1 <= loop.len + s2
  BY <1>3, <1>5, <1>7, <1>8
<1>11. ~shouldContinue => Claims + 1 + c2 <= loop.len + LastTask + 1
  BY <1>3, <1>5, <1>6, <1>8
<1> QED BY <1>1, <1>3, <1>9, <1>10, <1>11

LEMMA FewBail ==
  ASSUME LoopTypes, ClaimsFew, NEW r \in Runners, Bail(r)
  PROVE  ClaimsFew'
<1> DEFINE s == Cardinality(AtPlace("stop"))
           c == Cardinality(AtPlace("claim"))
           c2 == Cardinality(AtPlace("claim"))'
<1>1. /\ doing \in [Runners -> DoItPlaces] /\ loop \in Loops /\ ~shouldContinue'
      /\ workUnitIndex' = workUnitIndex /\ loop' = loop
      /\ doing[r] # "claim"
  BY DEF Bail, unitVars, LoopTypes
<1>2. PICK to \in {"end", "escape"} : doing' = [doing EXCEPT ![r] = to]
  BY DEF Bail, Move
<1>3. c2 = c
  BY <1>1, <1>2, PlaceMoves
<1>4. s \in Nat /\ c \in Nat /\ loop.len \in Nat /\ LastTask \in Nat /\ s + c <= LastTask + 1
  BY <1>1, StopOrClaim, LoopFits
<1>5. Claims' = Claims /\ Claims \in Int
  <2>1. workUnitIndex \in 0 .. IndexSize - 1
    BY DEF LoopTypes
  <2>2. IndexSize \in Nat /\ IndexSize > 1
    BY <1>1, LoopFits
  <2>3. workUnitIndex + 1 \in Nat
    BY <2>1, <2>2
  <2> QED BY <1>1, <2>2, <2>3 DEF Claims
<1>6. /\ shouldContinue => Claims <= loop.len + s
      /\ ~shouldContinue => Claims + c <= loop.len + LastTask + 1
  BY DEF ClaimsFew
<1>7. ~shouldContinue' /\ Claims' + c2 <= loop'.len + LastTask + 1 => ClaimsFew'
  BY DEF ClaimsFew
<1> HIDE DEF s, c, c2
<1>8. Claims + c <= loop.len + LastTask + 1
  BY <1>4, <1>5, <1>6
<1> QED BY <1>1, <1>3, <1>5, <1>7, <1>8

LEMMA FewInit == LoopInit => ClaimsFew
<1> SUFFICES ASSUME LoopInit PROVE ClaimsFew
  OBVIOUS
<1>1. loop.len \in Nat /\ IndexSize \in Nat \ {0}
  BY LoopFits DEF LoopInit
<1>2. Claims = 0
  <2>1. workUnitIndex + 1 = IndexSize
    BY <1>1 DEF LoopInit
  <2> QED BY <1>1, <2>1 DEF Claims
<1>3. Cardinality(AtPlace("stop")) \in Nat /\ shouldContinue = TRUE
  BY StopOrClaim DEF LoopInit
<1> QED BY <1>1, <1>2, <1>3 DEF ClaimsFew

LEMMA FewStep == JobsInv /\ ClaimsFew /\ [LoopNext]_loopVars => ClaimsFew'
<1> SUFFICES ASSUME JobsInv, ClaimsFew, [LoopNext]_loopVars PROVE ClaimsFew'
  OBVIOUS
<1>0. LoopTypes
  BY DEF JobsInv
<1>1. CASE UNCHANGED loopVars
  BY <1>1, FewSame DEF loopVars, unitVars
<1>2. ASSUME NEW r \in Runners, DoIt(r) PROVE ClaimsFew'
  <2>1. CASE TestContinue(r)
    <3>1. /\ UNCHANGED <<loop, workUnitIndex, shouldContinue>> /\ doing[r] # "stop"
          /\ doing' = [doing EXCEPT ![r] = IF shouldContinue THEN "claim" ELSE "end"]
      BY <2>1 DEF TestContinue, Move, unitVars
    <3>2. CASE shouldContinue
      <4>1. doing' = [doing EXCEPT ![r] = "claim"]
        BY <3>1, <3>2
      <4> QED BY <1>0, <3>1, <3>2, <4>1, FewKept
    <3>3. CASE ~shouldContinue
      <4>1. doing' = [doing EXCEPT ![r] = "end"] /\ "end" # "claim"
        BY <3>1, <3>3
      <4> QED BY <1>0, <3>1, <4>1, FewKept
    <3> QED BY <3>2, <3>3
  <2>2. CASE Claim(r)
    BY <1>0, <2>2, FewClaim
  <2>3. CASE CallBody(r)
    <3>1. /\ UNCHANGED <<loop, workUnitIndex, shouldContinue>> /\ doing[r] # "stop"
          /\ \/ doing' = doing
             \/ \E to \in {"Exception", "Error"} : doing' = [doing EXCEPT ![r] = to]
      BY <2>3 DEF CallBody
    <3>2. CASE doing' = doing
      BY <3>1, <3>2, FewSame
    <3>3. ASSUME NEW to \in {"Exception", "Error"}, doing' = [doing EXCEPT ![r] = to]
          PROVE  ClaimsFew'
      <4>1. to # "claim"
        OBVIOUS
      <4> QED BY <1>0, <3>1, <3>3, <4>1, FewKept
    <3> QED BY <3>1, <3>2, <3>3
  <2>4. CASE UnitDone(r)
    <3>1. /\ UNCHANGED <<loop, workUnitIndex, shouldContinue>> /\ doing[r] # "stop"
          /\ doing' = [doing EXCEPT ![r] = "test"]
      BY <2>4 DEF UnitDone, Move, unitVars
    <3>2. "test" # "claim"
      OBVIOUS
    <3> QED BY <1>0, <3>1, <3>2, FewKept
  <2>5. CASE Bail(r)
    BY <1>0, <2>5, FewBail
  <2> QED BY <1>2, <2>1, <2>2, <2>3, <2>4, <2>5 DEF DoIt
<1>3. ASSUME NEW w \in LoopWorkers, TakeTask(w) \/ EndTask(w) PROVE ClaimsFew'
  <2>1. w \in Runners /\ UNCHANGED <<loop, workUnitIndex, shouldContinue>>
    BY <1>3, LoopSizes DEF TakeTask, EndTask, unitVars
  <2>2. doing[w] # "stop"
    BY <1>3, <2>1 DEF TakeTask, EndTask, JobsInv, OneEach
  <2>3. \E to \in {"test", "nothing"} : doing' = [doing EXCEPT ![w] = to]
    BY <1>3 DEF TakeTask, EndTask, Move
  <2>4. PICK to \in {"test", "nothing"} : doing' = [doing EXCEPT ![w] = to]
    BY <2>3
  <2>5. to # "claim"
    OBVIOUS
  <2> QED BY <1>0, <2>1, <2>2, <2>4, <2>5, FewKept
<1>4. CASE EndOwn \/ Help
  <2>1. Caller \in Runners /\ UNCHANGED <<loop, workUnitIndex, shouldContinue>>
    BY <1>4, LoopSizes DEF EndOwn, Help, unitVars
  <2>2. doing[Caller] # "stop"
    BY <1>4, <2>1 DEF EndOwn, Help, JobsInv, OneEach
  <2>3. \/ doing' = doing
        \/ \E to \in {"test", "nothing"} : doing' = [doing EXCEPT ![Caller] = to]
    BY <1>4 DEF EndOwn, Help, Move
  <2>4. CASE doing' = doing
    BY <2>1, <2>4, FewSame
  <2>5. ASSUME NEW to \in {"test", "nothing"}, doing' = [doing EXCEPT ![Caller] = to]
        PROVE  ClaimsFew'
    <3>1. to # "claim"
      OBVIOUS
    <3> QED BY <1>0, <2>1, <2>2, <2>5, <3>1, FewKept
  <2> QED BY <2>3, <2>4, <2>5
<1>5. CASE HelpDone \/ ForceNext \/ ReturnFromLoop
  BY <1>5, FewSame DEF HelpDone, ForceNext, ReturnFromLoop, unitVars
<1> QED BY <1>1, <1>2, <1>3, <1>4, <1>5, LoopSizes DEF LoopNext, CallerStep

-----------------------------------------------------------------------------
(* The units of work                                                       *)

\* Element e is in the rest of the unit that r works on.
Has(r, e) == doing[r] = "body" /\ from[r] <= e /\ e < upTo[r]

Thrown ==
  \/ \E r \in Runners : doing[r] \in {"Exception", "Error"}
  \/ \E k \in LoopTasks : exception[k] # "none"

\* Units come from below Claimed, and no two of them overlap.
UnitsApart ==
  /\ \A r \in Runners : doing[r] = "body" =>
       from[r] <= upTo[r] /\ upTo[r] <= loop.len /\ upTo[r] <= Claimed
  /\ \A e \in DOMAIN calls : \A r, q \in Runners : Has(r, e) /\ Has(q, e) => r = q

\* Which elements the body has been called for.
CallsRight ==
  \A e \in DOMAIN calls :
    /\ calls[e] <= 1
    /\ e >= Claimed \/ (\E r \in Runners : Has(r, e)) => calls[e] = 0
    /\ e < Claimed => calls[e] = 1 \/ Thrown \/ \E r \in Runners : Has(r, e)

\* All are told to stop only if there is nothing left or somebody has thrown.
StopsRight ==
  /\ \A r \in Runners : doing[r] = "stop" => Claimed >= loop.len
  /\ ~shouldContinue => Claimed >= loop.len \/ Thrown

UnitsInv == UnitsApart /\ CallsRight /\ StopsRight

LEMMA UnitTypes ==
  ASSUME LoopTypes
  PROVE  /\ loop \in Loops /\ loop.len \in Nat \ {0} /\ loop.workUnitSize \in Nat \ {0}
         /\ Claims \in Nat /\ Claimed \in Nat
         /\ DOMAIN calls = 0 .. loop.len - 1
         /\ \A e \in DOMAIN calls : e \in Nat /\ e < loop.len /\ calls[e] \in Nat
<1>1. /\ loop \in Loops /\ workUnitIndex \in 0 .. IndexSize - 1
      /\ calls \in [0 .. loop.len - 1 -> Nat]
  BY DEF LoopTypes
<1>2. /\ loop.len \in Nat \ {0} /\ loop.workUnitSize \in Nat \ {0}
      /\ IndexSize \in Nat \ {0}
  BY <1>1, LoopFits
<1>3. workUnitIndex + 1 \in Nat
  BY <1>1, <1>2
<1>4. Claims \in Nat
  BY <1>2, <1>3 DEF Claims
<1>5. Claimed \in Nat
  BY <1>2, <1>4 DEF Claimed
<1>6. /\ DOMAIN calls = 0 .. loop.len - 1
      /\ \A e \in DOMAIN calls : e \in Nat /\ e < loop.len /\ calls[e] \in Nat
  BY <1>1, <1>2
<1> QED BY <1>1, <1>2, <1>4, <1>5, <1>6

LEMMA UnitsInit == LoopInit => UnitsInv
<1> SUFFICES ASSUME LoopInit PROVE UnitsInv
  OBVIOUS
<1>1. LoopTypes
  BY JobsInit DEF JobsInv
<1>2. Claimed = 0
  <2>1. IndexSize \in Nat \ {0} /\ loop.workUnitSize \in Nat
    BY LoopFits DEF LoopInit
  <2>2. workUnitIndex + 1 = IndexSize
    BY <2>1 DEF LoopInit
  <2>3. Claims = 0
    BY <2>1, <2>2 DEF Claims
  <2> QED BY <2>1, <2>3 DEF Claimed
<1>3. \A r \in Runners : doing[r] \in {"test", "nothing"}
  BY DEF LoopInit
<1>4. \A e \in DOMAIN calls : e \in Nat /\ calls[e] = 0
  BY <1>1, UnitTypes DEF LoopInit
<1>5. shouldContinue = TRUE
  BY DEF LoopInit
<1>6. UnitsApart
  BY <1>3 DEF UnitsApart, Has
<1>7. CallsRight
  BY <1>2, <1>4 DEF CallsRight
<1>8. StopsRight
  BY <1>3, <1>5 DEF StopsRight
<1> QED BY <1>6, <1>7, <1>8 DEF UnitsInv

\* Steps that leave the units and their elements alone.
LEMMA UnitsKept ==
  ASSUME LoopTypes, UnitsInv, NEW r \in Runners, NEW to,
         UNCHANGED <<loop, workUnitIndex, calls, from, upTo>>,
         doing' = [doing EXCEPT ![r] = to], to \notin {"body", "stop"},
         doing[r] = "body" => from[r] = upTo[r],
         Thrown => Thrown',
         ~shouldContinue' => ~shouldContinue \/ Claimed >= loop.len \/ Thrown'
  PROVE  UnitsInv'
<1>1. Claimed' = Claimed /\ loop' = loop /\ calls' = calls
  BY DEF Claimed, Claims
<1>2. \A q \in Runners : /\ q # r => doing'[q] = doing[q]
                         /\ doing'[r] = to
                         /\ from'[q] = from[q] /\ upTo'[q] = upTo[q]
  BY DEF LoopTypes
<1>3. \A q \in Runners : \A e \in DOMAIN calls : Has(q, e)' <=> Has(q, e)
  <2> SUFFICES ASSUME NEW q \in Runners, NEW e \in DOMAIN calls PROVE Has(q, e)' <=> Has(q, e)
    OBVIOUS
  <2>1. CASE q # r
    BY <1>2, <2>1 DEF Has
  <2>2. CASE q = r
    <3>1. e \in Nat /\ from[r] \in Nat /\ upTo[r] \in Nat
      BY UnitTypes DEF LoopTypes
    <3>2. ~Has(r, e)
      BY <3>1 DEF Has
    <3>3. ~Has(r, e)'
      BY <1>2 DEF Has
    <3> QED BY <2>2, <3>2, <3>3
  <2> QED BY <2>1, <2>2
<1>4. UnitsApart'
  <2>1. \A q \in Runners : doing'[q] = "body" =>
          from'[q] <= upTo'[q] /\ upTo'[q] <= loop'.len /\ upTo'[q] <= Claimed'
    BY <1>1, <1>2 DEF UnitsInv, UnitsApart
  <2>2. \A e \in DOMAIN calls' : \A p, q \in Runners : Has(p, e)' /\ Has(q, e)' => p = q
    BY <1>1, <1>3 DEF UnitsInv, UnitsApart
  <2> QED BY <2>1, <2>2 DEF UnitsApart
<1>5. CallsRight'
  BY <1>1, <1>3 DEF UnitsInv, CallsRight
<1>6. StopsRight'
  BY <1>1, <1>2 DEF UnitsInv, StopsRight
<1> QED BY <1>4, <1>5, <1>6 DEF UnitsInv

LEMMA UnitsSame ==
  ASSUME UnitsInv, UNCHANGED <<loop, workUnitIndex, calls, from, upTo, shouldContinue,
                               doing, exception>>
  PROVE  UnitsInv'
<1>1. Claimed' = Claimed /\ loop' = loop /\ calls' = calls /\ shouldContinue' = shouldContinue
      /\ (Thrown' <=> Thrown)
  BY DEF Claimed, Claims, Thrown
<1>2. \A q, e : Has(q, e)' <=> Has(q, e)
  BY DEF Has
<1>3. UnitsApart'
  BY <1>1, <1>2 DEF UnitsInv, UnitsApart
<1>4. CallsRight'
  BY <1>1, <1>2 DEF UnitsInv, CallsRight
<1>5. StopsRight'
  BY <1>1 DEF UnitsInv, StopsRight
<1> QED BY <1>3, <1>4, <1>5 DEF UnitsInv

\* A claimed unit is what comes next, and belongs to nobody else.
LEMMA UnitsClaim ==
  ASSUME LoopTypes, ClaimsFew, UnitsInv, NEW r \in Runners, Claim(r)
  PROVE  UnitsInv'
<1> DEFINE w == loop.workUnitSize
           n == loop.len
           c == Claimed
           end == Min({n, (c + w) % IndexSize})
<1>1. /\ doing[r] = "claim" /\ workUnitIndex' = (workUnitIndex + 1) % IndexSize /\ loop' = loop
      /\ UNCHANGED <<calls, shouldContinue, exception>>
  BY DEF Claim, jobVars
<1>2. Claims <= loop.len + LastTask
  BY <1>1, ClaimBound
<1>3. /\ (w * workUnitIndex') % IndexSize = c /\ Claimed' = c + w /\ (c + w) % IndexSize = c + w
  BY <1>1, <1>2, ClaimFits
<1>4. c \in Nat /\ w \in Nat \ {0} /\ n \in Nat
  BY UnitTypes
<1>5. \/ /\ c >= n /\ doing' = [doing EXCEPT ![r] = "stop"]
         /\ from' = from /\ upTo' = upTo
      \/ /\ ~(c >= n) /\ doing' = [doing EXCEPT ![r] = "body"]
         /\ from' = [from EXCEPT ![r] = c] /\ upTo' = [upTo EXCEPT ![r] = end]
  BY <1>3 DEF Claim, Move
<1>6. end \in Nat /\ end <= n /\ end <= c + w /\ end \in {n, c + w}
  BY <1>3, <1>4, MinOfTwo
<1> HIDE DEF w, n, c, end
<1>7. \A q \in Runners : q # r => doing'[q] = doing[q] /\ from'[q] = from[q] /\ upTo'[q] = upTo[q]
  BY <1>5 DEF LoopTypes
<1>8. /\ c >= n => doing'[r] = "stop"
      /\ ~(c >= n) => doing'[r] = "body" /\ from'[r] = c /\ upTo'[r] = end
  BY <1>5 DEF LoopTypes
<1>9. loop'.len = n /\ DOMAIN calls' = DOMAIN calls
  BY <1>1 DEF n
<1>10. Thrown => Thrown'
  BY <1>1, <1>7 DEF Thrown
<1>11. \A q \in Runners : \A e \in DOMAIN calls :
          /\ q # r => (Has(q, e)' <=> Has(q, e))
          /\ ~Has(r, e)
          /\ Has(r, e)' <=> ~(c >= n) /\ c <= e /\ e < end
  BY <1>1, <1>7, <1>8 DEF Has
<1>12. \A e \in DOMAIN calls : e \in Nat /\ e < n
  BY UnitTypes DEF n
<1>13. \A q \in Runners : \A e \in DOMAIN calls : Has(q, e) => e < c
  <2> SUFFICES ASSUME NEW q \in Runners, NEW e \in DOMAIN calls, Has(q, e) PROVE e < c
    OBVIOUS
  <2>1. upTo[q] <= c /\ e < upTo[q] /\ upTo[q] \in Nat
    BY DEF Has, UnitsInv, UnitsApart, LoopTypes, c
  <2> QED BY <1>4, <1>12, <2>1
<1>14. UnitsApart'
  <2>1. ASSUME NEW q \in Runners, doing'[q] = "body"
        PROVE  from'[q] <= upTo'[q] /\ upTo'[q] <= loop'.len /\ upTo'[q] <= Claimed'
    <3>1. CASE q = r
      <4>1. ~(c >= n) /\ from'[q] = c /\ upTo'[q] = end
        BY <1>8, <2>1, <3>1
      <4> QED BY <1>3, <1>4, <1>6, <1>9, <4>1
    <3>2. CASE q # r
      <4>1. from[q] <= upTo[q] /\ upTo[q] <= n /\ upTo[q] <= c /\ upTo[q] \in Nat
        BY <1>7, <2>1, <3>2 DEF UnitsInv, UnitsApart, LoopTypes, n, c
      <4>2. upTo[q] <= Claimed'
        BY <1>3, <1>4, <4>1
      <4> QED BY <1>7, <1>9, <3>2, <4>1, <4>2
    <3> QED BY <3>1, <3>2
  <2>2. ASSUME NEW e \in DOMAIN calls', NEW p \in Runners, NEW q \in Runners,
               Has(p, e)', Has(q, e)'
        PROVE  p = q
    <3>1. e \in DOMAIN calls /\ e \in Nat
      BY <1>9, <1>12
    <3>2. CASE p # r /\ q # r
      <4>1. Has(p, e) /\ Has(q, e)
        BY <1>11, <2>2, <3>1, <3>2
      <4> QED BY <3>1, <4>1 DEF UnitsInv, UnitsApart
    <3>3. ASSUME NEW s \in Runners, s # r, Has(s, e)' PROVE ~Has(r, e)'
      <4>1. e < c
        BY <1>11, <1>13, <3>1, <3>3
      <4> QED BY <1>4, <1>11, <3>1, <4>1
    <3> QED BY <2>2, <3>2, <3>3
  <2> QED BY <2>1, <2>2 DEF UnitsApart
<1>15. CallsRight'
  <2> SUFFICES ASSUME NEW e \in DOMAIN calls
               PROVE  /\ calls[e] <= 1
                      /\ e >= c + w \/ (\E q \in Runners : Has(q, e)') => calls[e] = 0
                      /\ e < c + w =>
                           calls[e] = 1 \/ Thrown' \/ \E q \in Runners : Has(q, e)'
    BY <1>1, <1>3, <1>9 DEF CallsRight
  <2>1. /\ calls[e] <= 1
        /\ e >= c \/ (\E q \in Runners : Has(q, e)) => calls[e] = 0
        /\ e < c => calls[e] = 1 \/ Thrown \/ \E q \in Runners : Has(q, e)
    BY DEF UnitsInv, CallsRight, c
  <2>2. e \in Nat /\ e < n
    BY <1>12
  <2>3. e >= c + w => calls[e] = 0
    BY <1>4, <2>1, <2>2
  <2>4. ASSUME NEW q \in Runners, Has(q, e)' PROVE calls[e] = 0
    <3>1. CASE q = r
      <4>1. e >= c
        BY <1>4, <1>11, <2>2, <2>4, <3>1
      <4> QED BY <2>1, <4>1
    <3>2. CASE q # r
      BY <1>11, <2>1, <2>4, <3>2
    <3> QED BY <3>1, <3>2
  <2>5. ASSUME e < c + w PROVE calls[e] = 1 \/ Thrown' \/ \E q \in Runners : Has(q, e)'
    <3>1. CASE e < c
      <4>1. CASE \E q \in Runners : Has(q, e)
        <5>1. PICK q \in Runners : Has(q, e)
          BY <4>1
        <5>2. q # r /\ Has(q, e)'
          BY <1>11, <5>1
        <5> QED BY <5>2
      <4>2. CASE calls[e] = 1 \/ Thrown
        BY <1>10, <4>2
      <4> QED BY <2>1, <3>1, <4>1, <4>2
    <3>2. CASE ~(e < c)
      <4>1. c <= e /\ ~(c >= n) /\ e < end
        BY <1>4, <1>6, <2>2, <2>5, <3>2
      <4>2. Has(r, e)'
        BY <1>11, <4>1
      <4> QED BY <4>2
    <3> QED BY <3>1, <3>2
  <2> QED BY <2>1, <2>3, <2>4, <2>5
<1>16. StopsRight'
  <2>1. Claimed' >= c /\ Claimed' \in Nat
    BY <1>3, <1>4
  <2>2. c >= n => Claimed' >= loop'.len
    BY <1>4, <1>9, <2>1
  <2>3. ASSUME NEW q \in Runners, doing'[q] = "stop" PROVE Claimed' >= loop'.len
    <3>1. CASE q = r
      BY <1>8, <2>2, <2>3, <3>1
    <3>2. CASE q # r
      <4>1. doing[q] = "stop"
        BY <1>7, <2>3, <3>2
      <4>2. c >= n
        BY <4>1 DEF UnitsInv, StopsRight, c, n
      <4> QED BY <2>2, <4>2
    <3> QED BY <3>1, <3>2
  <2>4. ~shouldContinue' => Claimed' >= loop'.len \/ Thrown'
    <3>1. ~shouldContinue => c >= n \/ Thrown
      BY DEF UnitsInv, StopsRight, c, n
    <3> QED BY <1>1, <1>10, <2>2, <3>1
  <2> QED BY <2>3, <2>4 DEF StopsRight
<1> QED BY <1>14, <1>15, <1>16 DEF UnitsInv

\* The body is called for the first element of the rest.
LEMMA UnitsCall ==
  ASSUME LoopTypes, UnitsInv, NEW r \in Runners, CallBody(r)
  PROVE  UnitsInv'
<1> DEFINE x == from[r]
<1>1. /\ doing[r] = "body" /\ x < upTo[r] /\ from' = [from EXCEPT ![r] = x + 1]
      /\ calls' = [calls EXCEPT ![x] = calls[x] + 1]
      /\ UNCHANGED <<loop, workUnitIndex, upTo, shouldContinue, exception>>
  BY DEF CallBody, jobVars
<1>2. /\ doing \in [Runners -> DoItPlaces] /\ from \in [Runners -> Nat]
      /\ upTo \in [Runners -> Nat] /\ x \in Nat
  BY DEF LoopTypes
<1>3. upTo[r] <= loop.len /\ upTo[r] <= Claimed /\ loop.len \in Nat /\ Claimed \in Nat
  BY <1>1, UnitTypes DEF UnitsInv, UnitsApart
<1>4. x \in DOMAIN calls /\ x < Claimed /\ Has(r, x)
  BY <1>1, <1>2, <1>3, UnitTypes DEF Has
<1>5. calls[x] = 0
  BY <1>4 DEF UnitsInv, CallsRight
<1> HIDE DEF x
<1>6. /\ DOMAIN calls' = DOMAIN calls /\ calls'[x] = 1
      /\ \A e \in DOMAIN calls : e # x => calls'[e] = calls[e]
  BY <1>1, <1>4, <1>5
<1>7. Claimed' = Claimed /\ loop' = loop
  BY <1>1 DEF Claimed, Claims
<1>8. \A q \in Runners : q # r => doing'[q] = doing[q] /\ from'[q] = from[q]
  BY <1>1, <1>2 DEF CallBody
<1>9. from'[r] = x + 1 /\ upTo' = upTo
  BY <1>1, <1>2
<1>10. doing'[r] = "body" \/ doing'[r] \in {"Exception", "Error"}
  BY <1>1, <1>2 DEF CallBody
<1>11. (Thrown => Thrown') /\ (doing'[r] # "body" => Thrown')
  BY <1>1, <1>8, <1>10 DEF Thrown
<1>12. \A q \in Runners : \A e \in DOMAIN calls :
          /\ q # r => (Has(q, e)' <=> Has(q, e))
          /\ Has(r, e)' <=> doing'[r] = "body" /\ Has(r, e) /\ e # x
  <2> SUFFICES ASSUME NEW q \in Runners, NEW e \in DOMAIN calls
               PROVE  /\ q # r => (Has(q, e)' <=> Has(q, e))
                      /\ Has(r, e)' <=> doing'[r] = "body" /\ Has(r, e) /\ e # x
    OBVIOUS
  <2>1. q # r => (Has(q, e)' <=> Has(q, e))
    BY <1>8, <1>9 DEF Has
  <2>2. e \in Nat /\ upTo[r] \in Nat
    BY <1>2, UnitTypes
  <2>3. x + 1 <= e <=> x <= e /\ e # x
    BY <1>2, <2>2 DEF x
  <2>4. from[r] = x
    BY DEF x
  <2>5. Has(r, e)' <=> doing'[r] = "body" /\ Has(r, e) /\ e # x
    BY <1>1, <1>9, <2>3, <2>4 DEF Has
  <2> QED BY <2>1, <2>5
<1>13. UnitsApart'
  <2>1. ASSUME NEW q \in Runners, doing'[q] = "body"
        PROVE  from'[q] <= upTo'[q] /\ upTo'[q] <= loop'.len /\ upTo'[q] <= Claimed'
    <3>1. CASE q = r
      <4>1. x + 1 <= upTo[r]
        BY <1>1, <1>2
      <4> QED BY <1>3, <1>7, <1>9, <3>1, <4>1
    <3>2. CASE q # r
      <4>1. from[q] <= upTo[q] /\ upTo[q] <= loop.len /\ upTo[q] <= Claimed
        BY <1>8, <2>1, <3>2 DEF UnitsInv, UnitsApart
      <4> QED BY <1>7, <1>8, <1>9, <3>2, <4>1
    <3> QED BY <3>1, <3>2
  <2>2. ASSUME NEW e \in DOMAIN calls', NEW p \in Runners, NEW q \in Runners,
               Has(p, e)', Has(q, e)'
        PROVE  p = q
    <3>1. e \in DOMAIN calls
      BY <1>6
    <3>2. Has(p, e) /\ Has(q, e)
      BY <1>12, <2>2, <3>1
    <3> QED BY <3>1, <3>2 DEF UnitsInv, UnitsApart
  <2> QED BY <2>1, <2>2 DEF UnitsApart
<1>14. CallsRight'
  <2> SUFFICES ASSUME NEW e \in DOMAIN calls
               PROVE  /\ calls'[e] <= 1
                      /\ e >= Claimed \/ (\E q \in Runners : Has(q, e)') => calls'[e] = 0
                      /\ e < Claimed =>
                           calls'[e] = 1 \/ Thrown' \/ \E q \in Runners : Has(q, e)'
    BY <1>6, <1>7 DEF CallsRight
  <2>1. /\ calls[e] <= 1
        /\ e >= Claimed \/ (\E q \in Runners : Has(q, e)) => calls[e] = 0
        /\ e < Claimed => calls[e] = 1 \/ Thrown \/ \E q \in Runners : Has(q, e)
    BY DEF UnitsInv, CallsRight
  <2>2. CASE e = x
    <3>1. ~(e >= Claimed)
      BY <1>2, <1>3, <1>4, <2>2
    <3>2. \A q \in Runners : ~Has(q, e)'
      <4> SUFFICES ASSUME NEW q \in Runners, Has(q, e)' PROVE FALSE
        OBVIOUS
      <4>1. q # r /\ Has(q, e)
        BY <1>12, <2>2
      <4>2. Has(r, e)
        BY <1>4, <2>2
      <4> QED BY <4>1, <4>2 DEF UnitsInv, UnitsApart
    <3> QED BY <1>6, <2>2, <3>1, <3>2
  <2>3. CASE e # x
    <3>1. calls'[e] = calls[e]
      BY <1>6, <2>3
    <3>2. (\E q \in Runners : Has(q, e)') => \E q \in Runners : Has(q, e)
      BY <1>12
    <3>3. ASSUME NEW q \in Runners, Has(q, e) PROVE Thrown' \/ Has(q, e)'
      BY <1>11, <1>12, <2>3, <3>3
    <3> QED BY <1>11, <2>1, <3>1, <3>2, <3>3
  <2> QED BY <2>2, <2>3
<1>15. StopsRight'
  <2>1. \A q \in Runners : doing'[q] = "stop" => doing[q] = "stop"
    BY <1>8, <1>10
  <2> QED BY <1>1, <1>7, <1>11, <2>1 DEF UnitsInv, StopsRight
<1> QED BY <1>13, <1>14, <1>15 DEF UnitsInv

\* What was thrown is not forgotten.
LEMMA ThrownStays ==
  ASSUME LoopTypes, NEW r \in Runners, NEW to, doing' = [doing EXCEPT ![r] = to],
         doing[r] \notin {"Exception", "Error"}, exception' = exception
  PROVE  Thrown => Thrown'
<1>1. \A q \in Runners : q # r => doing'[q] = doing[q]
  BY DEF LoopTypes
<1> QED BY <1>1 DEF Thrown

LEMMA UnitsBail ==
  ASSUME JobsInv, UnitsInv, NEW r \in Runners, Bail(r)
  PROVE  UnitsInv'
<1>1. /\ LoopTypes /\ UNCHANGED <<loop, workUnitIndex, calls, from, upTo>>
      /\ doing[r] \in {"stop", "Exception", "Error"}
  BY DEF Bail, unitVars, JobsInv
<1>2. PICK to \in {"end", "escape"} : doing' = [doing EXCEPT ![r] = to]
  BY DEF Bail, Move
<1>3. CASE doing[r] = "stop"
  <2>1. exception' = exception /\ Claimed >= loop.len
    BY <1>3 DEF Bail, UnitsInv, StopsRight
  <2>2. Thrown => Thrown'
    BY <1>1, <1>2, <1>3, <2>1, ThrownStays
  <2> QED BY <1>1, <1>2, <1>3, <2>1, <2>2, UnitsKept
<1>4. CASE doing[r] # "stop"
  <2>1. exception' = [exception EXCEPT ![job[r]] = doing[r]] /\ doing[r] # "none"
    BY <1>1, <1>4 DEF Bail
  <2>2. job[r] \in LoopTasks
    BY <1>1, <1>4, LoopSizes DEF JobsInv, OneEach, LoopTypes, LoopTasks
  <2>3. exception'[job[r]] # "none"
    BY <1>1, <2>1, <2>2 DEF LoopTypes
  <2>4. Thrown'
    BY <2>2, <2>3 DEF Thrown
  <2> QED BY <1>1, <1>2, <1>4, <2>4, UnitsKept
<1> QED BY <1>3, <1>4

LEMMA UnitsStep == JobsInv /\ ClaimsFew /\ UnitsInv /\ [LoopNext]_loopVars => UnitsInv'
<1> SUFFICES ASSUME JobsInv, ClaimsFew, UnitsInv, [LoopNext]_loopVars PROVE UnitsInv'
  OBVIOUS
<1>0. LoopTypes
  BY DEF JobsInv
<1>1. CASE UNCHANGED loopVars
  BY <1>1, UnitsSame DEF loopVars, unitVars, jobVars
<1>2. ASSUME NEW r \in Runners, NEW to, doing' = [doing EXCEPT ![r] = to],
             UNCHANGED <<unitVars, shouldContinue, exception>>,
             to \notin {"body", "stop"}, doing[r] \notin {"Exception", "Error"},
             doing[r] = "body" => from[r] = upTo[r]
      PROVE  UnitsInv'
  <2>1. UNCHANGED <<loop, workUnitIndex, calls, from, upTo>>
        /\ shouldContinue' = shouldContinue /\ exception' = exception
    BY <1>2 DEF unitVars
  <2>2. Thrown => Thrown'
    BY <1>0, <1>2, <2>1, ThrownStays
  <2>3. ~shouldContinue' => ~shouldContinue \/ Claimed >= loop.len \/ Thrown'
    BY <2>1
  <2>4. /\ loop' = loop /\ workUnitIndex' = workUnitIndex /\ calls' = calls
        /\ from' = from /\ upTo' = upTo
    BY <2>1
  <2> QED BY <1>0, <1>2, <2>2, <2>3, <2>4, UnitsKept
<1>3. ASSUME NEW r \in Runners, DoIt(r) PROVE UnitsInv'
  <2>1. CASE TestContinue(r)
    <3>1. /\ UNCHANGED <<unitVars, shouldContinue, exception>> /\ doing[r] = "test"
      BY <2>1 DEF TestContinue, jobVars
    <3>2. PICK to \in {"claim", "end"} : doing' = [doing EXCEPT ![r] = to]
      BY <2>1 DEF TestContinue, Move
    <3>3. to \notin {"body", "stop"}
      OBVIOUS
    <3> QED BY <1>2, <3>1, <3>2, <3>3
  <2>2. CASE UnitDone(r)
    <3>1. /\ UNCHANGED <<unitVars, shouldContinue, exception>> /\ doing[r] = "body"
          /\ from[r] = upTo[r] /\ doing' = [doing EXCEPT ![r] = "test"]
      BY <2>2 DEF UnitDone, jobVars, Move
    <3>2. "test" \notin {"body", "stop"}
      OBVIOUS
    <3> QED BY <1>2, <3>1, <3>2
  <2>3. CASE Claim(r)
    BY <1>0, <2>3, UnitsClaim
  <2>4. CASE CallBody(r)
    BY <1>0, <2>4, UnitsCall
  <2>5. CASE Bail(r)
    BY <2>5, UnitsBail
  <2> QED BY <1>3, <2>1, <2>2, <2>3, <2>4, <2>5 DEF DoIt
<1>4. ASSUME NEW w \in LoopWorkers, TakeTask(w) \/ EndTask(w) PROVE UnitsInv'
  <2>1. w \in Runners /\ UNCHANGED <<unitVars, shouldContinue, exception>>
    BY <1>4, LoopSizes DEF TakeTask, EndTask
  <2>2. doing[w] \in {"nothing", "end"}
    BY <1>4, <2>1 DEF TakeTask, EndTask, JobsInv, OneEach
  <2>3. PICK to \in {"test", "nothing"} : doing' = [doing EXCEPT ![w] = to]
    BY <1>4 DEF TakeTask, EndTask, Move
  <2>4. to \notin {"body", "stop"}
    OBVIOUS
  <2> QED BY <1>2, <2>1, <2>2, <2>3, <2>4
<1>5. CASE EndOwn \/ Help
  <2>1. Caller \in Runners /\ UNCHANGED <<unitVars, shouldContinue, exception>>
    BY <1>5, LoopSizes DEF EndOwn, Help
  <2>2. doing[Caller] \in {"nothing", "end", "escape"}
    BY <1>5, <2>1 DEF EndOwn, Help, JobsInv, OneEach
  <2>3. \/ doing' = doing
        \/ \E to \in {"test", "nothing"} : doing' = [doing EXCEPT ![Caller] = to]
    BY <1>5 DEF EndOwn, Help, Move
  <2>4. CASE doing' = doing
    BY <2>1, <2>4, UnitsSame DEF unitVars
  <2>5. ASSUME NEW to \in {"test", "nothing"}, doing' = [doing EXCEPT ![Caller] = to]
        PROVE  UnitsInv'
    <3>1. to \notin {"body", "stop"}
      OBVIOUS
    <3> QED BY <1>2, <2>1, <2>2, <2>5, <3>1
  <2> QED BY <2>3, <2>4, <2>5
<1>6. CASE HelpDone \/ ForceNext \/ ReturnFromLoop
  BY <1>6, UnitsSame DEF HelpDone, ForceNext, ReturnFromLoop, unitVars
<1> QED BY <1>1, <1>3, <1>4, <1>5, <1>6, LoopSizes DEF LoopNext, CallerStep

LoopIInv == JobsInv /\ ClaimsFew /\ UnitsInv

\* When the foreach is over nobody is in doIt() any more.
LEMMA LoopGood == LoopIInv => ForeachInv
<1> SUFFICES ASSUME LoopIInv PROVE ForeachInv
  OBVIOUS
<1> USE LoopSizes
<1>0. JobsInv /\ UnitsInv /\ LoopTypes /\ OneEach /\ CallerRight /\ EndedBails
  BY DEF LoopIInv, JobsInv
<1>1. AwaitedIsRun
  <2> SUFFICES ASSUME caller.place = "force", NEW k \in LoopTasks, jobStatus[k] # "done"
               PROVE  \E w \in LoopWorkers : job[w] = k
    BY DEF AwaitedIsRun
  <2>1. jobStatus[k] = "inProgress" /\ job[Caller] = NoJob
    BY <1>0 DEF CallerRight, LoopTypes
  <2>2. PICK r \in Runners : job[r] = k
    BY <1>0, <2>1 DEF OneEach
  <2>3. r # Caller
    BY <2>1, <2>2
  <2> QED BY <2>2, <2>3 DEF Runners
<1>2. NobodyLeftInLoop
  BY <1>0 DEF NobodyLeftInLoop, CallerRight, Over
<1>3. NothingLeftToHelp
  BY <1>0 DEF NothingLeftToHelp, CallerRight
<1>4. \A e \in DOMAIN calls : calls[e] <= 1
  BY <1>0 DEF UnitsInv, CallsRight
<1>5. ASSUME Over, \A k \in LoopTasks : exception[k] = "none", NEW e \in DOMAIN calls
      PROVE  calls[e] = 1
  <2>1. \A k \in LoopTasks : jobStatus[k] = "done"
    BY <1>2, <1>5 DEF NobodyLeftInLoop
  <2>2. \A r \in Runners : doing[r] = "nothing"
    <3> SUFFICES ASSUME NEW r \in Runners PROVE job[r] = NoJob
      BY <1>0 DEF OneEach
    <3> SUFFICES ASSUME job[r] # NoJob PROVE FALSE
      OBVIOUS
    <3>1. job[r] \in LoopTasks
      BY <1>0 DEF LoopTypes, LoopTasks
    <3>2. jobStatus[job[r]] = "inProgress"
      BY <1>0 DEF OneEach
    <3> QED BY <2>1, <3>1, <3>2
  <2>3. ~Thrown
    BY <1>5, <2>2 DEF Thrown
  <2>4. ~shouldContinue
    BY <1>0, <2>1 DEF EndedBails
  <2>5. Claimed >= loop.len
    BY <1>0, <2>3, <2>4 DEF UnitsInv, StopsRight
  <2>6. Claimed \in Nat /\ loop.len \in Nat /\ e \in Nat /\ e < loop.len
    BY <1>0, UnitTypes
  <2>7. e < Claimed
    BY <2>5, <2>6
  <2>8. \A r \in Runners : ~Has(r, e)
    BY <2>2 DEF Has
  <2> QED BY <1>0, <2>3, <2>7, <2>8 DEF UnitsInv, CallsRight
<1>6. EachOnce
  BY <1>4, <1>5 DEF EachOnce
<1> QED BY <1>1, <1>2, <1>3, <1>6 DEF ForeachInv

\* A parallel foreach calls its body for no element twice, and for each if nothing
\* was thrown; it is over only when all its tasks are done, and waits only for tasks
\* that a worker runs: for any number of workers, elements and sizes of work units
\* whose sums fit into a size_t, with the index running past the end of the range.
THEOREM ForeachRight == LoopSpec => []ForeachInv
<1>1. LoopInit => LoopIInv
  BY JobsInit, FewInit, UnitsInit DEF LoopIInv
<1>2. LoopIInv /\ [LoopNext]_loopVars => LoopIInv'
  BY JobsStep, FewStep, UnitsStep DEF LoopIInv
<1> QED BY <1>1, <1>2, LoopGood, PTL DEF LoopSpec

-----------------------------------------------------------------------------
(* MessageBox                                                              *)

Kinds == Standard \cup Notices \cup {"priority"}
Messages == [from : Senders, nr : Nat, kind : Kinds]
Boxes == Seq(Messages)

-----------------------------------------------------------------------------
(* Lists of messages                                                       *)

Elems(list) == {list[i] : i \in 1 .. Len(list)}
Same(x, y) == x.from = y.from /\ x.kind = y.kind

\* What one sender sent of one kind is in order within a list, and between two.
InOrder(list) ==
  \A i, j \in 1 .. Len(list) : (i < j /\ Same(list[i], list[j])) => list[i].nr < list[j].nr
Before(S, T) == \A x \in S, y \in T : Same(x, y) => x.nr < y.nr

\* How many messages of a list count against the limit.
Users(list) == Cardinality(User(list))

LEMMA ElemsTypes ==
  ASSUME NEW p \in Boxes
  PROVE  Elems(p) \subseteq Messages
BY ElementOfSeq DEF Elems, Boxes

LEMMA ElemsNone == Elems(<<>>) = {}
BY DEF Elems

\* Adding a message at the end.
LEMMA Added ==
  ASSUME NEW p \in Boxes, NEW m \in Messages
  PROVE  /\ Append(p, m) \in Boxes /\ Len(Append(p, m)) = Len(p) + 1
         /\ Elems(Append(p, m)) = Elems(p) \cup {m}
         /\ InOrder(p) /\ Before(Elems(p), {m}) => InOrder(Append(p, m))
<1> DEFINE q == Append(p, m)
<1>1. /\ q \in Boxes /\ Len(q) = Len(p) + 1 /\ Len(p) \in Nat
      /\ \A i \in 1 .. Len(p) : q[i] = p[i]
      /\ q[Len(p) + 1] = m
  BY AppendProperties, LenProperties DEF Boxes
<1> HIDE DEF q
<1>2. Elems(q) = Elems(p) \cup {m}
  <2>1. \A x \in Elems(q) : x \in Elems(p) \cup {m}
    BY <1>1 DEF Elems
  <2>2. \A x \in Elems(p) : x \in Elems(q)
    BY <1>1 DEF Elems
  <2>3. m \in Elems(q)
    BY <1>1 DEF Elems
  <2> QED BY <2>1, <2>2, <2>3
<1>3. ASSUME InOrder(p), Before(Elems(p), {m}) PROVE InOrder(q)
  <2> SUFFICES ASSUME NEW i \in 1 .. Len(q), NEW j \in 1 .. Len(q), i < j, Same(q[i], q[j])
               PROVE  q[i].nr < q[j].nr
    BY DEF InOrder
  <2>1. CASE j = Len(p) + 1
    <3>1. q[i] \in Elems(p) /\ q[j] = m
      BY <1>1, <2>1 DEF Elems
    <3> QED BY <3>1, <1>3 DEF Before
  <2>2. CASE j # Len(p) + 1
    <3>1. i \in 1 .. Len(p) /\ j \in 1 .. Len(p) /\ q[i] = p[i] /\ q[j] = p[j]
      BY <1>1, <2>2
    <3> QED BY <3>1, <1>3 DEF InOrder
  <2> QED BY <2>1, <2>2
<1> QED BY <1>1, <1>2, <1>3 DEF q

\* One list after another.
LEMMA Joined ==
  ASSUME NEW p \in Boxes, NEW q \in Boxes
  PROVE  /\ p \o q \in Boxes /\ Len(p \o q) = Len(p) + Len(q)
         /\ Elems(p \o q) = Elems(p) \cup Elems(q)
         /\ InOrder(p) /\ InOrder(q) /\ Before(Elems(p), Elems(q)) => InOrder(p \o q)
<1> DEFINE r == p \o q
<1>1. /\ r \in Boxes /\ Len(r) = Len(p) + Len(q) /\ Len(p) \in Nat /\ Len(q) \in Nat
      /\ \A i \in 1 .. Len(p) + Len(q) : r[i] = IF i <= Len(p) THEN p[i] ELSE q[i - Len(p)]
  BY ConcatProperties, LenProperties DEF Boxes
<1> HIDE DEF r
<1>2. \A i \in 1 .. Len(p) : i \in 1 .. Len(r) /\ r[i] = p[i]
  BY <1>1
<1>3. \A i \in 1 .. Len(q) : Len(p) + i \in 1 .. Len(r) /\ r[Len(p) + i] = q[i]
  BY <1>1
<1>4. \A i \in 1 .. Len(r) :
        \/ i \in 1 .. Len(p) /\ r[i] = p[i]
        \/ i > Len(p) /\ i - Len(p) \in 1 .. Len(q) /\ r[i] = q[i - Len(p)]
  BY <1>1
<1>5. Elems(r) = Elems(p) \cup Elems(q)
  <2>1. \A x \in Elems(r) : x \in Elems(p) \cup Elems(q)
    BY <1>4 DEF Elems
  <2>2. \A x \in Elems(p) : x \in Elems(r)
    BY <1>2 DEF Elems
  <2>3. \A x \in Elems(q) : x \in Elems(r)
    BY <1>3 DEF Elems
  <2> QED BY <2>1, <2>2, <2>3
<1>6. ASSUME InOrder(p), InOrder(q), Before(Elems(p), Elems(q)) PROVE InOrder(r)
  <2> SUFFICES ASSUME NEW i \in 1 .. Len(r), NEW j \in 1 .. Len(r), i < j, Same(r[i], r[j])
               PROVE  r[i].nr < r[j].nr
    BY DEF InOrder
  <2>1. CASE j \in 1 .. Len(p) /\ r[j] = p[j]
    <3>1. i \in 1 .. Len(p) /\ r[i] = p[i]
      BY <1>2, <2>1
    <3> QED BY <3>1, <2>1, <1>6 DEF InOrder
  <2>2. CASE j > Len(p) /\ j - Len(p) \in 1 .. Len(q) /\ r[j] = q[j - Len(p)]
    <3>1. CASE i \in 1 .. Len(p) /\ r[i] = p[i]
      <4>1. r[i] \in Elems(p) /\ r[j] \in Elems(q)
        BY <3>1, <2>2 DEF Elems
      <4> QED BY <4>1, <1>6 DEF Before
    <3>2. CASE i > Len(p) /\ i - Len(p) \in 1 .. Len(q) /\ r[i] = q[i - Len(p)]
      <4>1. i - Len(p) < j - Len(p)
        BY <1>1
      <4> QED BY <4>1, <3>2, <2>2, <1>6 DEF InOrder
    <3> QED BY <3>1, <3>2, <1>4
  <2> QED BY <2>1, <2>2, <1>4
<1> QED BY <1>1, <1>5, <1>6 DEF r

\* Taking the first message.
LEMMA Taken ==
  ASSUME NEW p \in Boxes, p # <<>>
  PROVE  /\ Tail(p) \in Boxes
         /\ Head(p) \in Elems(p) /\ Elems(Tail(p)) \subseteq Elems(p)
         /\ InOrder(p) => InOrder(Tail(p)) /\ Before({Head(p)}, Elems(Tail(p)))
<1> DEFINE q == Tail(p)
<1>1. /\ q \in Boxes /\ Len(q) = Len(p) - 1 /\ Len(p) \in Nat \ {0}
      /\ \A i \in 1 .. Len(q) : q[i] = p[i + 1]
  BY HeadTailProperties, EmptySeq DEF Boxes
<1>2. Head(p) = p[1]
  BY DEF Boxes
<1> HIDE DEF q
<1>3. \A i \in 1 .. Len(q) : i + 1 \in 1 .. Len(p) /\ q[i] = p[i + 1]
  BY <1>1
<1>4. Head(p) \in Elems(p) /\ Elems(q) \subseteq Elems(p)
  BY <1>1, <1>2, <1>3 DEF Elems
<1>5. ASSUME InOrder(p) PROVE InOrder(q) /\ Before({Head(p)}, Elems(q))
  <2>1. \A i, j \in 1 .. Len(q) : i < j => i + 1 < j + 1
    BY <1>1
  <2>2. InOrder(q)
    BY <1>3, <1>5, <2>1 DEF InOrder
  <2>3. \A i \in 1 .. Len(q) : 1 < i + 1 /\ 1 \in 1 .. Len(p)
    BY <1>1
  <2>4. Before({p[1]}, Elems(q))
    BY <1>3, <1>5, <2>3 DEF InOrder, Before, Elems
  <2> QED BY <2>2, <2>4, <1>2
<1> QED BY <1>1, <1>4, <1>5 DEF q

\* Leaving out one message: where each of the others is from.
LEMMA LeftOut ==
  ASSUME NEW p \in Boxes, NEW i \in 1 .. Len(p)
  PROVE  /\ LeaveOut(p, i) \in Boxes /\ Len(LeaveOut(p, i)) = Len(p) - 1
         /\ \A j \in 1 .. Len(p) - 1 : LeaveOut(p, i)[j] = p[IF j < i THEN j ELSE j + 1]
<1>1. Len(p) \in Nat /\ \A j \in 1 .. Len(p) : p[j] \in Messages
  BY LenProperties, ElementOfSeq DEF Boxes
<1> DEFINE u == SubSeq(p, 1, i - 1)
           v == SubSeq(p, i + 1, Len(p))
<1>2. /\ u \in Boxes /\ Len(u) = i - 1 /\ \A j \in 1 .. i - 1 : u[j] = p[j]
  <2>1. i - 1 \in Int /\ 1 \in Int /\ \A j \in 1 .. i - 1 : p[j] \in Messages
    BY <1>1
  <2>2. /\ SubSeq(p, 1, i - 1) \in Seq(Messages)
        /\ Len(SubSeq(p, 1, i - 1)) = IF 1 <= i - 1 THEN (i - 1) - 1 + 1 ELSE 0
        /\ \A j \in 1 .. (i - 1) - 1 + 1 : SubSeq(p, 1, i - 1)[j] = p[1 + j - 1]
    BY <2>1, SubSeqProperties
  <2> QED BY <2>2 DEF Boxes
<1>3. /\ v \in Boxes /\ Len(v) = Len(p) - i /\ \A j \in 1 .. Len(p) - i : v[j] = p[i + j]
  <2>1. i + 1 \in Int /\ Len(p) \in Int /\ \A j \in i + 1 .. Len(p) : p[j] \in Messages
    BY <1>1
  <2>2. /\ SubSeq(p, i + 1, Len(p)) \in Seq(Messages)
        /\ Len(SubSeq(p, i + 1, Len(p)))
             = IF i + 1 <= Len(p) THEN Len(p) - (i + 1) + 1 ELSE 0
        /\ \A j \in 1 .. Len(p) - (i + 1) + 1 :
             SubSeq(p, i + 1, Len(p))[j] = p[(i + 1) + j - 1]
    BY <2>1, SubSeqProperties
  <2> QED BY <1>1, <2>2 DEF Boxes
<1> HIDE DEF u, v
<1>4. LeaveOut(p, i) = u \o v
  BY DEF LeaveOut, u, v
<1>5. /\ u \o v \in Boxes /\ Len(u \o v) = Len(u) + Len(v)
      /\ \A j \in 1 .. Len(u) + Len(v) :
           (u \o v)[j] = IF j <= Len(u) THEN u[j] ELSE v[j - Len(u)]
  BY <1>2, <1>3, ConcatProperties DEF Boxes
<1>6. ASSUME NEW j \in 1 .. Len(p) - 1
      PROVE  (u \o v)[j] = p[IF j < i THEN j ELSE j + 1]
  <2>1. CASE j < i
    BY <1>1, <1>2, <1>3, <1>5, <2>1
  <2>2. CASE ~(j < i)
    <3>1. (u \o v)[j] = v[j - (i - 1)] /\ j - (i - 1) \in 1 .. Len(p) - i
      BY <1>1, <1>2, <1>3, <1>5, <2>2
    <3>2. i + (j - (i - 1)) = j + 1
      BY <1>1
    <3> QED BY <3>1, <3>2, <1>3, <2>2
  <2> QED BY <2>1, <2>2
<1> QED BY <1>1, <1>2, <1>3, <1>4, <1>5, <1>6

\* Taking the first message that is handled.
LEMMA Removed ==
  ASSUME NEW p \in Boxes, InOrder(p), NEW i \in Hit(p)
  PROVE  /\ LeaveOut(p, i) \in Boxes /\ p[i] \in Elems(p) /\ p[i].kind \in want \cup {"linked"}
         /\ Elems(LeaveOut(p, i)) \subseteq Elems(p)
         /\ InOrder(LeaveOut(p, i)) /\ Before({p[i]}, Elems(LeaveOut(p, i)))
<1> DEFINE q == LeaveOut(p, i)
           at(j) == IF j < i THEN j ELSE j + 1
<1>1. i \in 1 .. Len(p) /\ Handles(p[i]) /\ \A j \in 1 .. i - 1 : ~Handles(p[j])
  BY DEF Hit
<1>2. Len(p) \in Nat
  BY LenProperties DEF Boxes
<1>3. q \in Boxes /\ Len(q) = Len(p) - 1 /\ \A j \in 1 .. Len(q) : q[j] = p[at(j)]
  BY <1>1, LeftOut
<1> HIDE DEF q
<1>4. \A j \in 1 .. Len(q) : at(j) \in 1 .. Len(p) /\ at(j) # i
  BY <1>1, <1>2, <1>3
<1>5. \A j, k \in 1 .. Len(q) : j < k => at(j) < at(k)
  BY <1>1, <1>2, <1>3
<1> HIDE DEF at
<1>6. Elems(q) \subseteq Elems(p) /\ p[i] \in Elems(p)
  BY <1>1, <1>3, <1>4 DEF Elems
<1>7. InOrder(q)
  BY <1>3, <1>4, <1>5 DEF InOrder
<1>8. Before({p[i]}, Elems(q))
  <2> SUFFICES ASSUME NEW j \in 1 .. Len(q), Same(p[i], p[at(j)])
               PROVE  p[i].nr < p[at(j)].nr
    BY <1>3 DEF Before, Elems
  <2>1. Handles(p[at(j)])
    BY <1>1 DEF Handles, Same
  <2>2. at(j) > i
    BY <2>1, <1>1, <1>2, <1>4
  <2> QED BY <2>2, <1>1, <1>4 DEF InOrder
<1> QED BY <1>1, <1>3, <1>6, <1>7, <1>8 DEF q, Handles

-----------------------------------------------------------------------------
(* How many messages of a list count against the limit                     *)

LEMMA UsersFew ==
  ASSUME NEW p \in Boxes
  PROVE  /\ IsFiniteSet(User(p)) /\ Users(p) \in Nat /\ Len(p) \in Nat /\ Users(p) <= Len(p)
         /\ (\A m \in Elems(p) : m.kind \in Standard) => Users(p) = Len(p)
<1>1. Len(p) \in Nat /\ IsFiniteSet(1 .. Len(p)) /\ Cardinality(1 .. Len(p)) = Len(p)
  <2>1. Len(p) \in Nat
    BY LenProperties DEF Boxes
  <2>2. 1 \in Int /\ Len(p) \in Int
    BY <2>1
  <2>3. /\ IsFiniteSet(1 .. Len(p))
        /\ Cardinality(1 .. Len(p)) = IF 1 > Len(p) THEN 0 ELSE Len(p) - 1 + 1
    BY <2>2, FS_Interval
  <2> QED BY <2>1, <2>3
<1>2. User(p) \in SUBSET (1 .. Len(p))
  BY DEF User
<1>3. IsFiniteSet(User(p)) /\ Cardinality(User(p)) <= Cardinality(1 .. Len(p))
  BY <1>1, <1>2, FS_Subset
<1>4. Cardinality(User(p)) \in Nat
  BY <1>3, FS_CardinalityType
<1>5. (\A m \in Elems(p) : m.kind \in Standard) => User(p) = 1 .. Len(p)
  BY DEF User, Elems
<1> QED BY <1>1, <1>3, <1>4, <1>5 DEF Users

LEMMA UsersNone == Users(<<>>) = 0
<1>1. User(<<>>) = {}
  BY DEF User
<1> QED BY <1>1, FS_EmptySet DEF Users

LEMMA UsersAdded ==
  ASSUME NEW p \in Boxes, NEW m \in Messages
  PROVE  /\ Users(Append(p, m)) <= Users(p) + 1
         /\ m.kind \notin Standard => Users(Append(p, m)) = Users(p)
<1> DEFINE q == Append(p, m)
<1>1. /\ Len(q) = Len(p) + 1 /\ Len(p) \in Nat
      /\ \A i \in 1 .. Len(p) : q[i] = p[i]
      /\ q[Len(p) + 1] = m
  BY AppendProperties, LenProperties DEF Boxes
<1> HIDE DEF q
<1>2. \A i \in 1 .. Len(q) : (i \in 1 .. Len(p) /\ q[i] = p[i]) \/ (i = Len(p) + 1 /\ q[i] = m)
  BY <1>1
<1>3. 1 .. Len(p) \subseteq 1 .. Len(q) /\ Len(p) + 1 \in 1 .. Len(q)
  BY <1>1
<1>4. CASE m.kind \in Standard
  <2>1. User(q) = User(p) \cup {Len(p) + 1}
    BY <1>1, <1>2, <1>3, <1>4 DEF User
  <2>2. Cardinality(User(p) \cup {Len(p) + 1})
          = IF Len(p) + 1 \in User(p) THEN Cardinality(User(p)) ELSE Cardinality(User(p)) + 1
    BY UsersFew, FS_AddElement
  <2>3. Users(q) = Users(p) \/ Users(q) = Users(p) + 1
    BY <2>1, <2>2 DEF Users
  <2>4. Users(p) \in Nat
    BY UsersFew
  <2> QED BY <2>3, <2>4, <1>4 DEF q
<1>5. CASE m.kind \notin Standard
  <2>1. User(q) = User(p)
    BY <1>1, <1>2, <1>3, <1>5 DEF User
  <2>2. Users(p) \in Nat
    BY UsersFew
  <2> QED BY <2>1, <2>2 DEF q, Users
<1> QED BY <1>4, <1>5

LEMMA UsersJoined ==
  ASSUME NEW p \in Boxes, NEW q \in Boxes
  PROVE  Users(p \o q) <= Users(p) + Users(q)
<1> DEFINE r == p \o q
           S == {x \in User(r) : x <= Len(p)}
           T == {x \in User(r) : x > Len(p)}
           f == [x \in T |-> x - Len(p)]
<1>1. /\ r \in Boxes /\ Len(r) = Len(p) + Len(q) /\ Len(p) \in Nat /\ Len(q) \in Nat
      /\ \A i \in 1 .. Len(p) + Len(q) : r[i] = IF i <= Len(p) THEN p[i] ELSE q[i - Len(p)]
  BY ConcatProperties, LenProperties DEF Boxes
<1> HIDE DEF r
<1>2. User(r) = S \cup T /\ S \cap T = {} /\ S \subseteq User(p)
  BY <1>1 DEF User
<1>3. f \in Injection(T, User(q))
  <2>1. \A x \in T : x \in Int /\ x - Len(p) \in User(q)
    BY <1>1 DEF User
  <2>2. \A x, y \in T : x - Len(p) = y - Len(p) => x = y
    BY <1>1, <2>1
  <2> QED BY <2>1, <2>2 DEF Injection, IsInjective
<1> HIDE DEF S, T, f
<1>4. IsFiniteSet(S) /\ Cardinality(S) <= Cardinality(User(p))
  BY <1>2, UsersFew, FS_Subset
<1>5. IsFiniteSet(T) /\ Cardinality(T) <= Cardinality(User(q))
  BY <1>3, UsersFew, FS_Injection
<1>6. Cardinality(S \cap T) = 0
  BY <1>2, FS_EmptySet
<1>7. Cardinality(S \cup T) = Cardinality(S) + Cardinality(T) - Cardinality(S \cap T)
  BY <1>4, <1>5, FS_Union
<1>8. Cardinality(S) \in Nat /\ Cardinality(T) \in Nat
  BY <1>4, <1>5, FS_CardinalityType
<1>9. Cardinality(User(p)) \in Nat /\ Cardinality(User(q)) \in Nat
  BY UsersFew DEF Users
<1>10. Cardinality(S \cup T) = Cardinality(S) + Cardinality(T)
  BY <1>6, <1>7, <1>8
<1> QED BY <1>2, <1>4, <1>5, <1>8, <1>9, <1>10 DEF r, Users

LEMMA UsersRemoved ==
  ASSUME NEW p \in Boxes, NEW i \in 1 .. Len(p)
  PROVE  Users(LeaveOut(p, i)) <= Users(p)
<1> DEFINE q == LeaveOut(p, i)
           f == [j \in User(q) |-> IF j < i THEN j ELSE j + 1]
<1>1. Len(p) \in Nat
  BY LenProperties DEF Boxes
<1>2. Len(q) = Len(p) - 1 /\ \A j \in 1 .. Len(q) : q[j] = p[IF j < i THEN j ELSE j + 1]
  BY LeftOut
<1> HIDE DEF q
<1>3. \A j \in User(q) : (IF j < i THEN j ELSE j + 1) \in User(p)
  BY <1>1, <1>2 DEF User
<1>4. \A j, k \in User(q) : (IF j < i THEN j ELSE j + 1) = (IF k < i THEN k ELSE k + 1) => j = k
  BY <1>1, <1>2 DEF User
<1>5. f \in Injection(User(q), User(p))
  BY <1>3, <1>4 DEF Injection, IsInjective
<1> HIDE DEF f
<1> QED BY <1>5, UsersFew, FS_Injection DEF q, Users

-----------------------------------------------------------------------------
(* The inductive invariant                                                 *)

BoxTypes ==
  /\ sharedBox \in Boxes /\ sharedPty \in Boxes /\ localBox \in Boxes /\ localPty \in Boxes
  /\ arrived \in Boxes /\ got \in Boxes
  /\ localMsgs \in Nat /\ putQueue \in Nat /\ maxMsgs \in Limits
  /\ sent \in [Senders -> Nat]
  /\ sender \in [Senders -> {"out", "asleep", "woken"}]
  /\ owner \in {"out", "scan", "lock", "asleep", "woken", "sort"}
  /\ want \subseteq Standard

\* Priority messages have lists of their own.
KindsApart ==
  /\ \A m \in Elems(sharedPty) \cup Elems(localPty) : m.kind = "priority"
  /\ \A m \in Elems(sharedBox) \cup Elems(arrived) \cup Elems(localBox) : m.kind # "priority"

\* Each list is in order, and each is ahead of those that it is filled from.
ListsInOrder ==
  /\ InOrder(got)
  /\ InOrder(localPty) /\ InOrder(sharedPty)
  /\ InOrder(localBox) /\ InOrder(arrived) /\ InOrder(sharedBox)
  /\ Before(Elems(got), Elems(localPty)) /\ Before(Elems(got), Elems(sharedPty))
  /\ Before(Elems(localPty), Elems(sharedPty))
  /\ Before(Elems(got), Elems(localBox)) /\ Before(Elems(got), Elems(arrived))
  /\ Before(Elems(got), Elems(sharedBox))
  /\ Before(Elems(localBox), Elems(arrived)) /\ Before(Elems(localBox), Elems(sharedBox))
  /\ Before(Elems(arrived), Elems(sharedBox))

Everywhere == Elems(got) \cup Elems(localPty) \cup Elems(sharedPty) \cup Elems(localBox)
                \cup Elems(arrived) \cup Elems(sharedBox)
SentBefore == \A m \in Everywhere : m.nr <= sent[m.from]
Order == KindsApart /\ ListsInOrder /\ SentBefore

\* The owner looks at what arrives, or waits, when m_localBox has nothing for it.
Scanned == owner \in {"lock", "asleep", "woken", "sort"} =>
             \A m \in Elems(localBox) : m.kind \notin want \cup {"linked"}
ArrivedOnlyInSort == owner # "sort" => arrived = <<>>

\* What the box holds more than m_localMsgs says has been taken at one time.
Counted ==
  /\ Users(sharedBox) <= LastLimit
  /\ Users(localBox) + Users(arrived) <= localMsgs + LastLimit
  /\ Users(localBox) + Users(sharedBox) + Users(arrived) <= 2 * LastLimit

Searching == Scanned /\ ArrivedOnlyInSort
BoxIInv == BoxTypes /\ Order /\ Searching /\ Counted /\ PutQueueCounts /\ NobodySleepsNextToWork

-----------------------------------------------------------------------------
(* The types, and the order                                                *)

\* Sets of naturals have a least element.
LEMMA Least ==
  ASSUME NEW S \in SUBSET Nat, S # {}
  PROVE  \E n \in S : \A m \in S : n <= m
<1> DEFINE R == OpToRel(<, Nat)
<1>1. IsWellFoundedOn(R, Nat)
  BY NatLessThanWellFounded
<1>2. \A x, y \in Nat : <<x, y>> \in R <=> x < y
  BY DEF OpToRel
<1> HIDE DEF R
<1>3. PICK n \in S : \A m \in S : ~(<<m, n>> \in R)
  BY <1>1, WFMin
<1>4. n \in Nat /\ \A m \in S : m \in Nat /\ ~(m < n)
  BY <1>2, <1>3
<1>5. \A m \in S : n <= m
  BY <1>4
<1> QED BY <1>5

LEMMA LimitsSpan ==
  /\ LastLimit \in Limits /\ FirstLimit \in Limits /\ Limits \subseteq Nat
  /\ \A n \in Limits : FirstLimit <= n /\ n <= LastLimit /\ n > 0
<1>1. \E n \in Limits : \A m \in Limits : n <= m
  BY LimitsOK, Least
<1>2. \E n \in Limits : \A m \in Limits : m <= n
  BY LimitsBounded
<1>3. FirstLimit \in Limits /\ \A n \in Limits : FirstLimit <= n
  BY <1>1 DEF FirstLimit
<1>4. LastLimit \in Limits /\ \A n \in Limits : n <= LastLimit
  BY <1>2 DEF LastLimit
<1> QED BY <1>3, <1>4, LimitsOK

LEMMA NextMessage ==
  ASSUME BoxTypes, NEW s \in Senders, sent[s] < Len(Script[s])
  PROVE  Msg(s) \in Messages /\ Msg(s).from = s /\ Msg(s).nr = sent[s] + 1
<1>1. Script[s] \in Seq(Kinds)
  BY ScriptOK DEF Kinds
<1>2. sent[s] \in Nat /\ Len(Script[s]) \in Nat
  BY <1>1, LenProperties DEF BoxTypes
<1>3. sent[s] + 1 \in 1 .. Len(Script[s])
  BY <1>2
<1>4. Script[s][sent[s] + 1] \in Kinds
  BY <1>1, <1>3, ElementOfSeq
<1> QED BY <1>2, <1>4 DEF Msg, Messages

\* The message that is put next is later than all that were put before.
LEMMA NextIsLast ==
  ASSUME BoxTypes, SentBefore, NEW s \in Senders, sent[s] < Len(Script[s]),
         NEW S \in SUBSET Everywhere
  PROVE  Before(S, {Msg(s)})
<1>1. Msg(s).from = s /\ Msg(s).nr = sent[s] + 1
  BY NextMessage
<1>2. ASSUME NEW x \in S, x.from = s PROVE x.nr < sent[s] + 1
  <2>1. x \in Messages
    BY ElemsTypes DEF Everywhere, BoxTypes
  <2>2. x.nr \in Nat /\ sent[s] \in Nat
    BY <2>1 DEF Messages, BoxTypes
  <2> QED BY <1>2, <2>2 DEF SentBefore
<1> QED BY <1>1, <1>2 DEF Before, Same

LEMMA TypesInit == BoxInit => BoxTypes
<1>1. <<>> \in Boxes
  BY EmptySeq DEF Boxes
<1> QED BY <1>1 DEF BoxInit, BoxTypes

LEMMA TypesStep ==
  ASSUME BoxTypes, Order, PutQueueCounts, [BoxNext]_boxVars
  PROVE  BoxTypes'
<1>1. <<>> \in Boxes
  BY EmptySeq DEF Boxes
<1>2. ASSUME NEW s \in Senders, sender[s] = "woken" PROVE putQueue - 1 \in Nat
  <2> DEFINE W == {t \in Senders : sender[t] # "out"}
  <2>1. IsFiniteSet(W) /\ W # {}
    BY <1>2, SendersOK, FS_Subset
  <2>2. putQueue = Cardinality(W)
    BY DEF PutQueueCounts
  <2> HIDE DEF W
  <2>3. Cardinality(W) \in Nat /\ Cardinality(W) # 0
    BY <2>1, FS_CardinalityType, FS_EmptySet
  <2> QED BY <2>2, <2>3
<1>3. ASSUME NEW s \in Senders, BoxPut(s) PROVE BoxTypes'
  <2>1. Msg(s) \in Messages
    BY <1>3, NextMessage DEF BoxPut
  <2>2. Append(sharedBox, Msg(s)) \in Boxes /\ Append(sharedPty, Msg(s)) \in Boxes
    BY <2>1, Added DEF BoxTypes
  <2>3. /\ localBox' = localBox /\ localPty' = localPty /\ arrived' = arrived
        /\ localMsgs' = localMsgs /\ maxMsgs' = maxMsgs /\ want' = want /\ got' = got
    BY <1>3 DEF BoxPut
  <2>4. sent' = [sent EXCEPT ![s] = @ + 1] \/ sent' = sent
    BY <1>3 DEF BoxPut, PutBox, PutPty, PutAborted, PutWaits, PutClosed, Accept, Sent
  <2>5. /\ sender' \in {sender, [sender EXCEPT ![s] = "out"], [sender EXCEPT ![s] = "asleep"]}
        /\ \/ putQueue' \in {putQueue, putQueue + 1}
           \/ sender[s] = "woken" /\ putQueue' = putQueue - 1
    BY <1>3 DEF BoxPut, PutBox, PutPty, PutAborted, PutWaits, PutClosed, Accept
  <2>8. sender' \in [Senders -> {"out", "asleep", "woken"}] /\ putQueue' \in Nat
    BY <1>2, <2>5 DEF BoxTypes
  <2>9. sent' \in [Senders -> Nat]
    BY <2>4 DEF BoxTypes
  <2>6. owner' = owner \/ owner' = "woken"
    BY <1>3 DEF BoxPut, PutBox, PutPty, PutAborted, PutWaits, PutClosed, Accept, NotifyOwner
  <2>7. /\ sharedBox' \in {sharedBox, Append(sharedBox, Msg(s))}
        /\ sharedPty' \in {sharedPty, Append(sharedPty, Msg(s))}
    BY <1>3 DEF BoxPut, PutBox, PutPty, PutAborted, PutWaits, PutClosed, Accept
  <2> QED BY <2>2, <2>3, <2>6, <2>7, <2>8, <2>9 DEF BoxTypes
<1>4. ASSUME NEW s \in Senders, SpuriousPut(s) PROVE BoxTypes'
  BY <1>4 DEF SpuriousPut, listVars, BoxTypes
<1>5. ASSUME NEW w \in Wants, Receive(w) PROVE BoxTypes'
  BY <1>5, WantsOK DEF Receive, BoxTypes
<1>6. ASSUME NEW n \in Limits, NEW call, SetMaxMsgs(n, call) PROVE BoxTypes'
  BY <1>6 DEF SetMaxMsgs, listVars, BoxTypes
<1>7. ASSUME NEW m \in Messages, Handle(m)
      PROVE  owner' = "out" /\ want' = {} /\ got' \in Boxes
  BY <1>7, Added DEF Handle, BoxTypes
<1>8. \A p \in {localBox, localPty, arrived} : Elems(p) \subseteq Messages
  BY ElemsTypes DEF BoxTypes
<1>9. localPty # <<>> => Head(localPty) \in Messages /\ Tail(localPty) \in Boxes
  BY <1>8, Taken DEF BoxTypes
<1>10. \A i \in Hit(localBox) : localBox[i] \in Messages /\ LeaveOut(localBox, i) \in Boxes
  BY <1>8, Removed DEF BoxTypes, Order, ListsInOrder
<1>11. \A i \in Hit(arrived) : arrived[i] \in Messages /\ LeaveOut(arrived, i) \in Boxes
  BY <1>8, Removed DEF BoxTypes, Order, ListsInOrder
<1>12. CASE ScanLocal
  BY <1>7, <1>9, <1>10, <1>12 DEF ScanLocal, BoxTypes
<1>13. CASE WaitForMessage
  <2>1. Len(localBox) \in Nat
    BY LenProperties DEF BoxTypes, Boxes
  <2> QED BY <1>13, <2>1 DEF WaitForMessage, WakeSenders, listVars, BoxTypes
<1>14. CASE TakeArrived
  <2>1. Len(localBox) \in Nat
    BY LenProperties DEF BoxTypes, Boxes
  <2>2. localPty \o sharedPty \in Boxes
    BY Joined DEF BoxTypes
  <2> QED BY <1>1, <1>14, <2>1, <2>2 DEF TakeArrived, BoxTypes
<1>15. CASE SortArrived
  <2>1. localBox \o arrived \in Boxes
    BY Joined DEF BoxTypes
  <2>2. \A i \in Hit(arrived) : localBox \o LeaveOut(arrived, i) \in Boxes
    BY <1>11, Joined DEF BoxTypes
  <2> QED BY <1>1, <1>7, <1>9, <1>11, <1>15, <2>1, <2>2 DEF SortArrived, BoxTypes
<1>16. CASE BoxClose
  BY <1>1, <1>16 DEF BoxClose, BoxTypes
<1>17. CASE UNCHANGED boxVars
  BY <1>17 DEF boxVars, BoxTypes
<1> QED BY <1>3, <1>4, <1>5, <1>6, <1>12, <1>13, <1>14, <1>15, <1>16, <1>17 DEF BoxNext, OwnerStep

-----------------------------------------------------------------------------
(* The order                                                               *)

LEMMA OrderInit == BoxInit => Order
BY ElemsNone DEF BoxInit, Order, KindsApart, ListsInOrder, InOrder, Before, SentBefore, Everywhere

\* A put() adds a message at the end of one of the two shared lists.
LEMMA OrderPut ==
  ASSUME BoxTypes, Order, NEW s \in Senders, BoxPut(s)
  PROVE  Order'
<1> DEFINE m == Msg(s)
<1>1. m \in Messages /\ m.from = s /\ m.nr = sent[s] + 1
  BY NextMessage DEF BoxPut
<1>2. \A S \in SUBSET Everywhere : Before(S, {m})
  BY NextIsLast DEF BoxPut, Order
<1> HIDE DEF m
<1>3. /\ localBox' = localBox /\ localPty' = localPty /\ arrived' = arrived /\ got' = got
  BY DEF BoxPut
<1>4. \/ sent' = [sent EXCEPT ![s] = @ + 1]
      \/ sent' = sent /\ sharedBox' = sharedBox /\ sharedPty' = sharedPty
  BY DEF BoxPut, PutBox, PutPty, PutAborted, PutWaits, PutClosed, Accept, Sent
<1>5. ASSUME NEW x \in Everywhere PROVE x.nr <= sent'[x.from]
  <2>1. x \in Messages
    BY ElemsTypes DEF Everywhere, BoxTypes
  <2> QED BY <2>1, <1>4 DEF Messages, BoxTypes, Order, SentBefore
<1>6. m.nr <= [sent EXCEPT ![s] = @ + 1][m.from]
  BY <1>1 DEF BoxTypes
<1>7. CASE sharedBox' = sharedBox /\ sharedPty' = sharedPty
  BY <1>3, <1>5, <1>7 DEF Order, KindsApart, ListsInOrder, SentBefore, Everywhere
<1>8. CASE /\ m.kind # "priority" /\ sharedBox' = Append(sharedBox, m)
           /\ sharedPty' = sharedPty /\ sent' = [sent EXCEPT ![s] = @ + 1]
  <2>1. Elems(sharedBox') = Elems(sharedBox) \cup {m}
    BY <1>1, <1>8, Added DEF BoxTypes
  <2>2. Elems(sharedBox) \subseteq Everywhere
    BY DEF Everywhere
  <2>3. InOrder(sharedBox')
    BY <1>1, <1>2, <1>8, <2>2, Added DEF BoxTypes, Order, ListsInOrder
  <2>4. KindsApart'
    BY <1>3, <1>8, <2>1 DEF Order, KindsApart
  <2>5. /\ Before(Elems(got), {m}) /\ Before(Elems(localBox), {m})
        /\ Before(Elems(arrived), {m})
    BY <1>2 DEF Everywhere
  <2>6. ListsInOrder'
    BY <1>3, <1>8, <2>1, <2>3, <2>5 DEF Order, ListsInOrder, Before
  <2>7. SentBefore'
    BY <1>3, <1>5, <1>6, <1>8, <2>1 DEF SentBefore, Everywhere
  <2> QED BY <2>4, <2>6, <2>7 DEF Order
<1>9. CASE /\ m.kind = "priority" /\ sharedPty' = Append(sharedPty, m)
           /\ sharedBox' = sharedBox /\ sent' = [sent EXCEPT ![s] = @ + 1]
  <2>1. Elems(sharedPty') = Elems(sharedPty) \cup {m}
    BY <1>1, <1>9, Added DEF BoxTypes
  <2>2. Elems(sharedPty) \subseteq Everywhere
    BY DEF Everywhere
  <2>3. InOrder(sharedPty')
    BY <1>1, <1>2, <1>9, <2>2, Added DEF BoxTypes, Order, ListsInOrder
  <2>4. KindsApart'
    BY <1>3, <1>9, <2>1 DEF Order, KindsApart
  <2>5. Before(Elems(got), {m}) /\ Before(Elems(localPty), {m})
    BY <1>2 DEF Everywhere
  <2>6. ListsInOrder'
    BY <1>3, <1>9, <2>1, <2>3, <2>5 DEF Order, ListsInOrder, Before
  <2>7. SentBefore'
    BY <1>3, <1>5, <1>6, <1>9, <2>1 DEF SentBefore, Everywhere
  <2> QED BY <2>4, <2>6, <2>7 DEF Order
<1> QED BY <1>7, <1>8, <1>9
        DEF m, BoxPut, PutBox, PutPty, PutAborted, PutWaits, PutClosed, Accept, Sent

\* The owner handles the first priority message.
LEMMA OrderPriority ==
  ASSUME BoxTypes, Order, localPty # <<>>, localPty' = Tail(localPty), Handle(Head(localPty)),
         sharedBox' = sharedBox, sharedPty' = sharedPty, sent' = sent,
         \/ localBox' = localBox /\ arrived' = arrived
         \/ localBox' = localBox \o arrived /\ arrived' = <<>>
  PROVE  Order'
<1> DEFINE m == Head(localPty)
<1>1. /\ m \in Elems(localPty) /\ Elems(localPty') \subseteq Elems(localPty)
      /\ InOrder(localPty') /\ Before({m}, Elems(localPty'))
  BY Taken DEF BoxTypes, Order, ListsInOrder
<1>2. m \in Messages /\ m.kind = "priority"
  BY <1>1, ElemsTypes DEF BoxTypes, Order, KindsApart
<1> HIDE DEF m
<1>3. Before(Elems(got), {m})
  BY <1>1 DEF Order, ListsInOrder, Before
<1>4. Elems(got') = Elems(got) \cup {m} /\ InOrder(got')
  BY <1>2, <1>3, Added DEF Handle, m, BoxTypes, Order, ListsInOrder
<1>5. Elems(localBox') \cup Elems(arrived') = Elems(localBox) \cup Elems(arrived)
  <2>1. Elems(localBox \o arrived) = Elems(localBox) \cup Elems(arrived)
    BY Joined DEF BoxTypes
  <2>2. Elems(<<>>) = {}
    BY ElemsNone
  <2> QED BY <2>1, <2>2
<1>6. /\ InOrder(localBox') /\ InOrder(arrived')
      /\ Before(Elems(localBox'), Elems(arrived'))
  <2>1. InOrder(localBox \o arrived)
    BY Joined DEF BoxTypes, Order, ListsInOrder
  <2>2. InOrder(<<>>) /\ \A S : Before(S, Elems(<<>>))
    BY ElemsNone DEF InOrder, Before
  <2> QED BY <2>1, <2>2 DEF Order, ListsInOrder
<1>7. KindsApart'
  BY <1>1, <1>5 DEF Order, KindsApart
<1>8. /\ Before(Elems(got'), Elems(localPty')) /\ Before(Elems(got'), Elems(sharedPty'))
      /\ Before(Elems(localPty'), Elems(sharedPty'))
  BY <1>1, <1>4 DEF Order, ListsInOrder, Before
<1>9. \A x \in Elems(localBox) \cup Elems(arrived) \cup Elems(sharedBox) : ~Same(m, x)
  BY <1>2 DEF Order, KindsApart, Same
<1>10. /\ Before(Elems(got'), Elems(localBox')) /\ Before(Elems(got'), Elems(arrived'))
       /\ Before(Elems(got'), Elems(sharedBox'))
  BY <1>4, <1>5, <1>9 DEF Order, ListsInOrder, Before
<1>11. /\ Before(Elems(localBox'), Elems(sharedBox')) /\ Before(Elems(arrived'), Elems(sharedBox'))
  BY <1>5 DEF Order, ListsInOrder, Before
<1>12. ListsInOrder'
  BY <1>1, <1>4, <1>6, <1>8, <1>10, <1>11 DEF Order, ListsInOrder
<1>13. SentBefore'
  BY <1>1, <1>4, <1>5 DEF Order, SentBefore, Everywhere
<1> QED BY <1>7, <1>12, <1>13 DEF Order

\* The owner handles the first message of m_localBox that it has a handler for.
LEMMA OrderLocal ==
  ASSUME BoxTypes, Order, NEW i \in Hit(localBox), localBox' = LeaveOut(localBox, i),
         Handle(localBox[i]), arrived' = arrived, localPty' = localPty,
         sharedBox' = sharedBox, sharedPty' = sharedPty, sent' = sent
  PROVE  Order'
<1> DEFINE m == localBox[i]
<1>1. /\ m \in Elems(localBox) /\ Elems(localBox') \subseteq Elems(localBox)
      /\ InOrder(localBox') /\ Before({m}, Elems(localBox'))
  BY Removed DEF BoxTypes, Order, ListsInOrder
<1>2. m \in Messages /\ m.kind # "priority"
  BY <1>1, ElemsTypes DEF BoxTypes, Order, KindsApart
<1> HIDE DEF m
<1>3. Before(Elems(got), {m})
  BY <1>1 DEF Order, ListsInOrder, Before
<1>4. Elems(got') = Elems(got) \cup {m} /\ InOrder(got')
  BY <1>2, <1>3, Added DEF Handle, m, BoxTypes, Order, ListsInOrder
<1>5. KindsApart'
  BY <1>1 DEF Order, KindsApart
<1>6. \A x \in Elems(localPty) \cup Elems(sharedPty) : ~Same(m, x)
  BY <1>2 DEF Order, KindsApart, Same
<1>7. Before(Elems(got'), Elems(localPty')) /\ Before(Elems(got'), Elems(sharedPty'))
  BY <1>4, <1>6 DEF Order, ListsInOrder, Before
<1>8. /\ Before(Elems(got'), Elems(localBox')) /\ Before(Elems(got'), Elems(arrived'))
      /\ Before(Elems(got'), Elems(sharedBox'))
  BY <1>1, <1>4 DEF Order, ListsInOrder, Before
<1>9. /\ Before(Elems(localBox'), Elems(arrived')) /\ Before(Elems(localBox'), Elems(sharedBox'))
  BY <1>1 DEF Order, ListsInOrder, Before
<1>10. ListsInOrder'
  BY <1>1, <1>4, <1>7, <1>8, <1>9 DEF Order, ListsInOrder
<1>11. SentBefore'
  BY <1>1, <1>4 DEF Order, SentBefore, Everywhere
<1> QED BY <1>5, <1>10, <1>11 DEF Order

\* The owner handles the first message of those that arrived.
LEMMA OrderArrived ==
  ASSUME BoxTypes, Order, Searching, owner = "sort", NEW i \in Hit(arrived),
         localBox' = localBox \o LeaveOut(arrived, i), Handle(arrived[i]), arrived' = <<>>,
         localPty' = localPty, sharedBox' = sharedBox, sharedPty' = sharedPty, sent' = sent
  PROVE  Order'
<1> DEFINE m == arrived[i]
           rest == LeaveOut(arrived, i)
<1>1. /\ m \in Elems(arrived) /\ Elems(rest) \subseteq Elems(arrived) /\ rest \in Boxes
      /\ m.kind \in want \cup {"linked"}
      /\ InOrder(rest) /\ Before({m}, Elems(rest))
  BY Removed DEF BoxTypes, Order, ListsInOrder
<1>2. m \in Messages /\ m.kind # "priority"
  BY <1>1, ElemsTypes DEF BoxTypes, Order, KindsApart
<1> HIDE DEF m, rest
<1>3. Before(Elems(got), {m})
  BY <1>1 DEF Order, ListsInOrder, Before
<1>4. Elems(got') = Elems(got) \cup {m} /\ InOrder(got')
  BY <1>2, <1>3, Added DEF Handle, m, BoxTypes, Order, ListsInOrder
<1>5. Before(Elems(localBox), Elems(rest))
  BY <1>1 DEF Order, ListsInOrder, Before
<1>6. Elems(localBox') = Elems(localBox) \cup Elems(rest) /\ InOrder(localBox')
  BY <1>1, <1>5, Joined DEF rest, BoxTypes, Order, ListsInOrder
<1>7. Elems(arrived') = {} /\ InOrder(arrived')
  BY ElemsNone DEF InOrder
<1>8. KindsApart'
  BY <1>1, <1>6, <1>7 DEF Order, KindsApart
<1>9. \A x \in Elems(localPty) \cup Elems(sharedPty) : ~Same(m, x)
  BY <1>2 DEF Order, KindsApart, Same
<1>10. \A x \in Elems(localBox) : ~Same(m, x)
  BY <1>1 DEF Searching, Scanned, Same
<1>11. Before(Elems(got'), Elems(localPty')) /\ Before(Elems(got'), Elems(sharedPty'))
  BY <1>4, <1>9 DEF Order, ListsInOrder, Before
<1>12. Before(Elems(got'), Elems(localBox'))
  BY <1>1, <1>4, <1>6, <1>10 DEF Order, ListsInOrder, Before
<1>13. Before(Elems(got'), Elems(sharedBox')) /\ Before(Elems(localBox'), Elems(sharedBox'))
  BY <1>1, <1>4, <1>6 DEF Order, ListsInOrder, Before
<1>14. /\ Before(Elems(got'), Elems(arrived')) /\ Before(Elems(localBox'), Elems(arrived'))
       /\ Before(Elems(arrived'), Elems(sharedBox'))
  BY <1>7 DEF Before
<1>15. ListsInOrder'
  BY <1>4, <1>6, <1>7, <1>11, <1>12, <1>13, <1>14 DEF Order, ListsInOrder
<1>16. SentBefore'
  BY <1>1, <1>4, <1>6, <1>7 DEF Order, SentBefore, Everywhere
<1> QED BY <1>8, <1>15, <1>16 DEF Order

\* The owner handles nothing of what has arrived.
LEMMA OrderMoved ==
  ASSUME BoxTypes, Order, localBox' = localBox \o arrived, arrived' = <<>>, got' = got,
         localPty' = localPty, sharedBox' = sharedBox, sharedPty' = sharedPty, sent' = sent
  PROVE  Order'
<1>1. /\ Elems(localBox') = Elems(localBox) \cup Elems(arrived) /\ InOrder(localBox')
  BY Joined DEF BoxTypes, Order, ListsInOrder
<1>2. Elems(arrived') = {} /\ InOrder(arrived')
  BY ElemsNone DEF InOrder
<1>3. KindsApart'
  BY <1>1, <1>2 DEF Order, KindsApart
<1>4. ListsInOrder'
  BY <1>1, <1>2 DEF Order, ListsInOrder, Before
<1>5. SentBefore'
  BY <1>1, <1>2 DEF Order, SentBefore, Everywhere
<1> QED BY <1>3, <1>4, <1>5 DEF Order

\* The owner takes what has arrived.
LEMMA OrderTaken ==
  ASSUME BoxTypes, Order, Searching, TakeArrived
  PROVE  Order'
<1>1. /\ localPty' = localPty \o sharedPty /\ sharedPty' = <<>>
      /\ arrived' = sharedBox /\ sharedBox' = <<>>
      /\ localBox' = localBox /\ got' = got /\ sent' = sent
  BY DEF TakeArrived
<1>2. arrived = <<>> /\ InOrder(<<>>) /\ Elems(<<>>) = {}
  BY ElemsNone DEF TakeArrived, Searching, ArrivedOnlyInSort, InOrder
<1>3. Elems(localPty') = Elems(localPty) \cup Elems(sharedPty) /\ InOrder(localPty')
  BY <1>1, Joined DEF BoxTypes, Order, ListsInOrder
<1>4. KindsApart'
  BY <1>1, <1>2, <1>3 DEF Order, KindsApart
<1>5. ListsInOrder'
  BY <1>1, <1>2, <1>3 DEF Order, ListsInOrder, Before
<1>6. SentBefore'
  BY <1>1, <1>2, <1>3 DEF Order, SentBefore, Everywhere
<1> QED BY <1>4, <1>5, <1>6 DEF Order

LEMMA OrderClosed ==
  ASSUME Order, BoxClose
  PROVE  Order'
<1>1. /\ localBox' = <<>> /\ sharedBox' = <<>> /\ arrived' = arrived /\ got' = got
      /\ localPty' = localPty /\ sharedPty' = sharedPty /\ sent' = sent
  BY DEF BoxClose
<1>2. InOrder(<<>>) /\ Elems(<<>>) = {}
  BY ElemsNone DEF InOrder
<1>3. KindsApart'
  BY <1>1, <1>2 DEF Order, KindsApart
<1>4. ListsInOrder'
  BY <1>1, <1>2 DEF Order, ListsInOrder, Before
<1>5. SentBefore'
  BY <1>1, <1>2 DEF Order, SentBefore, Everywhere
<1> QED BY <1>3, <1>4, <1>5 DEF Order

LEMMA OrderStep ==
  ASSUME BoxTypes, Order, Searching, [BoxNext]_boxVars
  PROVE  Order'
<1>1. ASSUME UNCHANGED listVars, UNCHANGED <<got, sent>> PROVE Order'
  BY <1>1 DEF listVars, Order, KindsApart, ListsInOrder, SentBefore, Everywhere
<1>2. ASSUME NEW s \in Senders, BoxPut(s) \/ SpuriousPut(s) PROVE Order'
  BY <1>1, <1>2, OrderPut DEF SpuriousPut
<1>3. ASSUME NEW w \in Wants, Receive(w) PROVE Order'
  BY <1>1, <1>3 DEF Receive, listVars
<1>4. ASSUME NEW n \in Limits, NEW call, SetMaxMsgs(n, call) PROVE Order'
  BY <1>1, <1>4 DEF SetMaxMsgs
<1>5. CASE ScanLocal
  <2>1. /\ sharedBox' = sharedBox /\ sharedPty' = sharedPty /\ sent' = sent
        /\ arrived' = arrived
    BY <1>5 DEF ScanLocal
  <2>2. CASE localPty # <<>> /\ localPty' = Tail(localPty) /\ Handle(Head(localPty))
               /\ localBox' = localBox
    BY <2>1, <2>2, OrderPriority
  <2>3. CASE /\ localPty' = localPty
             /\ \E i \in Hit(localBox) :
                  localBox' = LeaveOut(localBox, i) /\ Handle(localBox[i])
    BY <2>1, <2>3, OrderLocal
  <2>4. CASE UNCHANGED <<localBox, localPty, got>>
    BY <1>1, <2>1, <2>4 DEF listVars
  <2> QED BY <1>5, <2>2, <2>3, <2>4 DEF ScanLocal
<1>6. CASE WaitForMessage
  BY <1>1, <1>6 DEF WaitForMessage
<1>7. CASE TakeArrived
  BY <1>7, OrderTaken
<1>8. CASE SortArrived
  <2>1. /\ sharedBox' = sharedBox /\ sharedPty' = sharedPty /\ sent' = sent
        /\ arrived' = <<>> /\ owner = "sort"
    BY <1>8 DEF SortArrived
  <2>2. CASE localPty # <<>> /\ localPty' = Tail(localPty) /\ Handle(Head(localPty))
               /\ localBox' = localBox \o arrived
    BY <2>1, <2>2, OrderPriority
  <2>3. CASE /\ localPty' = localPty
             /\ \E i \in Hit(arrived) :
                  localBox' = localBox \o LeaveOut(arrived, i) /\ Handle(arrived[i])
    BY <2>1, <2>3, OrderArrived
  <2>4. CASE localPty' = localPty /\ localBox' = localBox \o arrived /\ got' = got
    BY <2>1, <2>4, OrderMoved
  <2> QED BY <1>8, <2>2, <2>3, <2>4 DEF SortArrived
<1>9. CASE BoxClose
  BY <1>9, OrderClosed
<1>10. CASE UNCHANGED boxVars
  BY <1>1, <1>10 DEF boxVars, listVars
<1> QED BY <1>2, <1>3, <1>4, <1>5, <1>6, <1>7, <1>8, <1>9, <1>10 DEF BoxNext, OwnerStep

-----------------------------------------------------------------------------
(* What the owner has looked at, and how much there is                     *)

LEMMA SearchingInit == BoxInit => Searching
BY DEF BoxInit, Searching, Scanned, ArrivedOnlyInSort

LEMMA SearchingStep ==
  ASSUME Searching, [BoxNext]_boxVars
  PROVE  Searching'
<1>1. ASSUME localBox' = localBox, arrived' = arrived, want' = want,
             owner' = owner \/ (owner = "asleep" /\ owner' = "woken")
      PROVE  Searching'
  BY <1>1 DEF Searching, Scanned, ArrivedOnlyInSort
<1>2. ASSUME NEW s \in Senders, BoxPut(s) \/ SpuriousPut(s) PROVE Searching'
  BY <1>1, <1>2 DEF BoxPut, PutBox, PutPty, PutAborted, PutWaits, PutClosed, Accept, NotifyOwner,
                    SpuriousPut, listVars
<1>3. ASSUME NEW w \in Wants, Receive(w) PROVE Searching'
  BY <1>3 DEF Receive, Searching, Scanned, ArrivedOnlyInSort
<1>4. ASSUME NEW n \in Limits, NEW call, SetMaxMsgs(n, call) PROVE Searching'
  BY <1>1, <1>4 DEF SetMaxMsgs, listVars
<1>5. CASE ScanLocal
  <2>1. arrived' = <<>> /\ owner' \in {"out", "lock"}
    BY <1>5 DEF ScanLocal, Handle, Searching, ArrivedOnlyInSort
  <2>2. CASE owner' = "lock"
    <3>1. NoHit(localBox) /\ localBox' = localBox /\ want' = want
      BY <1>5, <2>2 DEF ScanLocal, Handle
    <3>2. \A m \in Elems(localBox) : m.kind \notin want \cup {"linked"}
      BY <3>1 DEF NoHit, Handles, Elems
    <3> QED BY <2>1, <3>1, <3>2 DEF Searching, Scanned, ArrivedOnlyInSort
  <2> QED BY <2>1, <2>2 DEF Searching, Scanned, ArrivedOnlyInSort
<1>6. CASE WaitForMessage \/ TakeArrived
  BY <1>6 DEF WaitForMessage, TakeArrived, listVars, Searching, Scanned, ArrivedOnlyInSort
<1>7. CASE SortArrived
  BY <1>7 DEF SortArrived, Handle, Searching, Scanned, ArrivedOnlyInSort
<1>8. CASE BoxClose
  BY <1>8 DEF BoxClose, Searching, Scanned, ArrivedOnlyInSort
<1>9. CASE UNCHANGED boxVars
  BY <1>1, <1>9 DEF boxVars
<1> QED BY <1>2, <1>3, <1>4, <1>5, <1>6, <1>7, <1>8, <1>9 DEF BoxNext, OwnerStep

LEMMA CountedInit == BoxInit => Counted
BY UsersNone, LimitsSpan DEF BoxInit, Counted

LEMMA CountedStep ==
  ASSUME BoxTypes, Order, Searching, Counted, [BoxNext]_boxVars
  PROVE  Counted'
<1> DEFINE l == Users(localBox)
           a == Users(arrived)
           b == Users(sharedBox)
<1>1. /\ l \in Nat /\ a \in Nat /\ b \in Nat /\ b <= Len(sharedBox) /\ Len(sharedBox) \in Nat
      /\ l <= Len(localBox) /\ Len(localBox) \in Nat
  BY UsersFew DEF BoxTypes
<1>2. LastLimit \in Nat /\ maxMsgs \in Nat /\ maxMsgs <= LastLimit /\ localMsgs \in Nat
  BY LimitsSpan DEF BoxTypes
<1>3. b <= LastLimit /\ l + a <= localMsgs + LastLimit /\ l + b + a <= 2 * LastLimit
  BY DEF Counted
<1>4. owner # "sort" => a = 0
  BY UsersNone DEF Searching, ArrivedOnlyInSort
<1> HIDE DEF l, a, b
<1>5. ASSUME NEW l2 \in Nat, NEW a2 \in Nat, NEW b2 \in Nat, NEW n \in Nat,
             Users(localBox') = l2, Users(arrived') = a2, Users(sharedBox') = b2,
             localMsgs' = n,
             b2 <= LastLimit, l2 + a2 <= n + LastLimit, l2 + b2 + a2 <= 2 * LastLimit
      PROVE  Counted'
  BY <1>5 DEF Counted
<1>6. ASSUME UNCHANGED <<localBox, arrived, sharedBox, localMsgs>> PROVE Counted'
  BY <1>6 DEF Counted
<1>7. ASSUME NEW s \in Senders, BoxPut(s) PROVE Counted'
  <2> DEFINE m == Msg(s)
  <2>1. m \in Messages
    BY <1>7, NextMessage DEF BoxPut
  <2> HIDE DEF m
  <2>2. UNCHANGED <<localBox, arrived, localMsgs>>
    BY <1>7 DEF BoxPut
  <2>3. CASE sharedBox' = sharedBox
    BY <1>6, <2>2, <2>3
  <2>4. CASE /\ sharedBox' = Append(sharedBox, m) /\ m.kind # "priority"
             /\ ~mboxFull \/ m.kind \in Notices
    <3>1. Users(Append(sharedBox, m)) \in Nat
      BY <2>1, Added, UsersFew DEF BoxTypes
    <3>2. /\ Users(Append(sharedBox, m)) <= b + 1
          /\ m.kind \notin Standard => Users(Append(sharedBox, m)) = b
      BY <2>1, UsersAdded DEF BoxTypes, b
    <3>3. CASE ~mboxFull
      <4>1. localMsgs + Len(sharedBox) < maxMsgs
        BY <1>1, <1>2, <3>3 DEF mboxFull
      <4>2. localMsgs + b + 1 <= LastLimit
        BY <1>1, <1>2, <4>1
      <4> HIDE DEF Counted
      <4>3. Users(Append(sharedBox, m)) <= LastLimit
        BY <1>1, <1>2, <3>1, <3>2, <4>2
      <4>4. l + Users(Append(sharedBox, m)) + a <= 2 * LastLimit
        BY <1>1, <1>2, <1>3, <3>1, <3>2, <4>2
      <4> QED BY <1>1, <1>2, <1>3, <1>5, <2>2, <2>4, <3>1, <4>3, <4>4 DEF l, a
    <3>4. CASE m.kind \in Notices
      <4>1. Users(sharedBox') = b
        BY <2>4, <3>2, <3>4 DEF Standard, Notices
      <4> QED BY <1>1, <1>2, <1>3, <1>5, <2>2, <4>1 DEF l, a
    <3> QED BY <2>4, <3>3, <3>4
  <2> QED BY <1>7, <2>3, <2>4
          DEF m, BoxPut, PutBox, PutPty, PutAborted, PutWaits, PutClosed, Accept
<1>8. ASSUME NEW s \in Senders, SpuriousPut(s) PROVE Counted'
  BY <1>6, <1>8 DEF SpuriousPut, listVars
<1>9. ASSUME NEW w \in Wants, Receive(w) PROVE Counted'
  BY <1>6, <1>9 DEF Receive
<1>10. ASSUME NEW n \in Limits, NEW call, SetMaxMsgs(n, call) PROVE Counted'
  BY <1>6, <1>10 DEF SetMaxMsgs, listVars
<1>11. CASE ScanLocal
  <2>1. UNCHANGED <<arrived, sharedBox, localMsgs>>
    BY <1>11 DEF ScanLocal
  <2>2. CASE localBox' = localBox
    BY <1>6, <2>1, <2>2
  <2>3. ASSUME NEW i \in Hit(localBox), localBox' = LeaveOut(localBox, i) PROVE Counted'
    <3>1. Users(LeaveOut(localBox, i)) <= l
      BY UsersRemoved DEF Hit, l, BoxTypes
    <3>2. Users(LeaveOut(localBox, i)) \in Nat
      BY LeftOut, UsersFew DEF Hit, BoxTypes
    <3>3. /\ Users(LeaveOut(localBox, i)) + a <= localMsgs + LastLimit
          /\ Users(LeaveOut(localBox, i)) + b + a <= 2 * LastLimit
      BY <1>1, <1>2, <1>3, <3>1, <3>2
    <3> QED BY <1>1, <1>2, <1>3, <1>5, <2>1, <2>3, <3>2, <3>3 DEF a, b
  <2> QED BY <1>11, <2>2, <2>3 DEF ScanLocal
<1>12. CASE WaitForMessage
  <2>1. UNCHANGED <<localBox, arrived, sharedBox>> /\ localMsgs' = Len(localBox)
    BY <1>12 DEF WaitForMessage, listVars
  <2>2. a = 0
    BY <1>4, <1>12 DEF WaitForMessage
  <2>3. l + a <= Len(localBox) + LastLimit
    BY <1>1, <1>2, <2>2
  <2> QED BY <1>1, <1>2, <1>3, <1>5, <2>1, <2>3 DEF l, a, b
<1>13. CASE TakeArrived
  <2>1. /\ localBox' = localBox /\ arrived' = sharedBox /\ sharedBox' = <<>>
        /\ localMsgs' = Len(localBox)
    BY <1>13 DEF TakeArrived
  <2>2. a = 0
    BY <1>4, <1>13 DEF TakeArrived
  <2>3. l + b <= Len(localBox) + LastLimit /\ l + 0 + b <= 2 * LastLimit /\ 0 <= LastLimit
    BY <1>1, <1>2, <1>3, <2>2
  <2> QED BY <1>1, <1>2, <1>3, <1>5, <2>1, <2>3, UsersNone DEF l, b
<1>14. CASE SortArrived
  <2>1. arrived' = <<>> /\ UNCHANGED <<sharedBox, localMsgs>>
    BY <1>14 DEF SortArrived
  <2>2. ASSUME NEW rest \in Boxes, Users(rest) <= a, localBox' = localBox \o rest
        PROVE  Counted'
    <3>1. Users(localBox \o rest) \in Nat /\ Users(rest) \in Nat
      BY <2>2, Joined, UsersFew DEF BoxTypes
    <3>2. Users(localBox \o rest) <= l + Users(rest)
      BY UsersJoined DEF BoxTypes, l
    <3>3. /\ Users(localBox \o rest) + 0 <= localMsgs + LastLimit
          /\ Users(localBox \o rest) + b + 0 <= 2 * LastLimit
      BY <1>1, <1>2, <1>3, <2>2, <3>1, <3>2
    <3> QED BY <1>1, <1>2, <1>3, <1>5, <2>1, <2>2, <3>1, <3>3, UsersNone DEF b
  <2>3. CASE localBox' = localBox \o arrived
    <3>1. Users(arrived) <= a
      BY <1>1 DEF a
    <3> QED BY <3>1, <2>2, <2>3 DEF BoxTypes
  <2>4. ASSUME NEW i \in Hit(arrived), localBox' = localBox \o LeaveOut(arrived, i)
        PROVE  Counted'
    <3>1. LeaveOut(arrived, i) \in Boxes /\ Users(LeaveOut(arrived, i)) <= a
      BY LeftOut, UsersRemoved DEF Hit, a, BoxTypes
    <3> QED BY <2>2, <2>4, <3>1
  <2> QED BY <1>14, <2>3, <2>4 DEF SortArrived
<1>15. CASE BoxClose
  <2>1. localBox' = <<>> /\ sharedBox' = <<>> /\ UNCHANGED <<arrived, localMsgs>>
    BY <1>15 DEF BoxClose
  <2>2. Users(arrived') = 0
    BY <1>4, <1>15, <2>1 DEF BoxClose, a
  <2>3. 0 <= LastLimit /\ 0 + 0 <= localMsgs + LastLimit /\ 0 + 0 + 0 <= 2 * LastLimit
    BY <1>2
  <2> QED BY <1>2, <1>5, <2>1, <2>2, <2>3, UsersNone
<1>16. CASE UNCHANGED boxVars
  BY <1>6, <1>16 DEF boxVars
<1> QED BY <1>7, <1>8, <1>9, <1>10, <1>11, <1>12, <1>13, <1>14, <1>15, <1>16 DEF BoxNext, OwnerStep

-----------------------------------------------------------------------------
(* Who sleeps                                                              *)

LEMMA QueueInit == BoxInit => PutQueueCounts
<1> SUFFICES ASSUME BoxInit PROVE PutQueueCounts
  OBVIOUS
<1>1. {s \in Senders : sender[s] # "out"} = {} /\ putQueue = 0
  BY DEF BoxInit
<1> QED BY <1>1, FS_EmptySet DEF PutQueueCounts

LEMMA QueueStep ==
  ASSUME BoxTypes, PutQueueCounts, [BoxNext]_boxVars
  PROVE  PutQueueCounts'
<1> DEFINE W == {t \in Senders : sender[t] # "out"}
           W2 == {t \in Senders : sender'[t] # "out"}
<1>1. IsFiniteSet(W) /\ putQueue = Cardinality(W)
  BY SendersOK, FS_Subset DEF PutQueueCounts
<1>2. ASSUME putQueue' = Cardinality(W2) PROVE PutQueueCounts'
  BY <1>2 DEF PutQueueCounts
<1>3. ASSUME putQueue' = putQueue, W2 = W PROVE PutQueueCounts'
  BY <1>1, <1>2, <1>3
<1>4. ASSUME NEW s \in Senders, BoxPut(s) PROVE PutQueueCounts'
  <2>1. \/ sender' = sender /\ sender[s] = "out" /\ putQueue' = putQueue
        \/ /\ sender' = [sender EXCEPT ![s] = "out"]
           /\ putQueue' = IF sender[s] = "woken" THEN putQueue - 1 ELSE putQueue
        \/ /\ sender' = [sender EXCEPT ![s] = "asleep"]
           /\ putQueue' = IF sender[s] = "woken" THEN putQueue ELSE putQueue + 1
    BY <1>4 DEF BoxPut, PutBox, PutPty, PutAborted, PutWaits, PutClosed, Accept
  <2>2. sender[s] \in {"out", "woken"}
    BY <1>4 DEF BoxPut
  <2>3. CASE sender' = sender /\ putQueue' = putQueue
    BY <1>3, <2>3
  <2>4. CASE sender' = [sender EXCEPT ![s] = "out"] /\ sender[s] = "out" /\ putQueue' = putQueue
    BY <1>3, <2>4 DEF BoxTypes
  <2>5. CASE /\ sender' = [sender EXCEPT ![s] = "out"] /\ sender[s] = "woken"
             /\ putQueue' = putQueue - 1
    <3>1. W2 = W \ {s} /\ s \in W
      BY <2>5 DEF BoxTypes
    <3> HIDE DEF W, W2
    <3>2. Cardinality(W \ {s}) = Cardinality(W) - 1
      BY <1>1, <3>1, FS_RemoveElement
    <3> QED BY <1>1, <1>2, <2>5, <3>1, <3>2
  <2>6. CASE /\ sender' = [sender EXCEPT ![s] = "asleep"] /\ sender[s] = "woken"
             /\ putQueue' = putQueue
    BY <1>3, <2>6 DEF BoxTypes
  <2>7. CASE /\ sender' = [sender EXCEPT ![s] = "asleep"] /\ sender[s] = "out"
             /\ putQueue' = putQueue + 1
    <3>1. W2 = W \cup {s} /\ s \notin W
      BY <2>7 DEF BoxTypes
    <3> HIDE DEF W, W2
    <3>2. Cardinality(W \cup {s}) = Cardinality(W) + 1
      BY <1>1, <3>1, FS_AddElement
    <3> QED BY <1>1, <1>2, <2>7, <3>1, <3>2
  <2> QED BY <2>1, <2>2, <2>3, <2>4, <2>5, <2>6, <2>7
<1>5. ASSUME NEW s \in Senders, SpuriousPut(s) PROVE PutQueueCounts'
  BY <1>3, <1>5 DEF SpuriousPut, BoxTypes
<1>6. ASSUME putQueue' = putQueue, sender' = sender \/ WakeSenders PROVE PutQueueCounts'
  BY <1>3, <1>6 DEF WakeSenders
<1> HIDE DEF W, W2
<1>7. ASSUME NEW w \in Wants, Receive(w) PROVE PutQueueCounts'
  BY <1>6, <1>7 DEF Receive
<1>8. ASSUME NEW n \in Limits, NEW call, SetMaxMsgs(n, call) PROVE PutQueueCounts'
  BY <1>6, <1>8 DEF SetMaxMsgs
<1>9. CASE OwnerStep \/ BoxClose
  BY <1>6, <1>9 DEF OwnerStep, ScanLocal, WaitForMessage, TakeArrived, SortArrived, BoxClose
<1>10. CASE UNCHANGED boxVars
  BY <1>6, <1>10 DEF boxVars
<1> QED BY <1>4, <1>5, <1>7, <1>8, <1>9, <1>10 DEF BoxNext

LEMMA AsleepStep ==
  ASSUME BoxTypes, PutQueueCounts, NobodySleepsNextToWork, [BoxNext]_boxVars
  PROVE  NobodySleepsNextToWork'
<1>1. ASSUME owner' # "asleep" PROVE NobodySleepsNextToWork'
  BY <1>1 DEF NobodySleepsNextToWork
<1>2. ASSUME owner' = owner, sharedBox' = sharedBox, sharedPty' = sharedPty,
             localMsgs' = localMsgs,
             \A s \in Senders : sender'[s] = "asleep" => sender[s] = "asleep"
      PROVE  NobodySleepsNextToWork'
  BY <1>2 DEF NobodySleepsNextToWork
<1>3. \A n \in Limits : n \in Nat /\ FirstLimit <= n
  BY LimitsSpan
<1>4. FirstLimit \in Nat /\ localMsgs \in Nat
  BY LimitsSpan DEF BoxTypes
<1>5. ASSUME NEW s \in Senders, BoxPut(s) PROVE NobodySleepsNextToWork'
  <2>1. localMsgs' = localMsgs
    BY <1>5 DEF BoxPut
  <2>2. CASE NotifyOwner
    BY <1>1, <2>2 DEF NotifyOwner
  <2>3. CASE /\ UNCHANGED <<owner, sharedBox, sharedPty>>
             /\ sender' = sender \/ sender' = [sender EXCEPT ![s] = "out"]
    BY <1>2, <2>1, <2>3 DEF BoxTypes
  <2>4. CASE mboxFull /\ UNCHANGED <<owner, sharedBox, sharedPty>>
    <3>1. ASSUME owner = "asleep", localMsgs < FirstLimit PROVE FALSE
      <4>1. sharedBox = <<>>
        BY <3>1 DEF NobodySleepsNextToWork
      <4>2. Len(sharedBox) = 0
        BY <4>1
      <4> QED BY <1>3, <1>4, <2>4, <3>1, <4>2 DEF mboxFull, BoxTypes
    <3> QED BY <2>1, <2>4, <3>1 DEF NobodySleepsNextToWork
  <2> QED BY <1>5, <2>2, <2>3, <2>4
          DEF BoxPut, PutBox, PutPty, PutAborted, PutWaits, PutClosed, Accept
<1>6. ASSUME NEW s \in Senders, SpuriousPut(s) PROVE NobodySleepsNextToWork'
  BY <1>2, <1>6 DEF SpuriousPut, listVars, BoxTypes
<1>7. ASSUME NEW w \in Wants, Receive(w) PROVE NobodySleepsNextToWork'
  BY <1>1, <1>7 DEF Receive
<1>8. ASSUME NEW n \in Limits, NEW call, SetMaxMsgs(n, call) PROVE NobodySleepsNextToWork'
  BY <1>2, <1>8 DEF SetMaxMsgs, listVars
<1>9. CASE ScanLocal \/ TakeArrived \/ SortArrived
  BY <1>1, <1>9 DEF ScanLocal, TakeArrived, SortArrived, Handle
<1>10. CASE WaitForMessage
  <2>1. sharedBox' = <<>> /\ sharedPty' = <<>> /\ localMsgs' \in Nat
    <3>1. Len(localBox) \in Nat
      BY LenProperties DEF BoxTypes, Boxes
    <3> QED BY <3>1, <1>10 DEF WaitForMessage, listVars
  <2>2. ASSUME localMsgs' < FirstLimit, NEW s \in Senders PROVE sender'[s] # "asleep"
    <3>1. localMsgs' < maxMsgs
      BY <1>3, <1>4, <2>1, <2>2 DEF BoxTypes
    <3>2. CASE putQueue > 0
      BY <1>10, <3>1, <3>2 DEF WaitForMessage, WakeSenders
    <3>3. CASE ~(putQueue > 0)
      <4> DEFINE W == {t \in Senders : sender[t] # "out"}
      <4>1. IsFiniteSet(W) /\ Cardinality(W) = 0
        BY <3>3, SendersOK, FS_Subset DEF PutQueueCounts, BoxTypes
      <4>2. W = {}
        BY <4>1, FS_EmptySet
      <4>3. sender[s] = "out"
        BY <4>2
      <4>4. sender' = sender
        BY <1>10, <3>3 DEF WaitForMessage
      <4> QED BY <4>3, <4>4
    <3> QED BY <3>2, <3>3
  <2> QED BY <2>1, <2>2 DEF NobodySleepsNextToWork
<1>11. CASE BoxClose
  BY <1>1, <1>11 DEF BoxClose
<1>12. CASE UNCHANGED boxVars
  BY <1>2, <1>12 DEF boxVars
<1> QED BY <1>5, <1>6, <1>7, <1>8, <1>9, <1>10, <1>11, <1>12 DEF BoxNext, OwnerStep

-----------------------------------------------------------------------------
(* The theorems                                                            *)

LEMMA BoxHolds == BoxSpec => []BoxIInv
<1>1. BoxInit => BoxIInv
  BY TypesInit, OrderInit, SearchingInit, CountedInit, QueueInit
     DEF BoxIInv, NobodySleepsNextToWork, BoxInit
<1>2. BoxIInv /\ [BoxNext]_boxVars => BoxIInv'
  BY TypesStep, OrderStep, SearchingStep, CountedStep, QueueStep, AsleepStep DEF BoxIInv
<1> QED BY <1>1, <1>2, PTL DEF BoxSpec

\* Whatever is sent and received, and however often the limit changes: put() and
\* get() know how many wait for room, nobody sleeps next to work, what one sender
\* sends of one kind is received in its order, and the box holds no more than twice
\* the largest limit.
THEOREM BoxRight == BoxSpec => []BoxInv
<1>1. BoxIInv => BoxInv
  <2> SUFFICES ASSUME BoxIInv PROVE BoxInv
    OBVIOUS
  <2>1. Bounded
    BY DEF BoxIInv, Counted, Users, Bounded
  <2>2. KindsInOrder
    <3> SUFFICES ASSUME NEW i \in 1 .. Len(got), NEW j \in 1 .. Len(got),
                        i < j, got[i].from = got[j].from, got[i].kind = got[j].kind
                 PROVE  got[i].nr < got[j].nr
      BY DEF KindsInOrder
    <3> QED BY DEF BoxIInv, Order, ListsInOrder, InOrder, Same
  <2> QED BY <2>1, <2>2 DEF BoxIInv, BoxInv
<1> QED BY <1>1, BoxHolds, PTL
=============================================================================
