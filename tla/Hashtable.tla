----------------------------- MODULE Hashtable ------------------------------
(***************************************************************************)
(* _Hashtable of bits/hashtable.h, under unordered_map and its kin: one    *)
(* singly linked list of nodes, and for each bucket a pointer to the node  *)
(* before its first one.  The buckets grow by _Power2_rehash_policy of     *)
(* bits/hashtable_policy.h.  The list begins with the table itself, which  *)
(* stands for its _M_before_begin.                                         *)
(***************************************************************************)
EXTENDS Naturals, Sequences, FiniteSets, SequencesExt

CONSTANTS Tables, Nodes,
          KeyOf,       \* the key of each node; its hash code is the key itself
          NoNode,      \* the null pointer
          MaxLoad,     \* _M_max_load_factor, a whole number
          FirstCount,  \* 11 in _M_need_rehash()
          Counts       \* the bucket counts that callers of rehash() ask for

ASSUME KeysOK == KeyOf \in [Nodes -> Nat]
ASSUME NoNodeOK == NoNode \notin Nodes \cup Tables /\ Nodes \cap Tables = {}
ASSUME LoadOK == MaxLoad \in Nat \ {0} /\ FirstCount \in Nat \ {0} /\ Counts \subseteq Nat

VARIABLES uniqueKeys,  \* __unique_keys
          ht,          \* nxt: _M_nxt of nodes and of _M_before_begin; and of each
                       \* table bkt: _M_buckets, size: _M_element_count and
                       \* resize: _M_next_resize
          live         \* auxiliary: the nodes that are allocated

hashVars == <<uniqueKeys, ht, live>>

Keys == {KeyOf[n] : n \in Nodes}
OneBucket == [b \in {0} |-> NoNode]

HashInit ==
  /\ uniqueKeys \in BOOLEAN
  /\ ht = [nxt |-> [p \in Nodes \cup Tables |-> NoNode],
           bkt |-> [t \in Tables |-> OneBucket],
           size |-> [t \in Tables |-> 0], resize |-> [t \in Tables |-> 0]]
  /\ live = {}

CountOf(h, t) == Cardinality(DOMAIN h.bkt[t])
BucketIndex(h, t, n) == KeyOf[n] % CountOf(h, t)

\* The list of a table, from node n on.
ListFrom(h, first) ==
  LET L[n \in Nodes \cup {NoNode}] == IF n = NoNode THEN <<>> ELSE <<n>> \o L[h.nxt[n]]
  IN  L[first]
ListOf(h, t) == ListFrom(h, h.nxt[t])

-----------------------------------------------------------------------------
(* _Power2_rehash_policy                                                   *)

\* __clp2(), but 2 at least
NextCount(n) == IF n = 0 THEN 1 ELSE CHOOSE c \in {2 ^ i : i \in 1 .. n} :
                                       c >= n /\ \A i \in 1 .. n : 2 ^ i >= n => c <= 2 ^ i
NextResize(n) == IF n = 0 THEN 0 ELSE NextCount(n) * MaxLoad

Larger(a, b) == IF a > b THEN a ELSE b

\* _M_need_rehash(): whether to rehash, to how many buckets, _M_next_resize.
NeedRehash(h, t, ins) ==
  LET n == h.size[t] + ins
      wanted == Larger(n, IF h.resize[t] = 0 THEN FirstCount ELSE 0) \div MaxLoad
      count == Larger(wanted + 1, CountOf(h, t) * 2)
  IN  IF n <= h.resize[t]
      THEN [needed |-> FALSE, count |-> 0, resize |-> h.resize[t]]
      ELSE IF wanted >= CountOf(h, t)
      THEN [needed |-> TRUE, count |-> NextCount(count), resize |-> NextResize(count)]
      ELSE [needed |-> FALSE, count |-> 0, resize |-> CountOf(h, t) * MaxLoad]

-----------------------------------------------------------------------------
(* The list and the buckets                                                *)

FindBefore(h, t, k) ==
  LET b == k % CountOf(h, t)
      Walk[p \in Nodes \cup Tables] ==
        LET n == h.nxt[p]
        IN  IF KeyOf[n] = k THEN p
            ELSE IF h.nxt[n] = NoNode \/ BucketIndex(h, t, h.nxt[n]) # b THEN NoNode
            ELSE Walk[n]
  IN  IF h.bkt[t][b] = NoNode THEN NoNode ELSE Walk[h.bkt[t][b]]

Previous(h, t, n) == LET Walk[p \in Nodes \cup Tables] == IF h.nxt[p] = n THEN p ELSE Walk[h.nxt[p]]
                     IN  Walk[h.bkt[t][BucketIndex(h, t, n)]]

After(h, p, n) == [h EXCEPT !.nxt[n] = h.nxt[p], !.nxt[p] = n]

\* _M_insert_bucket_begin()
InsertBucketBegin(h, t, b, n) ==
  LET first == h.nxt[t]
      former == IF first = NoNode THEN {} ELSE {BucketIndex(h, t, first)}
  IN  IF h.bkt[t][b] # NoNode THEN After(h, h.bkt[t][b], n)
      ELSE [After(h, t, n) EXCEPT !.bkt[t] = [i \in DOMAIN @ |-> IF i = b THEN t
                                                 ELSE IF i \in former THEN n ELSE @[i]]]

\* _M_remove_bucket_begin()
RemoveBucketBegin(h, t, b, next, nextB) ==
  IF next # NoNode /\ nextB = b THEN h
  ELSE [h EXCEPT !.bkt[t] = [i \in DOMAIN @ |-> IF i = b THEN NoNode
                                                ELSE IF i = nextB /\ next # NoNode THEN @[b]
                                                ELSE @[i]],
                 !.nxt[t] = IF h.bkt[t][b] = t THEN next ELSE @]

\* What all of erase() and extract() do: the nodes between p and last, all of
\* bucket b, leave the list.
Unlink(h, t, b, p, last, number) ==
  LET lastB == IF last = NoNode THEN b ELSE BucketIndex(h, t, last)
      g == IF p = h.bkt[t][b] THEN RemoveBucketBegin(h, t, b, last, lastB)
           ELSE IF lastB # b THEN [h EXCEPT !.bkt[t][lastB] = p] ELSE h
  IN  [g EXCEPT !.nxt[p] = last, !.size[t] = @ - number]

\* The check of _M_rehash_aux(): is the node that was inserted last the last of
\* its bucket now?
CheckBucket(count, t, acc) ==
  LET next == acc.h.nxt[acc.prev]
  IN  IF acc.check /\ next # NoNode /\ KeyOf[next] % count # KeyOf[acc.prev] % count
      THEN [acc.h EXCEPT !.bkt[t][KeyOf[next] % count] = acc.prev]
      ELSE acc.h

\* One node of _M_rehash_aux(), which leaves runs of nodes of one bucket in
\* order if equal keys are allowed.
Relink(count, t, acc, n) ==
  LET b == KeyOf[n] % count
  IN  IF ~uniqueKeys /\ acc.prev # NoNode /\ KeyOf[acc.prev] % count = b
      THEN [h |-> After(acc.h, acc.prev, n), prev |-> n, check |-> TRUE]
      ELSE [h |-> InsertBucketBegin(CheckBucket(count, t, acc), t, b, n), prev |-> n,
            check |-> FALSE]

\* _M_rehash_aux()
Rehash(h, t, count) ==
  LET empty == [h EXCEPT !.nxt[t] = NoNode, !.bkt[t] = [b \in 0 .. count - 1 |-> NoNode]]
      acc == FoldLeft(LAMBDA a, n : Relink(count, t, a, n),
                      [h |-> empty, prev |-> NoNode, check |-> FALSE], ListOf(h, t))
  IN  CheckBucket(count, t, acc)

\* The rehash that comes before an insertion of ins nodes.
MakeRoom(h, t, ins) ==
  LET need == NeedRehash(h, t, ins)
      g == [h EXCEPT !.resize[t] = need.resize]
  IN  IF need.needed THEN Rehash(g, t, need.count) ELSE g

\* _M_insert_unique_node(); ins is a guess of how many more will come.
InsertUnique(h, t, n, ins) ==
  LET g == MakeRoom(h, t, ins)
  IN  [InsertBucketBegin(g, t, BucketIndex(g, t, n), n) EXCEPT !.size[t] = @ + 1]

\* _M_insert_multi_node()
InsertMulti(h, t, n, hint) ==
  LET g == MakeRoom(h, t, 1)
      b == BucketIndex(g, t, n)
      p == IF hint # NoNode /\ KeyOf[hint] = KeyOf[n] THEN hint ELSE FindBefore(g, t, KeyOf[n])
      f == IF p = NoNode THEN InsertBucketBegin(g, t, b, n) ELSE After(g, p, n)
      next == f.nxt[n]
      e == IF p = hint /\ p # NoNode /\ next # NoNode /\ BucketIndex(g, t, next) # b
           THEN [f EXCEPT !.bkt[t][BucketIndex(g, t, next)] = n] ELSE f
  IN  [e EXCEPT !.size[t] = @ + 1]

-----------------------------------------------------------------------------
(* Operations                                                              *)

Linked(t) == ToSet(ListOf(ht, t))
Hints(t) == Linked(t) \cup {NoNode}
Has(h, t, k) == FindBefore(h, t, k) # NoNode

\* insert() and emplace() of a key that is not there, or may be there again.
Insert(t, n, hint) ==
  /\ n \in Nodes \ live /\ hint \in Hints(t)
  /\ IF uniqueKeys THEN /\ ~Has(ht, t, KeyOf[n]) /\ hint = NoNode
                        /\ ht' = InsertUnique(ht, t, n, 1)
     ELSE ht' = InsertMulti(ht, t, n, hint)
  /\ live' = live \cup {n}
  /\ UNCHANGED uniqueKeys

\* Wrong: the policy is not put back.
KeepsNewState(t) ==
  /\ NeedRehash(ht, t, 1).needed
  /\ ht' = [ht EXCEPT !.resize[t] = NeedRehash(ht, t, 1).resize]
  /\ UNCHANGED <<uniqueKeys, live>>

\* The new buckets cannot be allocated: _M_rehash() puts the policy back.
InsertThrows(t) ==
  /\ NeedRehash(ht, t, 1).needed
  /\ UNCHANGED hashVars

\* erase(iterator), or extract() and the node is dropped.
Erase(t, n) ==
  /\ n \in Linked(t)
  /\ ht' = [Unlink(ht, t, BucketIndex(ht, t, n), Previous(ht, t, n), ht.nxt[n], 1)
              EXCEPT !.nxt[n] = NoNode]
  /\ live' = live \ {n}
  /\ UNCHANGED uniqueKeys

Freed(h, S) == [h EXCEPT !.nxt = [p \in DOMAIN @ |-> IF p \in S THEN NoNode ELSE @[p]]]

\* erase(key): it and those equal to it that follow.
EraseKey(t, k) ==
  /\ Has(ht, t, k)
  /\ LET p == FindBefore(ht, t, k)
         L == ListFrom(ht, ht.nxt[p])
         equal == Cardinality({i \in DOMAIN L : \A j \in 1 .. i : KeyOf[L[j]] = k})
         last == IF equal = Len(L) THEN NoNode ELSE L[equal + 1]
         gone == {L[i] : i \in 1 .. equal}
     IN  /\ ht' = Freed(Unlink(ht, t, k % CountOf(ht, t), p, last, equal), gone)
         /\ live' = live \ gone
  /\ UNCHANGED uniqueKeys

\* The loop of erase(first, last) over the buckets, from node n of bucket b on;
\* whole tells whether n is the first of its bucket.
RECURSIVE EraseBuckets(_, _, _, _, _, _, _)
EraseBuckets(h, t, n, b, whole, last, p) ==
  LET L == ListFrom(h, n)
      stop == {i \in DOMAIN L : i > 1 /\ (L[i] = last \/ BucketIndex(h, t, L[i]) # b)}
      next == IF stop = {} THEN NoNode ELSE L[CHOOSE i \in stop : \A j \in stop : i <= j]
      nextB == IF next = NoNode THEN b ELSE BucketIndex(h, t, next)
      g == IF whole THEN RemoveBucketBegin(h, t, b, next, nextB) ELSE h
  IN  IF next # last THEN EraseBuckets(g, t, next, nextB, TRUE, last, p)
      ELSE [g EXCEPT !.nxt[p] = next,
                     !.bkt[t] = IF next # NoNode /\ (nextB # b \/ whole)
                                THEN [@ EXCEPT ![nextB] = p] ELSE @]

EraseRange(t, i, j) ==
  LET L == ListOf(ht, t)
      p == Previous(ht, t, L[i])
      b == BucketIndex(ht, t, L[i])
      last == IF j > Len(L) THEN NoNode ELSE L[j]
      gone == {L[x] : x \in i .. j - 1}
  IN  /\ ht' = [Freed(EraseBuckets(ht, t, L[i], b, ht.nxt[ht.bkt[t][b]] = L[i], last, p), gone)
                  EXCEPT !.size[t] = @ - (j - i)]
      /\ live' = live \ gone
      /\ UNCHANGED uniqueKeys

Emptied(h, t) == [Freed(h, ToSet(ListOf(h, t)) \cup {t}) EXCEPT !.size[t] = 0,
                     !.bkt[t] = [b \in DOMAIN @ |-> NoNode]]

Clear(t) == /\ ht' = Emptied(ht, t)
            /\ live' = live \ Linked(t)
            /\ UNCHANGED uniqueKeys

\* rehash()
RehashTo(t, count) ==
  LET n == Larger((ht.size[t] + MaxLoad) \div MaxLoad, count)
  IN  /\ NextCount(n) # CountOf(ht, t)
      /\ ht' = Rehash([ht EXCEPT !.resize[t] = NextResize(n)], t, NextCount(n))
      /\ UNCHANGED <<uniqueKeys, live>>

\* _M_update_bbegin(): the first bucket points to where the list begins.
UpdateBegin(h, t) ==
  IF h.nxt[t] = NoNode THEN h ELSE [h EXCEPT !.bkt[t][BucketIndex(h, t, h.nxt[t])] = t]

\* All of table s as a part of table t, before the buckets are brought up to date.
Content(h, t, g, s) == [g EXCEPT !.nxt[t] = h.nxt[s], !.bkt[t] = h.bkt[s],
                                 !.size[t] = h.size[s], !.resize[t] = h.resize[s]]

Swap(t, s) ==
  /\ ht' = UpdateBegin(UpdateBegin(Content(ht, t, Content(ht, s, ht, t), s), t), s)
  /\ UNCHANGED <<uniqueKeys, live>>

\* Move assignment and _M_reset() of the other.
MoveAssign(t, s) ==
  /\ ht' = [UpdateBegin(Content(ht, t, Freed(ht, Linked(t)), s), t)
              EXCEPT !.nxt[s] = NoNode, !.bkt[s] = OneBucket, !.size[s] = 0, !.resize[s] = 0]
  /\ live' = live \ Linked(t)
  /\ UNCHANGED uniqueKeys

\* One node of _M_assign(): the copy c of a node is put at the end, after p.
Appended(h, t, p, c) ==
  LET b == BucketIndex(h, t, c)
  IN  [h EXCEPT !.nxt[p] = c, !.bkt[t][b] = IF @ = NoNode THEN p ELSE @]

\* Copy assignment: nodes C copy those of s; those of t were freed or reused.
CopyAssign(t, s, C) ==
  /\ Len(C) = Len(ListOf(ht, s)) /\ ToSet(C) \cap live = {} /\ IsInjective(C)
  /\ \A i \in DOMAIN C : KeyOf[C[i]] = KeyOf[ListOf(ht, s)[i]]
  /\ LET empty == [Emptied(ht, t) EXCEPT !.bkt[t] = [b \in DOMAIN ht.bkt[s] |-> NoNode],
                                         !.size[t] = ht.size[s], !.resize[t] = ht.resize[s]]
     IN  ht' = FoldLeft(LAMBDA h, i : Appended(h, t, IF i = 1 THEN t ELSE C[i - 1], C[i]),
                        empty, [i \in DOMAIN C |-> i])
  /\ live' = (live \ Linked(t)) \cup ToSet(C)
  /\ UNCHANGED uniqueKeys

\* A node cannot be allocated: _M_assign() clears the table, which gets its
\* former buckets back.
CopyThrows(t, s) ==
  /\ ht.size[s] > 0
  /\ ht' = [Emptied(ht, t) EXCEPT !.resize[t] = IF CountOf(ht, t) = CountOf(ht, s)
                                                THEN ht.resize[s] ELSE @]
  /\ live' = live \ Linked(t)
  /\ UNCHANGED uniqueKeys

\* One node of _M_merge_unique() or _M_merge_multi(); g.left guesses how many
\* nodes are still to come.
MergeNode(t, s, g, n) ==
  LET out == Unlink(g.h, s, BucketIndex(g.h, s, n), Previous(g.h, s, n), g.h.nxt[n], 1)
  IN  IF ~uniqueKeys THEN [h |-> InsertMulti(out, t, n, NoNode), left |-> 1]
      ELSE IF Has(g.h, t, KeyOf[n]) THEN [h |-> g.h, left |-> IF g.left = 1 THEN 1 ELSE g.left - 1]
      ELSE [h |-> InsertUnique(out, t, n, g.left), left |-> 1]

Merge(t, s) ==
  /\ ht.size[s] > 0
  /\ LET total == ht.size[t] + ht.size[s]
         room == Larger((total + MaxLoad - 1) \div MaxLoad, (ht.size[t] + MaxLoad) \div MaxLoad)
         reserved == IF uniqueKeys \/ NextCount(room) = CountOf(ht, t) THEN ht
                     ELSE Rehash([ht EXCEPT !.resize[t] = NextResize(room)], t, NextCount(room))
     IN  ht' = FoldLeft(LAMBDA g, n : MergeNode(t, s, g, n),
                        [h |-> reserved, left |-> ht.size[s]], ListOf(ht, s)).h
  /\ UNCHANGED <<uniqueKeys, live>>

Copies == {C \in SeqOf(Nodes \ live, 2) : IsInjective(C)}

HashNext ==
  \E t \in Tables :
     \/ \E n \in Nodes, hint \in Hints(t) : Insert(t, n, hint)
     \/ \E n \in Nodes : Erase(t, n)
     \/ \E k \in Keys : EraseKey(t, k)
     \/ \E i, j \in 1 .. Len(ListOf(ht, t)) + 1 : i < j /\ EraseRange(t, i, j)
     \/ \E count \in Counts : RehashTo(t, count)
     \/ Clear(t) \/ InsertThrows(t)
     \/ \E s \in Tables \ {t} : \/ Swap(t, s) \/ MoveAssign(t, s) \/ Merge(t, s) \/ CopyThrows(t, s)
                                \/ \E C \in Copies : CopyAssign(t, s, C)

HashSpec == HashInit /\ [][HashNext]_hashVars

-----------------------------------------------------------------------------
(* Properties                                                              *)

\* Each bucket points to the node before its first, which is null exactly when
\* it has no nodes, and the nodes of a bucket follow each other.
BucketsMark ==
  \A t \in Tables : \A b \in DOMAIN ht.bkt[t] :
    LET L == ListOf(ht, t)
        own == {i \in DOMAIN L : BucketIndex(ht, t, L[i]) = b}
    IN  IF own = {} THEN ht.bkt[t][b] = NoNode
        ELSE LET i == CHOOSE i \in own : \A j \in own : i <= j
             IN  /\ ht.bkt[t][b] = IF i = 1 THEN t ELSE L[i - 1]
                 /\ own = i .. i + Cardinality(own) - 1

\* Every allocated node is in the list of one table, and the tables count them.
NodesOwned ==
  /\ \A t \in Tables : ht.size[t] = Len(ListOf(ht, t))
  /\ live = UNION {Linked(t) : t \in Tables}
  /\ \A t, s \in Tables : t # s => Linked(t) \cap Linked(s) = {}

\* Equal keys are next to each other, as count() and equal_range() count on,
\* and are not there twice if they have to be unique.
EqualsTogether ==
  \A t \in Tables : LET L == ListOf(ht, t) IN
    \A i, j \in DOMAIN L :
      (i < j /\ KeyOf[L[i]] = KeyOf[L[j]]) =>
         ~uniqueKeys /\ \A x \in i .. j : KeyOf[L[x]] = KeyOf[L[i]]

\* The load factor is kept, and what the policy remembers goes with the buckets
\* that are there, also after a failed allocation.
LoadKept == \A t \in Tables : /\ ht.size[t] <= CountOf(ht, t) * MaxLoad
                              /\ ht.resize[t] <= CountOf(ht, t) * MaxLoad

\* What every operation counts on when it finds a table, and leaves behind also
\* when it throws.
TableInv == BucketsMark /\ NodesOwned /\ EqualsTogether /\ LoadKept

=============================================================================
