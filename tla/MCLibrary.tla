----------------------------- MODULE MCLibrary ------------------------------
(***************************************************************************)
(* Small instances of data structures and algorithms: the linked list of   *)
(* tasks, the message box, the hash table, the counters of shared          *)
(* pointers, introsort and the heaps, the stable algorithms, and the       *)
(* searches.  A behaviour is one of them, and the others stay as they      *)
(* began.                                                                  *)
(***************************************************************************)
EXTENDS TaskList, MessageBox, Hashtable, SharedCount, Introsort, StableSort, Searches

CONSTANTS k1, k2, k3, k4, k5, h1, h2, n1, n2, n3, n4, n5, s1, s2, s3, w1, w2,
          u1, u2

MCTasks == {k1, k2, k3, k4, k5}
\* Loops of one, two and three tasks.
MCGroups == {<<k3>>, <<k1, k2>>, <<k4, k5>>, <<k5, k1, k3>>}

MCSenders == {u1, u2}
\* Five messages that count, one that comes first, and one that nobody handles.
MCScript == [u \in MCSenders |-> IF u = u1 THEN <<"a", "b", "a">>
                                 ELSE <<"unlinked", "a", "priority", "a">>]
MCLimits == {2}
MCWants == {{"a", "b"}, {"b"}}

MCTables == {h1, h2}
MCNodes == {n1, n2, n3, n4, n5}
\* Two pairs of equal keys; 0 and 2 share a bucket until there are four.
MCKeyOf == [n \in MCNodes |-> IF n \in {n1, n2} THEN 0 ELSE IF n = n3 THEN 1 ELSE 2]
MCCounts == {0, 3}

MCStrong == {s1, s2, s3}
MCWeak == {w1, w2}

MCKeys == {0, 1, 2}
MCDepths == {0, 1, 4}

VARIABLE part
seqVars == <<sortVars, stableVars, searchVars>>
libVars == <<part, vars, boxVars, hashVars, spVars, seqVars>>

\* One initial state for each part that is not the one that runs.
One == <<[key |-> 0, tag |-> 1]>>
HashIdle == HashInit /\ uniqueKeys
SpIdle == SpInit /\ lockPolicy = "atomic" /\ ~fromThis /\ strong[s1] = "held"
SortIdle == /\ algo = "heap" /\ a = One /\ nth = 1 /\ frames = <<Frame(1, 2, 0)>>
            /\ scan = NoScan /\ phase = "loop" /\ size = 0
StableIdle == /\ run = One /\ result = 0
              /\ job = [name |-> "rotate", cat |-> "forward", middle |-> 1, buffer |-> 0]
SearchIdle == /\ query = [name |-> "minmax_element", p |-> <<>>, q |-> <<>>]
              /\ answer = NoAnswer
SeqIdle == SortIdle /\ StableIdle /\ SearchIdle

LibInit ==
  /\ Init /\ BoxInit
  /\ \/ part \in {"list", "box"} /\ HashIdle /\ SpIdle /\ SeqIdle
     \/ part = "hash" /\ HashInit /\ SpIdle /\ SeqIdle
     \/ part = "count" /\ HashIdle /\ SpInit /\ SeqIdle
     \/ part = "sort" /\ HashIdle /\ SpIdle /\ SortInit /\ StableIdle /\ SearchIdle
     \/ part = "stable" /\ HashIdle /\ SpIdle /\ SortIdle /\ StableInit /\ SearchIdle
     \/ part = "search" /\ HashIdle /\ SpIdle /\ SortIdle /\ StableIdle /\ SearchInit

ListAlone(A) == /\ part = "list" /\ A
                /\ UNCHANGED <<part, boxVars, hashVars, spVars, seqVars>>
BoxAlone(A) == /\ part = "box" /\ A
               /\ UNCHANGED <<part, vars, hashVars, spVars, seqVars>>
HashAlone(A) == /\ part = "hash" /\ A
                /\ UNCHANGED <<part, vars, boxVars, spVars, seqVars>>
CountAlone(A) == /\ part = "count" /\ A
                 /\ UNCHANGED <<part, vars, boxVars, hashVars, seqVars>>
SortAlone(A) == /\ part = "sort" /\ A
                /\ UNCHANGED <<part, vars, boxVars, hashVars, spVars, stableVars, searchVars>>
StableAlone(A) == /\ part = "stable" /\ A
                  /\ UNCHANGED <<part, vars, boxVars, hashVars, spVars, sortVars, searchVars>>
SearchAlone(A) == /\ part = "search" /\ A
                  /\ UNCHANGED <<part, vars, boxVars, hashVars, spVars, sortVars, stableVars>>
LibNext == \/ ListAlone(Next) \/ BoxAlone(BoxNext) \/ HashAlone(HashNext) \/ CountAlone(SpNext)
           \/ SortAlone(SortNext) \/ StableAlone(StableNext) \/ SearchAlone(SearchNext)

\* The fairness of SharedCount and of MessageBox; the rest has no liveness property.
LibFairSpec == /\ LibInit /\ [][LibNext]_libVars
               /\ \A s \in MCStrong : WF_libVars(CountAlone(StrongStep(s)))
               /\ \A w \in MCWeak : WF_libVars(CountAlone(DestroyWeak(w)))
               /\ WF_libVars(BoxAlone(OwnerStep \/ Receive(Standard)))
               /\ \A u \in MCSenders : WF_libVars(BoxAlone(sender[u] = "woken" /\ BoxPut(u)))

=============================================================================
