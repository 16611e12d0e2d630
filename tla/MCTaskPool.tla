----------------------------- MODULE MCTaskPool -----------------------------
(* Small instances of TaskPool. *)
EXTENDS TaskPool

CONSTANTS w1, w2, c1, c2, a, b, d

MCOneWorker == {w1}
MCTwoWorkers == {w1, w2}
MCOneClient == {c1}
MCTwoClients == {c1, c2}
MCNobody == {}

MCOneTask == {a}
MCTwoTasks == {a, b}
MCThreeTasks == {a, b, d}

\* No task forces another; b forces a; d forces b, which forces a.
MCNoNeeds == [t \in Tasks |-> {}]
MCPair == [t \in Tasks |-> IF t = b THEN {a} ELSE {}]
MCChain == [t \in Tasks |-> CASE t = a -> {} [] t = b -> {a} [] t = d -> {b}]

MCJustD == {d}

MCSpinYield == {"spin", "yield"}
MCYield == {"yield"}
MCWork == {"work"}
MCAnyForce == {"spin", "yield", "work"}

=============================================================================
