------------------------------- MODULE RWLock -------------------------------
(***************************************************************************)
(* What a ReadWriteMutex promises its callers, with no mutex, no condition *)
(* variable and no counter in sight: who holds the lock, who is waiting    *)
(* for it, and which of the two kinds of caller goes first.  RWMutex is    *)
(* shown to implement this specification under both policies.              *)
(***************************************************************************)
CONSTANTS Threads  \* the threads that use the lock

VARIABLES policy,       \* "PREFER_READERS" or "PREFER_WRITERS", for good
          readers,      \* the threads that hold the lock for reading
          writers,      \* the threads that hold it for writing
          wantRead,     \* the threads waiting for a read lock
          wantWrite     \* the threads waiting for the write lock

vars == <<policy, readers, writers, wantRead, wantWrite>>

Init == /\ policy \in {"PREFER_READERS", "PREFER_WRITERS"}
        /\ readers = {} /\ writers = {} /\ wantRead = {} /\ wantWrite = {}

Busy == readers \cup writers \cup wantRead \cup wantWrite

\* A read lock can be granted: no writer holds the lock, and under
\* PREFER_WRITERS none waits for it.
MayRead == writers = {} /\ (policy = "PREFER_WRITERS" => wantWrite = {})

\* The write lock can be granted: nobody holds the lock, and under
\* PREFER_READERS no reader waits for it.
MayWrite == /\ readers = {}
            /\ writers = {}
            /\ policy = "PREFER_READERS" => wantRead = {}

-----------------------------------------------------------------------------
\* A caller that cannot have the lock waits for it.
AskRead(t) ==
  /\ t \notin Busy
  /\ wantRead' = wantRead \cup {t}
  /\ UNCHANGED <<policy, readers, writers, wantWrite>>

AskWrite(t) ==
  /\ t \notin Busy
  /\ wantWrite' = wantWrite \cup {t}
  /\ UNCHANGED <<policy, readers, writers, wantRead>>

\* The lock is granted to a waiting caller, or at once to a new one.
Read(t) ==
  /\ t \notin readers \cup writers \cup wantWrite
  /\ MayRead
  /\ readers' = readers \cup {t}
  /\ wantRead' = wantRead \ {t}
  /\ UNCHANGED <<policy, writers, wantWrite>>

Write(t) ==
  /\ t \notin readers \cup writers \cup wantRead
  /\ MayWrite
  /\ writers' = writers \cup {t}
  /\ wantWrite' = wantWrite \ {t}
  /\ UNCHANGED <<policy, readers, wantRead>>

\* A caller with a deadline stops waiting.
GiveUp(t) ==
  /\ t \in wantRead \cup wantWrite
  /\ wantRead' = wantRead \ {t}
  /\ wantWrite' = wantWrite \ {t}
  /\ UNCHANGED <<policy, readers, writers>>

Release(t) ==
  /\ t \in readers \cup writers
  /\ readers' = readers \ {t}
  /\ writers' = writers \ {t}
  /\ UNCHANGED <<policy, wantRead, wantWrite>>

Next == \E t \in Threads : \/ AskRead(t) \/ AskWrite(t)
                           \/ Read(t) \/ Write(t)
                           \/ GiveUp(t) \/ Release(t)

Spec == Init /\ [][Next]_vars

=============================================================================
