----------------------------- MODULE MessageBox -----------------------------
(***************************************************************************)
(* MessageBox of std.concurrency: senders put messages, the owner gets     *)
(* them.  What holds m_lock is one step; put() waits on m_notFull and      *)
(* get() on m_putMsg.  The lists that only the owner touches are changed   *)
(* in steps of their own.                                                  *)
(***************************************************************************)
EXTENDS Naturals, Sequences, FiniteSets

CONSTANTS Senders,
          Script,   \* what each sender sends: a sequence of kinds
          Limits,   \* the values that m_maxMsgs may be set to
          Wants     \* the sets of standard kinds that a receive() may match

Standard == {"a", "b"}
\* That a thread has ended: one that the owner depends on, or that it does not
\* know (any more).
Notices == {"linked", "unlinked"}
ASSUME ScriptOK == Script \in [Senders -> Seq(Standard \cup Notices \cup {"priority"})]
ASSUME SendersOK == IsFiniteSet(Senders)
ASSUME LimitsOK == Limits \subseteq Nat \ {0} /\ Limits # {}
ASSUME LimitsBounded == \E n \in Limits : \A m \in Limits : m <= n
ASSUME WantsOK == Wants \subseteq SUBSET Standard

VARIABLES sharedBox, sharedPty,  \* m_sharedBox, m_sharedPty
          localBox, localPty,    \* m_localBox, m_localPty
          arrived,               \* what get() has taken from m_sharedBox
          localMsgs,             \* m_localMsgs
          putQueue,              \* m_putQueue
          maxMsgs, onMaxMsgs,    \* m_maxMsgs; what m_onMaxMsgs does
          mboxClosed,            \* m_closed
          sent,                  \* how far each sender is in its script
          sender,                \* where each sender is in put()
          owner,                 \* where the owner is in get()
          want,                  \* what its receive() matches
          got                    \* auxiliary: the messages it got, in order

boxVars == <<sharedBox, sharedPty, localBox, localPty, arrived, localMsgs, putQueue,
             maxMsgs, onMaxMsgs, mboxClosed, sent, sender, owner, want, got>>
listVars == <<sharedBox, sharedPty, localBox, localPty, arrived>>

BoxInit ==
  /\ sharedBox = <<>> /\ sharedPty = <<>> /\ localBox = <<>> /\ localPty = <<>>
  /\ arrived = <<>> /\ localMsgs = 0 /\ putQueue = 0
  /\ maxMsgs \in Limits
  /\ onMaxMsgs = "block"
  /\ mboxClosed = FALSE
  /\ sent = [s \in Senders |-> 0]
  /\ sender = [s \in Senders |-> "out"]
  /\ owner = "out" /\ want = {} /\ got = <<>>

Msg(s) == [from |-> s, nr |-> sent[s] + 1, kind |-> Script[s][sent[s] + 1]]
mboxFull == maxMsgs <= localMsgs + Len(sharedBox)

-----------------------------------------------------------------------------
(* put()                                                                   *)

\* m_putMsg.notify() wakes the owner if it waits.
NotifyOwner == owner' = IF owner = "asleep" THEN "woken" ELSE owner

Sent(s) == sent' = [sent EXCEPT ![s] = @ + 1]

\* The message is added, to one list or the other.
Accept(s, pty, box) ==
  /\ sharedPty' = pty /\ sharedBox' = box
  /\ NotifyOwner
  /\ Sent(s)
  /\ sender' = [sender EXCEPT ![s] = "out"]
  /\ putQueue' = IF sender[s] = "woken" THEN putQueue - 1 ELSE putQueue

PutBox(s) == /\ Msg(s).kind # "priority"
             /\ ~mboxFull \/ Msg(s).kind \in Notices
             /\ Accept(s, sharedPty, Append(sharedBox, Msg(s)))
PutPty(s) == /\ Msg(s).kind = "priority"
             /\ Accept(s, Append(sharedPty, Msg(s)), sharedBox)

\* The box is full and the callback returns false, or throws.
PutAborted(s) ==
  /\ Msg(s).kind \in Standard /\ mboxFull /\ onMaxMsgs = "give up"
  /\ Sent(s)
  /\ sender' = [sender EXCEPT ![s] = "out"]
  /\ putQueue' = IF sender[s] = "woken" THEN putQueue - 1 ELSE putQueue
  /\ UNCHANGED <<sharedPty, sharedBox, owner>>

\* m_notFull.wait(); after a wakeup the counter goes down and up again.
PutWaits(s) ==
  /\ Msg(s).kind \in Standard /\ mboxFull /\ onMaxMsgs = "block"
  /\ sender' = [sender EXCEPT ![s] = "asleep"]
  /\ putQueue' = IF sender[s] = "woken" THEN putQueue ELSE putQueue + 1
  /\ UNCHANGED <<sharedPty, sharedBox, owner, sent>>

\* m_closed is tested once, on entry: a put() to a closed box does nothing.
PutClosed(s) ==
  /\ sender[s] = "out" /\ mboxClosed
  /\ Sent(s)
  /\ UNCHANGED <<sharedPty, sharedBox, owner, sender, putQueue>>

BoxPut(s) ==
  /\ sender[s] \in {"out", "woken"} /\ sent[s] < Len(Script[s])
  /\ IF sender[s] = "out" /\ mboxClosed THEN PutClosed(s)
     ELSE PutBox(s) \/ PutPty(s) \/ PutAborted(s) \/ PutWaits(s)
  /\ UNCHANGED <<localBox, localPty, arrived, localMsgs, maxMsgs, onMaxMsgs, mboxClosed,
                 want, got>>

-----------------------------------------------------------------------------
(* get()                                                                   *)

\* onStandardMsg() and onLinkDeadMsg(): nobody ever handles the notice of a thread
\* that is not linked, and it stays where it is.
Handles(m) == m.kind \in want \cup {"linked"}

\* The first message of a list that scan() handles, and the list without it.
Hit(list) == {i \in 1 .. Len(list) :
                Handles(list[i]) /\ \A j \in 1 .. i - 1 : ~Handles(list[j])}
NoHit(list) == \A i \in 1 .. Len(list) : ~Handles(list[i])
LeaveOut(list, i) == SubSeq(list, 1, i - 1) \o SubSeq(list, i + 1, Len(list))

Handle(m) == owner' = "out" /\ want' = {} /\ got' = Append(got, m)

Receive(w) ==
  /\ owner = "out" /\ ~mboxClosed
  /\ owner' = "scan" /\ want' = w
  /\ UNCHANGED <<sharedBox, sharedPty, localBox, localPty, arrived, localMsgs, putQueue,
                 maxMsgs, onMaxMsgs, mboxClosed, sent, sender, got>>

\* pty(m_localPty) || scan(m_localBox).  Handlers of priority messages exist.
ScanLocal ==
  /\ owner = "scan"
  /\ \/ /\ localPty # <<>>
        /\ localPty' = Tail(localPty) /\ Handle(Head(localPty))
        /\ UNCHANGED localBox
     \/ /\ localPty = <<>>
        /\ \E i \in Hit(localBox) :
             localBox' = LeaveOut(localBox, i) /\ Handle(localBox[i])
        /\ UNCHANGED localPty
     \/ /\ localPty = <<>> /\ NoHit(localBox)
        /\ owner' = "lock"
        /\ UNCHANGED <<localBox, localPty, want, got>>
  /\ UNCHANGED <<sharedBox, sharedPty, arrived, localMsgs, putQueue, maxMsgs, onMaxMsgs,
                 mboxClosed, sent, sender>>

\* m_notFull.notifyAll()
WakeSenders ==
  sender' = [s \in Senders |-> IF sender[s] = "asleep" THEN "woken" ELSE sender[s]]

\* Wrong: the count of what was taken is brought up to date after the wait only.
CountsLate ==
  /\ owner \in {"lock", "woken"}
  /\ sharedPty = <<>> /\ sharedBox = <<>>
  /\ localMsgs' = IF owner = "woken" THEN Len(localBox) ELSE localMsgs
  /\ IF putQueue > 0 /\ localMsgs' < maxMsgs THEN WakeSenders ELSE UNCHANGED sender
  /\ owner' = "asleep"
  /\ UNCHANGED <<putQueue, maxMsgs, onMaxMsgs, mboxClosed, sent, want, got>>
  /\ UNCHANGED listVars

\* Wrong: one sender is told that there is room.
WakesOneSender ==
  /\ owner \in {"lock", "woken"}
  /\ sharedPty = <<>> /\ sharedBox = <<>>
  /\ localMsgs' = Len(localBox)
  /\ \/ \E s \in Senders : sender[s] = "asleep" /\ sender' = [sender EXCEPT ![s] = "woken"]
     \/ (\A s \in Senders : sender[s] # "asleep") /\ UNCHANGED sender
  /\ owner' = "asleep"
  /\ UNCHANGED <<putQueue, maxMsgs, onMaxMsgs, mboxClosed, sent, want, got>>
  /\ UNCHANGED listVars

\* Nothing has arrived: senders that wait for room are told, and m_putMsg.wait().
WaitForMessage ==
  /\ owner \in {"lock", "woken"}
  /\ sharedPty = <<>> /\ sharedBox = <<>>
  /\ localMsgs' = Len(localBox)
  /\ IF putQueue > 0 /\ localMsgs' < maxMsgs THEN WakeSenders ELSE UNCHANGED sender
  /\ owner' = "asleep"
  /\ UNCHANGED <<putQueue, maxMsgs, onMaxMsgs, mboxClosed, sent, want, got>>
  /\ UNCHANGED listVars

\* Everything that has arrived is taken.
TakeArrived ==
  /\ owner \in {"lock", "woken"}
  /\ sharedPty # <<>> \/ sharedBox # <<>>
  /\ localMsgs' = Len(localBox)
  /\ localPty' = localPty \o sharedPty /\ sharedPty' = <<>>
  /\ arrived' = sharedBox /\ sharedBox' = <<>>
  /\ owner' = "sort"
  /\ UNCHANGED <<localBox, putQueue, maxMsgs, onMaxMsgs, mboxClosed, sent, sender, want, got>>

\* A priority message comes first; else the first that matches; and what is
\* left joins m_localBox.
SortArrived ==
  /\ owner = "sort"
  /\ arrived' = <<>>
  /\ IF localPty # <<>>
     THEN /\ localBox' = localBox \o arrived
          /\ localPty' = Tail(localPty) /\ Handle(Head(localPty))
     ELSE /\ UNCHANGED localPty
          /\ \/ \E i \in Hit(arrived) : /\ localBox' = localBox \o LeaveOut(arrived, i)
                                        /\ Handle(arrived[i])
             \/ /\ NoHit(arrived) /\ localBox' = localBox \o arrived
                /\ owner' = "scan" /\ UNCHANGED <<want, got>>
  /\ UNCHANGED <<sharedBox, sharedPty, localMsgs, putQueue, maxMsgs, onMaxMsgs, mboxClosed,
                 sent, sender>>

-----------------------------------------------------------------------------
\* setMaxMsgs(), by any thread; nobody is told.
SetMaxMsgs(n, call) ==
  /\ maxMsgs' = n /\ onMaxMsgs' = call
  /\ <<n, call>> # <<maxMsgs, onMaxMsgs>>
  /\ UNCHANGED <<localMsgs, putQueue, mboxClosed, sent, sender, owner, want, got>>
  /\ UNCHANGED listVars

\* close(), when the owner ends.  Senders that wait for room are not woken.
BoxClose ==
  /\ owner = "out" /\ ~mboxClosed
  /\ mboxClosed' = TRUE
  /\ localBox' = <<>> /\ sharedBox' = <<>>
  /\ UNCHANGED <<sharedPty, localPty, arrived, localMsgs, putQueue, maxMsgs, onMaxMsgs,
                 sent, sender, owner, want, got>>

\* A condition variable may let go of a sender for no reason.
SpuriousPut(s) ==
  /\ sender[s] = "asleep"
  /\ sender' = [sender EXCEPT ![s] = "woken"]
  /\ UNCHANGED <<localMsgs, putQueue, maxMsgs, onMaxMsgs, mboxClosed, sent, owner, want, got>>
  /\ UNCHANGED listVars

OwnerStep == ScanLocal \/ WaitForMessage \/ TakeArrived \/ SortArrived

BoxNext ==
  \/ \E s \in Senders : BoxPut(s) \/ SpuriousPut(s)
  \/ \E w \in Wants : Receive(w)
  \/ \E n \in Limits, call \in {"block", "give up"} : SetMaxMsgs(n, call)
  \/ OwnerStep \/ BoxClose

BoxSpec == BoxInit /\ [][BoxNext]_boxVars

\* A sender that was woken and an owner in get() are scheduled; and the owner
\* calls receive(), with handlers for everything, again and again.
BoxFairSpec == /\ BoxSpec /\ WF_boxVars(OwnerStep \/ Receive(Standard))
               /\ \A s \in Senders : WF_boxVars(sender[s] = "woken" /\ BoxPut(s))

-----------------------------------------------------------------------------
(* Properties                                                              *)

FirstLimit == CHOOSE n \in Limits : \A m \in Limits : n <= m
LastLimit == CHOOSE n \in Limits : \A m \in Limits : m <= n
User(list) == {i \in 1 .. Len(list) : list[i].kind \in Standard}
Unlinked(list) == {i \in 1 .. Len(list) : list[i].kind = "unlinked"}

\* putQueue counts the senders in m_notFull.wait(): the owner may leave the
\* notification out when it is 0.
PutQueueCounts == putQueue = Cardinality({s \in Senders : sender[s] # "out"})

\* The limit is not kept, see the README: what is taken from m_sharedBox is not
\* counted before the next call of get().  But it is never more than twice the limit.
Bounded ==
  Cardinality(User(localBox)) + Cardinality(User(sharedBox)) + Cardinality(User(arrived))
    <= 2 * LastLimit

\* What one sender sent of one kind is received in the order in which it was sent.
KindsInOrder ==
  \A i, j \in 1 .. Len(got) :
    (i < j /\ got[i].from = got[j].from /\ got[i].kind = got[j].kind) => got[i].nr < got[j].nr

\* The owner does not sleep next to a message, nor does a sender next to a box
\* that has been emptied, which the sleeping owner would not tell it of.
NobodySleepsNextToWork ==
  owner = "asleep" =>
    /\ sharedBox = <<>> /\ sharedPty = <<>>
    /\ localMsgs < FirstLimit => \A s \in Senders : sender[s] # "asleep"

\* Notices that nobody takes are fewer than the limit.
NoticesBelowLimit ==
  Cardinality(Unlinked(localBox)) + Cardinality(Unlinked(arrived)) + Cardinality(Unlinked(sharedBox))
    < maxMsgs

\* A sender that waits for room gets it while the box is open, if in the end its
\* owner takes whatever user messages there are and if there were never as many
\* notices of threads that are not linked as the limit allows messages.
SenderGetsRoom ==
  (<>[](owner # "asleep" \/ want = Standard) /\ []NoticesBelowLimit)
    => \A s \in Senders : (sender[s] # "out") ~> (sender[s] = "out" \/ mboxClosed)

\* The mailbox while its owner and the senders are in the middle of their calls.
BoxInv == PutQueueCounts /\ Bounded /\ KindsInOrder /\ NobodySleepsNextToWork

=============================================================================
