------------------------------- MODULE Links --------------------------------
(***************************************************************************)
(* Threads of std.concurrency: who spawned whom, how the end of a thread   *)
(* becomes known to its owner and to the threads that it spawned, and the  *)
(* registry of names.  A mailbox holds only such notices here, the         *)
(* messages of type linkDead; MessageBox is about the others.  What holds  *)
(* the lock of a mailbox or of the registry is one step, and what only the *)
(* thread itself can see goes along with the step next to it.              *)
(***************************************************************************)
EXTENDS Naturals, SequencesExt

CONSTANTS Main,      \* the thread that runs main()
          Spawned,   \* those that may be spawned
          Names,
          TidInit,   \* Tid.init: no thread
          Settings,  \* which threads may be spawned, and which names registered
          MaxListed  \* how many names are ever listed for one thread

Tids == {Main} \cup Spawned

ASSUME InitNoTid == Main \notin Spawned /\ TidInit \notin Tids
ASSUME SettingsOK == \A s \in Settings : s.spawned \subseteq Spawned /\ s.names \subseteq Names
ASSUME MaxListedOK == MaxListed \in Nat

VARIABLES setting,     \* the one of Settings that is followed
          life,
          parent,      \* the ownerTid in the closure that a spawned thread runs
          links,       \* thisInfo.links of each thread: from Tids to BOOLEAN
          owner,       \* thisInfo.owner
          fresh,       \* what _spawn() has started and not yet put into links
          localBox, sharedBox,  \* the notices in the two lists of its mailbox
          telling,     \* the links of a thread that ends, which it still has to tell
          told,        \* auxiliary: the exceptions that a thread got, in order
          tidByName, namesByTid,
          entry        \* what register() has tested and not yet added

treeVars == <<life, parent, links, owner, fresh>>
noticeVars == <<localBox, sharedBox, telling, told>>
nameVars == <<tidByName, namesByTid, entry>>
linkVars == <<setting, treeVars, noticeVars, nameVars>>

NoLinks == [c \in {} |-> FALSE]
NoFresh == [tid |-> TidInit, linked |-> FALSE]
NoEntry == [by |-> TidInit, name |-> "", tid |-> TidInit]

LinksInit ==
  /\ setting \in Settings
  /\ life = [t \in Tids |-> IF t = Main THEN "running" ELSE "unborn"]
  /\ parent = [t \in Tids |-> TidInit] /\ owner = [t \in Tids |-> TidInit]
  /\ links = [t \in Tids |-> NoLinks]
  /\ fresh = [t \in Tids |-> NoFresh]
  /\ localBox = [t \in Tids |-> <<>>] /\ sharedBox = [t \in Tids |-> <<>>]
  /\ telling = [t \in Tids |-> {}] /\ told = [t \in Tids |-> <<>>]
  /\ tidByName = [n \in Names |-> TidInit]
  /\ namesByTid = [t \in Tids |-> <<>>]
  /\ entry = NoEntry

\* isClosed of its mailbox.
Closed(t) == life[t] \in {"closed", "unregistering", "dead"}

\* The thread is in none of the calls that take more than one step.
Free(t) == life[t] = "running" /\ fresh[t] = NoFresh /\ entry.by # t

-----------------------------------------------------------------------------
(* _spawn()                                                                *)

\* The thread is started ...
Spawn(t, c, linked) ==
  /\ Free(t) /\ life[c] = "unborn"
  /\ life' = [life EXCEPT ![c] = "started"]
  /\ parent' = [parent EXCEPT ![c] = t]
  /\ fresh' = [fresh EXCEPT ![t] = [tid |-> c, linked |-> linked]]
  /\ UNCHANGED <<setting, links, owner, noticeVars, nameVars>>

\* links[t] once c is in it.
With(t, c, linked) == [u \in {c} \cup DOMAIN links[t] |-> IF u = c THEN linked ELSE links[t][u]]

\* ... and only then added to the links.
AddLink(t) ==
  /\ fresh[t] # NoFresh
  /\ links' = [links EXCEPT ![t] = With(t, fresh[t].tid, fresh[t].linked)]
  /\ fresh' = [fresh EXCEPT ![t] = NoFresh]
  /\ UNCHANGED <<setting, life, parent, owner, noticeVars, nameVars>>

\* exec() of the new thread.
Begin(c) ==
  /\ life[c] = "started"
  /\ life' = [life EXCEPT ![c] = "running"]
  /\ owner' = [owner EXCEPT ![c] = parent[c]]
  /\ UNCHANGED <<setting, parent, links, fresh, noticeVars, nameVars>>

-----------------------------------------------------------------------------
(* get(), with respect to notices                                          *)

\* onLinkDeadMsg(): the link to u is removed in any case; an exception comes of
\* the notice if u was spawned as a linked thread, or is the owner.
Depends(t, u) == u \in DOMAIN links[t] /\ links[t][u] /\ u # owner[t]
Tells(t, u) == Depends(t, u) \/ u = owner[t]
Without(t, gone) == Restrict(links[t], DOMAIN links[t] \ gone)

\* The first notice of a list that an exception comes of.
FirstTold(t, list) ==
  {i \in DOMAIN list : Tells(t, list[i]) /\ \A j \in 1 .. i - 1 : ~Tells(t, list[j])}

\* scan() up to the i-th notice, for which a handler is called or which is thrown.
Hear(t, list, i) ==
  LET u == list[i]
      kind == IF Depends(t, u) THEN "LinkTerminated" ELSE "OwnerTerminated"
  IN  /\ links' = [links EXCEPT ![t] = Without(t, ToSet(SubSeq(list, 1, i)))]
      /\ owner' = [owner EXCEPT ![t] = IF kind = "OwnerTerminated" THEN TidInit ELSE @]
      /\ told' = [told EXCEPT ![t] = Append(@, [kind |-> kind, tid |-> u])]

HearLocal(t) ==
  /\ Free(t)
  /\ \E i \in FirstTold(t, localBox[t]) :
       /\ Hear(t, localBox[t], i)
       /\ localBox' = [localBox EXCEPT ![t] = RemoveAt(@, i)]
  /\ UNCHANGED <<setting, life, parent, fresh, sharedBox, telling, nameVars>>

\* Wrong: what has arrived behind the notice is lost.
DropsRest(t) ==
  /\ \E i \in FirstTold(t, sharedBox[t]) :
       /\ Hear(t, localBox[t] \o sharedBox[t], Len(localBox[t]) + i)
       /\ localBox' = [localBox EXCEPT ![t] = @ \o SubSeq(sharedBox[t], 1, i - 1)]

\* Notices that nothing comes of stay in the list.
HearArrived(t) ==
  /\ \E i \in FirstTold(t, sharedBox[t]) :
       /\ Hear(t, localBox[t] \o sharedBox[t], Len(localBox[t]) + i)
       /\ localBox' = [localBox EXCEPT ![t] = @ \o RemoveAt(sharedBox[t], i)]

IgnoreArrived(t) ==
  /\ FirstTold(t, sharedBox[t]) = {}
  /\ links' = [links EXCEPT ![t] = Without(t, ToSet(localBox[t] \o sharedBox[t]))]
  /\ localBox' = [localBox EXCEPT ![t] = @ \o sharedBox[t]]
  /\ UNCHANGED <<owner, told>>

TakeNotices(t) ==
  /\ Free(t)
  /\ FirstTold(t, localBox[t]) = {} /\ sharedBox[t] # <<>>
  /\ HearArrived(t) \/ IgnoreArrived(t)
  /\ sharedBox' = [sharedBox EXCEPT ![t] = <<>>]
  /\ UNCHANGED <<setting, life, parent, fresh, telling, nameVars>>

ReceiveNotice(t) == HearLocal(t) \/ TakeNotices(t)

-----------------------------------------------------------------------------
(* cleanup(), when a thread ends                                           *)

\* close() takes the threads that have ended off the links; the threads to be
\* told are those that are left then.
Close(t) ==
  /\ Free(t)
  /\ LET gone == ToSet(localBox[t] \o sharedBox[t])
     IN  /\ links' = [links EXCEPT ![t] = Without(t, gone)]
         /\ owner' = [owner EXCEPT ![t] = IF @ \in gone THEN TidInit ELSE @]
         /\ telling' = [telling EXCEPT ![t] = DOMAIN links'[t]]
  /\ life' = [life EXCEPT ![t] = "closed"]
  /\ localBox' = [localBox EXCEPT ![t] = <<>>]
  /\ sharedBox' = [sharedBox EXCEPT ![t] = <<>>]
  /\ UNCHANGED <<setting, parent, fresh, told, nameVars>>

\* _send(MsgType.linkDead, u, t): put() to a mailbox that is closed does nothing.
Send(t, u) == sharedBox' = IF u = TidInit \/ Closed(u) THEN sharedBox
                           ELSE [sharedBox EXCEPT ![u] = Append(@, t)]

TellLink(t, u) ==
  /\ life[t] = "closed" /\ u \in telling[t]
  /\ Send(t, u)
  /\ telling' = [telling EXCEPT ![t] = @ \ {u}]
  /\ UNCHANGED <<setting, treeVars, localBox, told, nameVars>>

\* Wrong: the owner is told only by a thread that has no links.
TellsOwnerElse(t) ==
  /\ life[t] = "closed" /\ telling[t] = {}
  /\ Send(t, IF links[t] = NoLinks THEN owner[t] ELSE TidInit)
  /\ life' = [life EXCEPT ![t] = "unregistering"]
  /\ UNCHANGED <<setting, parent, links, owner, fresh, localBox, telling, told, nameVars>>

TellOwner(t) ==
  /\ life[t] = "closed" /\ telling[t] = {}
  /\ Send(t, owner[t])
  /\ life' = [life EXCEPT ![t] = "unregistering"]
  /\ UNCHANGED <<setting, parent, links, owner, fresh, localBox, telling, told, nameVars>>

\* unregisterMe() removes every name in the list, whoever has it now.
UnregisterMe(t) ==
  /\ life[t] = "unregistering" /\ entry = NoEntry
  /\ life' = [life EXCEPT ![t] = "dead"]
  /\ tidByName' = [n \in Names |-> IF n \in ToSet(namesByTid[t]) THEN TidInit ELSE tidByName[n]]
  /\ namesByTid' = [namesByTid EXCEPT ![t] = <<>>]
  /\ UNCHANGED <<setting, parent, links, owner, fresh, noticeVars, entry>>

-----------------------------------------------------------------------------
(* The registry                                                            *)

\* register() holds the lock of the registry, but not that of the mailbox, from
\* its tests until the name is added.
TestEntry(t, n, u) ==
  /\ Free(t) /\ entry = NoEntry
  /\ tidByName[n] = TidInit
  /\ life[u] # "unborn" /\ ~Closed(u)
  /\ Len(namesByTid[u]) < MaxListed
  /\ entry' = [by |-> t, name |-> n, tid |-> u]
  /\ UNCHANGED <<setting, treeVars, noticeVars, tidByName, namesByTid>>

AddEntry ==
  /\ entry # NoEntry
  /\ namesByTid' = [namesByTid EXCEPT ![entry.tid] = Append(@, entry.name)]
  /\ tidByName' = [tidByName EXCEPT ![entry.name] = entry.tid]
  /\ entry' = NoEntry
  /\ UNCHANGED <<setting, treeVars, noticeVars>>

\* remove!(SwapStrategy.unstable)(list, pos): the last element takes the place of
\* the one at pos.  The list that is one shorter is returned, and unregister()
\* drops it: the list that it keeps has its old length.
Overwrite(list, pos) == [list EXCEPT ![pos] = Last(list)]
FirstPos(list, n) == {i \in DOMAIN list : list[i] = n /\ \A j \in 1 .. i - 1 : list[j] # n}

UnregisterName(t, n) ==
  /\ Free(t) /\ entry = NoEntry
  /\ tidByName[n] # TidInit
  /\ LET u == tidByName[n]
     IN \E pos \in FirstPos(namesByTid[u], n) :
          namesByTid' = [namesByTid EXCEPT ![u] = Overwrite(@, pos)]
  /\ tidByName' = [tidByName EXCEPT ![n] = TidInit]
  /\ UNCHANGED <<setting, treeVars, noticeVars, entry>>

-----------------------------------------------------------------------------
CleanupStep(t) == (\E u \in Tids : TellLink(t, u)) \/ TellOwner(t) \/ UnregisterMe(t)

LinksNext ==
  \/ \E t \in Tids :
       \/ \E c \in setting.spawned, linked \in BOOLEAN : Spawn(t, c, linked)
       \/ AddLink(t) \/ Begin(t) \/ ReceiveNotice(t) \/ Close(t) \/ CleanupStep(t)
       \/ \E n \in setting.names : UnregisterName(t, n) \/ \E u \in Tids : TestEntry(t, n, u)
  \/ AddEntry

LinksSpec == LinksInit /\ [][LinksNext]_linkVars

\* Threads go on with what they have begun, and call receive() again and again.
LinksFairSpec ==
  /\ LinksSpec
  /\ \A t \in Tids : /\ WF_linkVars(AddLink(t) \/ Begin(t) \/ CleanupStep(t))
                     /\ WF_linkVars(ReceiveNotice(t))
  /\ WF_linkVars(AddEntry)

-----------------------------------------------------------------------------
(* Properties                                                              *)

\* Types of the tables of threads, links, notices and names.
LinksTypeOK ==
  /\ life \in [Tids -> {"unborn", "started", "running", "closed", "unregistering", "dead"}]
  /\ parent \in [Tids -> Tids \cup {TidInit}] /\ owner \in [Tids -> Tids \cup {TidInit}]
  /\ DOMAIN links = Tids /\ \A t \in Tids : DOMAIN links[t] \subseteq Tids
  /\ fresh \in [Tids -> {NoFresh} \cup [tid : Tids, linked : BOOLEAN]]
  /\ localBox \in [Tids -> Seq(Tids)] /\ sharedBox \in [Tids -> Seq(Tids)]
  /\ telling \in [Tids -> SUBSET Tids]
  /\ told \in [Tids -> Seq([kind : {"LinkTerminated", "OwnerTerminated"}, tid : Tids])]
  /\ tidByName \in [Names -> Tids \cup {TidInit}] /\ namesByTid \in [Tids -> Seq(Names)]
  /\ entry \in {NoEntry} \cup [by : Tids, name : Names, tid : Tids]

\* The end of u is a matter of t: u is about to be put into the links or is in
\* them, or it owns t, or is going to.
Concerns(t, u) ==
  \/ u = fresh[t].tid \/ u \in DOMAIN links[t]
  \/ u = owner[t] \/ (life[t] = "started" /\ u = parent[t])

\* When u has told everybody, its notice is in the mailbox of each thread that it
\* concerns, also of one that did not know of u yet, or not of its owner, when u
\* ended.  Nobody can wait for a thread that is gone without learning of it.
NoticeDue ==
  \A t, u \in Tids :
    (life[t] \in {"started", "running"} /\ life[u] \in {"unregistering", "dead"} /\ Concerns(t, u))
      => u \in ToSet(localBox[t] \o sharedBox[t])

\* A thread gets one exception at most for the end of another, and not before
\* that one has closed its mailbox; of the kind that the relation calls for.
ToldOnce ==
  \A t \in Tids :
    /\ \A i, j \in DOMAIN told[t] : told[t][i].tid = told[t][j].tid => i = j
    /\ \A i \in DOMAIN told[t] : LET e == told[t][i] IN
         /\ Closed(e.tid)
         /\ e.kind = IF parent[t] = e.tid THEN "OwnerTerminated" ELSE "LinkTerminated"
         /\ e.kind = "LinkTerminated" => parent[e.tid] = t

\* Every end is told to whom it concerns, and nobody is told twice or too soon.
NoticesInv == NoticeDue /\ ToldOnce

\* No name leads to a thread that is gone, although register() tests only once,
\* and not under the lock of the mailbox, that the thread is not about to end.
NoStaleName ==
  \A n \in Names : tidByName[n] # TidInit =>
    life[tidByName[n]] # "dead" /\ n \in ToSet(namesByTid[tidByName[n]])

\* Nobody is left waiting for a thread that is gone, nor finds it by its name.
LinksInv == NoticesInv /\ NoStaleName

\* Who depends on a thread that ends gets an exception for it, or ends itself.
EndIsTold ==
  \A t \in Tids : \A u \in Tids \ {t} :
    (Closed(u) /\ life[t] = "running" /\ Tells(t, u))
      ~> (Closed(t) \/ \E i \in DOMAIN told[t] : told[t][i].tid = u)

\* "When the thread represented by tid terminates, any names associated with it
\* will be automatically unregistered" (concurrency.d:1126): only these are.
OthersNamesKept ==
  [][\A t \in Tids : (life[t] # "dead" /\ life'[t] = "dead") =>
       \A n \in Names : tidByName[n] # t => tidByName'[n] = tidByName[n]]_linkVars

=============================================================================
