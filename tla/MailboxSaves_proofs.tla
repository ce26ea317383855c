------------------------- MODULE MailboxSaves_proofs -------------------------
(***************************************************************************)
(* Proofs about what every save of Mailbox preserves, in memory and in     *)
(* what a restart loads, for every value of its constants: requests,       *)
(* handoffs, notices and their leases, the wake-ups, and the promise of    *)
(* MailPromise.                                                            *)
(***************************************************************************)
EXTENDS Mailbox_proofs, WellFoundedInduction

----------------------------------------------------------------------------
(* The inductive invariant.                                                 *)

\* The outcomes that a hook notice leaves.
Hooked == {"hook-prepared", "hook-emitted"}

\* Messages are saved in order.
Contiguous(store) == \A m \in Saved(store) : \A k \in Msgs : k < m => k \in Saved(store)

\* No two messages answer one request, and a reply named its request's message.
Keyed(store) ==
  \A m, k \in Saved(store) :
    (m # k /\ store[m].request # None) => RequestKey(store, m) # RequestKey(store, k)

Answered == \A x \in replies : x.msg \in Saved(mail) /\ x.key = RequestKey(mail, x.msg)

\* No two unseen handoffs share a run or a conversation.
Single(store) ==
  \A m, k \in Saved(store) :
    (m # k /\ Outstanding(store[m]) /\ Outstanding(store[k])) =>
      /\ store[m].run # store[k].run
      /\ ~(store[m].to = store[k].to /\ store[m].at = store[k].at)

\* A restart may find one more message than memory holds, and nobody has seen it.
Fresh(e) == e.outcome = "none" /\ ~e.native /\ ~e.acked

Ahead ==
  \/ Saved(disk) = Saved(mail)
  \/ \E m \in Msgs : /\ NextFree(mail, m) /\ disk[m] # None /\ Fresh(disk[m])
                     /\ \A k \in Msgs \ {m} : disk[k] = mail[k]

\* A prepared notice names its adapter, unless the adapter is gone; an emitted one was
\* printed by it.
Noted(store, ad) ==
  \A m \in Saved(store) : store[m].outcome \in Hooked =>
    LET l == store[m].lease
    IN /\ l \in Leases
       /\ \/ ad[l].st \in {"printed", "confirmed"} /\ m \in ad[l].ids
          \/ store[m].outcome = "hook-prepared" /\ ad[l].st = "gone"
          \/ store[m].outcome = "hook-prepared" /\ ad[l].st = "replied" /\ m \in ad[l].ids

\* While a lease runs, its messages are seen, acknowledged or still under it.
Held(e, k) == e.acked \/ e.native \/ (e.outcome = "hook-prepared" /\ e.lease = k)
Claimed(store, ad, ex) ==
  \A k \in Leases \ ex : \A m \in ad[k].ids : m \in Saved(store) /\ Held(store[m], k)

\* Leases are used in their order, and two hold a message only when the first is over.
Ordered(ad) ==
  \A k \in Leases : ad[k].st = "unused" =>
    ad[k].ids = {} /\ \A l \in Leases : k < l => ad[l].st = "unused"
Holders(ad, ex) ==
  \A k, l \in Leases : (k < l /\ ad[k].ids \intersect ad[l].ids # {}) => k \in ex

\* While a reservation is saved no handoff of its run or conversation is outstanding,
\* and until the launch the message is for that run's conversation, and unseen.
Clear ==
  srv.pc = "saving" =>
    \A k \in Saved(mail) : Outstanding(mail[k]) =>
      mail[k].run # srv.run /\ ~(mail[k].to = mail[srv.m].to /\ mail[k].at = srv.conv)

Addressed ==
  srv.pc \in {"saving", "launch"} =>
    /\ Harness[srv.run] = "codex" /\ Home[srv.run] = mail[srv.m].to
    /\ ForConversation(mail[srv.m], srv.conv)
    /\ ~mail[srv.m].acked /\ ~mail[srv.m].native

\* Only the save that moves to the record database forgets the user's input.
Untouched ==
  /\ srv.pc \notin {"saving", "launch"} => ~srv.touched /\ ~srv.stray
  /\ ~Activates => srv.left = 0 /\ srv.stray = srv.touched

\* What holds of memory and of what a restart would load.
Sound(store, ad, ex) ==
  Contiguous(store) /\ Keyed(store) /\ Single(store) /\ Noted(store, ad) /\ Claimed(store, ad, ex)

Stores ==
  /\ Sound(mail, adapter, expired) /\ Sound(disk, adapter, expired) /\ Answered /\ Ahead
  /\ Ordered(adapter) /\ Holders(adapter, expired)

Attempting == Clear /\ Addressed /\ Untouched

SInv == IInv /\ Stores /\ Attempting

----------------------------------------------------------------------------
(* Versions of a message.                                                   *)

\* A version without a new handoff and without a change of its hook notice.
Derived(old, new) ==
  /\ Outstanding(new) => Outstanding(old) /\ new.run = old.run /\ new.at = old.at
  /\ (old.outcome \in Hooked \/ new.outcome \in Hooked) =>
       new.outcome = old.outcome /\ new.lease = old.lease

\* A message is its own version.
LEMMA DerivedReflexive == ASSUME NEW e PROVE Derived(e, e)
BY DEF Derived

\* Surfacing and acknowledging end a handoff, and leave a notice.
LEMMA DerivedHandled ==
  ASSUME NEW e \in Message
  PROVE  Derived(e, Surface(e)) /\ Derived(e, Acknowledge(e))
<1>1. PICK x : x = Surface(e)
  OBVIOUS
<1>2. /\ x.outcome = e.outcome /\ x.lease = e.lease /\ x.native
  BY <1>1 DEF Surface, Message
<1>3. PICK y : y = Acknowledge(e)
  OBVIOUS
<1>4. /\ y.outcome = e.outcome /\ y.lease = e.lease /\ y.acked
  BY <1>3 DEF Acknowledge, Message
<1>5. Derived(e, x)
  BY <1>2 DEF Derived, Outstanding
<1>6. Derived(e, y)
  BY <1>4 DEF Derived, Outstanding
<1> QED BY <1>1, <1>3, <1>5, <1>6

\* Versions of versions.
LEMMA DerivedTransitive ==
  ASSUME NEW a, NEW b, NEW c, Derived(a, b), Derived(b, c)
  PROVE  Derived(a, c)
BY DEF Derived

\* A receipt for a message without an attempt and a notice.
LEMMA DerivedReceipt ==
  ASSUME NEW e \in Message, e.outcome \notin NoticeOutcomes, NEW o \in {"waiting", "mcp-returned"},
         NEW r \in Runs \union {None}, NEW c \in Convs \union {None}
  PROVE  /\ Derived(e, Receipt(e, o, r, c, 0))
         /\ Derived(e, Surface(Receipt(e, o, r, c, 0)))
<1>1. PICK x : x = Receipt(e, o, r, c, 0)
  OBVIOUS
<1>2. x \in Message /\ x.outcome = o
  BY <1>1, ReceiptType, OutcomesTyped, BoundsAssumption
<1>3. ~Outstanding(x)
  BY <1>2 DEF Outstanding, QueueOutcomes
<1>4. e.outcome \notin Hooked /\ x.outcome \notin Hooked
  BY <1>2 DEF NoticeOutcomes, Hooked
<1>5. Derived(e, x)
  BY <1>3, <1>4 DEF Derived
<1>6. Derived(x, Surface(x))
  BY <1>2, DerivedHandled
<1> QED BY <1>1, <1>5, <1>6, DerivedTransitive

\* What becomes of a queued handoff.
LEMMA DerivedOutcome ==
  ASSUME NEW e \in Message, e.outcome \in QueueOutcomes,
         NEW o \in {"queued", "unknown", "waiting", "queue-submitted"}
  PROVE  Derived(e, [e EXCEPT !.outcome = o])
<1>1. PICK x : x = [e EXCEPT !.outcome = o]
  OBVIOUS
<1>2. /\ x.outcome = o /\ x.native = e.native /\ x.acked = e.acked /\ x.run = e.run /\ x.at = e.at
  BY <1>1 DEF Message
<1>3. e.outcome \notin Hooked /\ x.outcome \notin Hooked
  BY <1>2 DEF QueueOutcomes, Hooked
<1> QED BY <1>1, <1>2, <1>3 DEF Derived, Outstanding

----------------------------------------------------------------------------
(* Versions of the mail.                                                    *)

\* No message is added, and each is a version of what it was.
Amends(next) ==
  Saved(next) = Saved(mail) /\ \A m \in Saved(mail) : Derived(mail[m], next[m])

\* One message is added, which no other message's request asked for.
Adds(next, m, e) ==
  /\ NextFree(mail, m) /\ e \in Message /\ Fresh(e)
  /\ e.request # None => \A k \in Saved(mail) : ~SameRequest(mail[k], e.from, e.sender, e.request)
  /\ next = [mail EXCEPT ![m] = e]

Modest(next) ==
  Keeps(next) /\ (Amends(next) \/ \E m \in Msgs, e \in Message : Adds(next, m, e))

\* A step that saves such a version, or nothing.
Plainly == \E next : Modest(next) /\ Saves(next)

\* The mail in which the messages of S are replaced by versions of them.
LEMMA AmendsIs ==
  ASSUME mail \in Mail, NEW next, Keeps(next), NEW S \in SUBSET Saved(mail),
         \A m \in Msgs \ S : next[m] = mail[m],
         \A m \in S : Derived(mail[m], next[m])
  PROVE  Modest(next)
<1>1. next \in Mail /\ \A m \in Saved(mail) : next[m] # None
  BY DEF Keeps, Follows, Kept
<1>2. Saved(next) = Saved(mail)
  BY <1>1 DEF Saved
<1>3. \A m \in Saved(mail) : Derived(mail[m], next[m])
  <2> TAKE m \in Saved(mail)
  <2>1. m \in Msgs
    BY DEF Saved
  <2> QED BY <2>1, DerivedReflexive
<1> QED BY <1>2, <1>3 DEF Modest, Amends

\* Saving the mail as it is.
LEMMA SameModest == ASSUME mail \in Mail, WakesRecorded PROVE Modest(mail)
<1>1. Keeps(mail)
  BY SameKeeps
<1> QED BY <1>1, DerivedReflexive DEF Modest, Amends

\* A step that saves the mail as it is, or leaves it alone.
LEMMA SamePlainly ==
  ASSUME IInv, Saves(mail)
  PROVE  Plainly
<1>1. Modest(mail)
  BY SameModest DEF IInv, TypeOK
<1> QED BY <1>1 DEF Plainly

\* Acknowledging some messages and surfacing others.
LEMMA HandledModest ==
  ASSUME mail \in Mail, WakesRecorded,
         NEW S \in SUBSET Saved(mail), NEW T \in SUBSET Saved(mail)
  PROVE  /\ Modest(Amend(mail, S, Acknowledge)) /\ Modest(Amend(mail, T, Surface))
         /\ Modest(Amend(Amend(mail, S, Acknowledge), T, Surface))
<1>1. /\ Keeps(Amend(mail, S, Acknowledge)) /\ Keeps(Amend(mail, T, Surface))
      /\ Keeps(Amend(Amend(mail, S, Acknowledge), T, Surface))
  BY HandledKeeps
<1> DEFINE A(m) == IF m \in S THEN Acknowledge(mail[m]) ELSE mail[m]
           B(m) == IF m \in T THEN Surface(mail[m]) ELSE mail[m]
           C(m) == IF m \in T THEN Surface(A(m)) ELSE A(m)
<1>2. ASSUME NEW m \in Saved(mail)
      PROVE  Derived(mail[m], A(m)) /\ Derived(mail[m], B(m)) /\ Derived(mail[m], C(m))
  <2>1. mail[m] \in Message
    BY SavedMessage
  <2>2. A(m) \in Message /\ Derived(mail[m], A(m))
    BY <2>1, AcknowledgeType, DerivedHandled, DerivedReflexive
  <2>3. Derived(mail[m], B(m))
    BY <2>1, DerivedHandled, DerivedReflexive
  <2>4. Derived(A(m), C(m))
    <3> HIDE DEF A
    <3> QED BY <2>2, DerivedHandled, DerivedReflexive
  <2>5. Derived(mail[m], C(m))
    <3> HIDE DEF A, C
    <3> QED BY <2>2, <2>4, DerivedTransitive
  <2> QED BY <2>2, <2>3, <2>5
<1>3. \A m \in Msgs \ Saved(mail) : A(m) = mail[m] /\ B(m) = mail[m] /\ C(m) = mail[m]
  OBVIOUS
<1>4. /\ Amend(mail, S, Acknowledge) = [m \in Msgs |-> A(m)]
      /\ Amend(mail, T, Surface) = [m \in Msgs |-> B(m)]
      /\ Amend(Amend(mail, S, Acknowledge), T, Surface) = [m \in Msgs |-> C(m)]
  BY DEF Amend
<1> HIDE DEF A, B, C
<1>5. \A m \in Saved(mail) : m \in Msgs
  BY DEF Saved
<1>6. Modest([m \in Msgs |-> A(m)])
  <2> DEFINE next == [m \in Msgs |-> A(m)]
  <2>1. Keeps(next) /\ (\A m \in Msgs : next[m] = A(m))
    BY <1>1, <1>4
  <2> HIDE DEF next
  <2>2. Modest(next)
    BY <1>2, <1>3, <1>5, <2>1, AmendsIs
  <2> QED BY <2>2 DEF next
<1>7. Modest([m \in Msgs |-> B(m)])
  <2> DEFINE next == [m \in Msgs |-> B(m)]
  <2>1. Keeps(next) /\ (\A m \in Msgs : next[m] = B(m))
    BY <1>1, <1>4
  <2> HIDE DEF next
  <2>2. Modest(next)
    BY <1>2, <1>3, <1>5, <2>1, AmendsIs
  <2> QED BY <2>2 DEF next
<1>8. Modest([m \in Msgs |-> C(m)])
  <2> DEFINE next == [m \in Msgs |-> C(m)]
  <2>1. Keeps(next) /\ (\A m \in Msgs : next[m] = C(m))
    BY <1>1, <1>4
  <2> HIDE DEF next
  <2>2. Modest(next)
    BY <1>2, <1>3, <1>5, <2>1, AmendsIs
  <2> QED BY <2>2 DEF next
<1> QED BY <1>4, <1>6, <1>7, <1>8

\* Recording a deferral, and what a reply announces.
LEMMA ReceivedModest ==
  ASSUME mail \in Mail, WakesRecorded, NEW S \in SUBSET Saved(mail),
         NEW o \in {"waiting", "mcp-returned"}, NEW r \in Runs \union {None},
         \A m \in S : Pending(mail[m])
  PROVE  Modest(Received(S, o, r, None, 0)) /\ Modest(ReceivedSeen(S, o, r, None, 0))
<1>1. /\ o \in Outcomes /\ 0 \in 0..MaxLease /\ None \in Convs \union {None}
  BY OutcomesTyped, BoundsAssumption
<1>2. \A m \in S : /\ mail[m] \in Message
                   /\ mail[m].outcome \notin WakeOutcomes /\ mail[m].outcome \notin NoticeOutcomes
  BY SavedMessage, PendingUnwoken
<1>3. Keeps(Received(S, o, r, None, 0)) /\ Keeps(ReceivedSeen(S, o, r, None, 0))
  BY <1>1, <1>2, ReceiptKeeps
<1>4. \A m \in S : /\ Derived(mail[m], Receipt(mail[m], o, r, None, 0))
                   /\ Derived(mail[m], Surface(Receipt(mail[m], o, r, None, 0)))
  BY <1>1, <1>2, DerivedReceipt
<1>5. \A m \in S : m \in Msgs
  BY DEF Saved
<1>6. PICK next : next = Received(S, o, r, None, 0)
  OBVIOUS
<1>7. \A m \in Msgs : next[m] = IF m \in S THEN Receipt(mail[m], o, r, None, 0) ELSE mail[m]
  BY <1>6 DEF Received
<1>8. Modest(next)
  BY <1>3, <1>4, <1>5, <1>6, <1>7, AmendsIs
<1>9. PICK next2 : next2 = ReceivedSeen(S, o, r, None, 0)
  OBVIOUS
<1>10. \A m \in Msgs : next2[m] = IF m \in S THEN Surface(Receipt(mail[m], o, r, None, 0)) ELSE mail[m]
  BY <1>9 DEF ReceivedSeen
<1>11. Modest(next2)
  BY <1>3, <1>4, <1>5, <1>9, <1>10, AmendsIs
<1> QED BY <1>6, <1>8, <1>9, <1>11

\* The receipt of a message that must wait.
LEMMA WaitingModest ==
  ASSUME mail \in Mail, WakesRecorded, NEW m \in Saved(mail), Pending(mail[m])
  PROVE  Modest(Waiting(m))
<1>1. Waiting(m) = Received({m}, "waiting", None, None, 0)
  BY DEF Waiting, Amend, Received
<1>2. PICK S : S = {m}
  OBVIOUS
<1>3. S \in SUBSET Saved(mail) /\ \A k \in S : Pending(mail[k])
  BY <1>2
<1>4. Modest(Received(S, "waiting", None, None, 0))
  BY <1>3, ReceivedModest
<1> QED BY <1>1, <1>2, <1>4

\* The end of an attempt.
LEMMA FinishedModest ==
  ASSUME mail \in Mail, WakesRecorded, NEW m \in Saved(mail), NEW o \in {"queued", "unknown", "waiting"},
         wakes[m] = 1 => o \in WakeOutcomes
  PROVE  Modest(Finished(m, o))
<1>1. o \in Outcomes
  BY OutcomesTyped
<1>2. Keeps(Finished(m, o))
  BY <1>1, FinishedKeeps
<1>3. mail[m] \in Message /\ m \in Msgs
  BY SavedMessage
<1>4. PICK next : next = Finished(m, o)
  OBVIOUS
<1>5. next[m] = Resolve(mail[m], o) /\ \A k \in Msgs \ {m} : next[k] = mail[k]
  BY <1>3, <1>4 DEF Finished, Amend
<1>6. Derived(mail[m], Resolve(mail[m], o))
  <2>1. CASE mail[m].outcome = "queue-prepared"
    <3>1. mail[m].outcome \in QueueOutcomes
      BY <2>1 DEF QueueOutcomes
    <3>2. Derived(mail[m], [mail[m] EXCEPT !.outcome = o])
      BY <1>3, <3>1, DerivedOutcome
    <3> QED BY <2>1, <3>2 DEF Resolve
  <2>2. CASE mail[m].outcome # "queue-prepared"
    BY <2>2, DerivedReflexive DEF Resolve
  <2> QED BY <2>1, <2>2
<1>7. PICK S : S = {m}
  OBVIOUS
<1>8. S \in SUBSET Saved(mail) /\ (\A k \in Msgs \ S : next[k] = mail[k])
      /\ \A k \in S : Derived(mail[k], next[k])
  BY <1>5, <1>6, <1>7
<1> QED BY <1>2, <1>4, <1>8, AmendsIs

\* Sending a message.
LEMMA AddsModest ==
  ASSUME mail \in Mail, WakesRecorded, NEW m \in Msgs, NEW e \in Message,
         Adds([mail EXCEPT ![m] = e], m, e)
  PROVE  Modest([mail EXCEPT ![m] = e])
<1>1. mail[m] = None
  BY DEF Adds, NextFree
<1>2. Keeps([mail EXCEPT ![m] = e])
  BY <1>1, AppendKeeps
<1> QED BY <1>2 DEF Modest

----------------------------------------------------------------------------
(* Which steps save what.                                                   *)

\* Reads, acknowledgements and changes of the interval.
LEMMA InboxPlainly ==
  ASSUME IInv, NEW r \in Runs, NEW S \in SUBSET Msgs, NEW after \in 0..MaxMsg,
         NEW limit \in PageLimits, NEW all \in BOOLEAN,
         Inbox(r, S, after, limit, all)
  PROVE  Plainly
<1> DEFINE scope == Visible(r, MailboxConversation(r))
           listed == IF all THEN scope ELSE Unread(scope) \ S
           page == First({m \in listed : m > after}, limit)
           next == Amend(Amend(mail, S, Acknowledge), page, Surface)
<1>1. S \subseteq scope /\ scope \subseteq Saved(mail) /\ page \subseteq Saved(mail)
  BY DEF Inbox, Visible, Unread, First
<1>2. Modest(next)
  <2> HIDE DEF scope, page
  <2> QED BY <1>1, HandledModest DEF IInv, TypeOK
<1>3. Saves(next)
  BY DEF Inbox, Saves, CommitsChange
<1> HIDE DEF next
<1> QED BY <1>2, <1>3 DEF Plainly

\* The person's inbox acknowledges saved mail.
LEMMA HumanInboxPlainly ==
  ASSUME IInv, NEW w \in Workspaces, NEW S \in SUBSET Msgs, HumanInbox(w, S)
  PROVE  Plainly
<1> DEFINE next == Amend(mail, S, Acknowledge)
<1>1. S \subseteq Saved(mail)
  BY DEF HumanInbox
<1>2. Modest(next)
  BY <1>1, HandledModest DEF IInv, TypeOK
<1>3. Saves(next)
  BY DEF HumanInbox, Saves, CommitsChange
<1> HIDE DEF next
<1> QED BY <1>2, <1>3 DEF Plainly

\* Bodies that are read surface saved mail.
LEMMA ReadBodiesPlainly ==
  ASSUME IInv, NEW r \in Runs, NEW S \in SUBSET Msgs, ReadBodies(r, S)
  PROVE  Plainly
<1> DEFINE next == Amend(mail, S, Surface)
<1>1. S \subseteq Saved(mail)
  BY DEF ReadBodies, Unread, Visible
<1>2. Modest(next)
  BY <1>1, HandledModest DEF IInv, TypeOK
<1>3. Saves(next)
  BY DEF ReadBodies, Saves
<1> HIDE DEF next
<1> QED BY <1>2, <1>3 DEF Plainly

\* A reply surfaces the pending mail it carries.
LEMMA ReplyPlainly == ASSUME IInv, Reply PROVE Plainly
<1> DEFINE r == srv.caller
           due == {m \in Visible(r, MailboxConversation(r)) : Pending(mail[m])}
           ids == IF r \in focus THEN {} ELSE First(due, NoticeLimit)
           next == Amend(mail, ids,
                     LAMBDA e : Surface(Receipt(e, "mcp-returned", r, None, 0)))
<1>1. ids \in SUBSET Saved(mail) /\ \A m \in ids : Pending(mail[m])
  BY DEF First, Visible
<1>2. next = ReceivedSeen(ids, "mcp-returned", r, None, 0)
  BY DEF Amend, ReceivedSeen
<1>3. r \in Runs \union {None}
  BY DEF IInv, TypeOK, Servers
<1>4. Modest(next)
  <2> HIDE DEF next, ids, r
  <2>1. Modest(ReceivedSeen(ids, "mcp-returned", r, None, 0))
    BY <1>1, <1>3, ReceivedModest DEF IInv, TypeOK
  <2> QED BY <1>2, <2>1
<1>5. Saves(next)
  BY DEF Reply, Saves, CommitsChange
<1> HIDE DEF next
<1> QED BY <1>4, <1>5 DEF Plainly

\* Sending.
LEMMA SendCardPlainly ==
  ASSUME IInv, NEW r \in Runs \union {None}, NEW w \in Workspaces,
         NEW intent \in Intents, SendCard(r, w, intent)
  PROVE  Plainly
<1>1. PICK new : new = CardMail(IF r = None THEN None ELSE Home[r], w, intent)
  OBVIOUS
<1>2. PICK m \in Msgs : NextFree(mail, m) /\ Saves([mail EXCEPT ![m] = new])
  BY <1>1 DEF SendCard, Saves
<1>3. new \in Message /\ Fresh(new) /\ new.request = None
  <2>1. new \in Message
    BY <1>1, CardMailType DEF Intents, Workspaces
  <2> QED BY <1>1, <2>1 DEF CardMail, Fresh
<1>4. Modest([mail EXCEPT ![m] = new])
  BY <1>2, <1>3, AddsModest DEF Adds, IInv, TypeOK
<1> QED BY <1>2, <1>4 DEF Plainly

\* A chat message adds one message, or none for a request that was sent before.
LEMMA SendChatPlainly ==
  ASSUME IInv, NEW r \in Runs, NEW q \in Runs, NEW x \in Requests, SendChat(r, q, x)
  PROVE  Plainly
<1>1. CASE UNCHANGED <<mail, disk, faults>>
  BY <1>1, SamePlainly DEF Saves
<1>2. CASE ~UNCHANGED <<mail, disk, faults>>
  <2>1. PICK s : s = Proof(r)
    OBVIOUS
  <2>2. PICK c : c = talk[q]
    OBVIOUS
  <2>3. PICK new : new = ChatMail(Home[r], s, x, Home[q], c, q)
    OBVIOUS
  <2>4. /\ \A m \in Saved(mail) : ~SameRequest(mail[m], Home[r], s, x)
        /\ s # None /\ c # None
        /\ \E m \in Msgs : /\ NextFree(mail, m) /\ Saves([mail EXCEPT ![m] = new])
    BY <1>2, <2>1, <2>2, <2>3 DEF SendChat, Saves
  <2>5. s \in Convs /\ c \in Convs /\ Home[r] \in Workspaces /\ Home[q] \in Workspaces
    BY <2>1, <2>2, <2>4 DEF Proof, IInv, TypeOK, Workspaces
  <2>6. new \in Message
    BY <2>3, <2>5, ChatMailType
  <2>7. Fresh(new) /\ new.from = Home[r] /\ new.sender = s /\ new.request = x
    BY <2>3 DEF ChatMail, CardMail, Fresh
  <2>8. PICK m \in Msgs : NextFree(mail, m) /\ Saves([mail EXCEPT ![m] = new])
    BY <2>4
  <2>9. Modest([mail EXCEPT ![m] = new])
    BY <2>4, <2>6, <2>7, <2>8, AddsModest DEF Adds, IInv, TypeOK
  <2> QED BY <2>8, <2>9 DEF Plainly
<1> QED BY <1>1, <1>2

\* Attempts that reserve nothing, and their ends.
LEMMA AttemptPlainly ==
  ASSUME IInv, NEW s \in Servers, NEW m \in Saved(mail), Attempt(s, m)
  PROVE  Plainly
<1>1. CASE UNCHANGED <<mail, disk, faults>>
  BY <1>1, SamePlainly DEF Saves
<1>2. CASE ~UNCHANGED <<mail, disk, faults>>
  <2>1. Pending(mail[m]) /\ Saves(Waiting(m))
    BY <1>2 DEF Attempt, Saves
  <2>2. Modest(Waiting(m))
    BY <2>1, WaitingModest DEF IInv, TypeOK
  <2> QED BY <2>1, <2>2 DEF Plainly
<1> QED BY <1>1, <1>2

\* A delivery pass and an attempt of its own record receipts of pending mail.
LEMMA DeliveryPlainly ==
  ASSUME IInv, PassStep \/ DirectAttempt
  PROVE  Plainly
<1>1. CASE PassStep
  <2>1. CASE UNCHANGED <<mail, disk, faults>>
    BY <2>1, SamePlainly DEF Saves
  <2>2. CASE ~UNCHANGED <<mail, disk, faults>>
    <3>1. PICK m \in srv.rest : Attempt([srv EXCEPT !.rest = @ \ {m}], m)
      BY <1>1, <2>2 DEF PassStep
    <3>2. PICK s : s = [srv EXCEPT !.rest = @ \ {m}]
      OBVIOUS
    <3>3. s \in Servers
      BY <3>2 DEF IInv, TypeOK, Servers
    <3>4. m \in Saved(mail)
      BY DEF IInv, Working
    <3> QED BY <3>1, <3>2, <3>3, <3>4, AttemptPlainly
  <2> QED BY <2>1, <2>2
<1>2. CASE DirectAttempt
  <2>1. srv \in Servers /\ srv.m \in Saved(mail) /\ Attempt(srv, srv.m)
    BY <1>2 DEF DirectAttempt, IInv, TypeOK, Working
  <2> QED BY <2>1, AttemptPlainly
<1> QED BY <1>1, <1>2

\* A launch that is refused ends the hand-off of a message that was not woken for.
LEMMA LaunchRefusedPlainly == ASSUME IInv, LaunchRefused PROVE Plainly
<1>1. PICK o \in {"unknown", "waiting"} : Saves(Finished(srv.m, o))
  BY DEF LaunchRefused, Saves
<1>2. srv.m \in Saved(mail) /\ wakes[srv.m] = 0
  BY DEF IInv, Working, LaunchRefused
<1>3. Modest(Finished(srv.m, o))
  BY <1>2, FinishedModest DEF IInv, TypeOK
<1> QED BY <1>1, <1>3 DEF Plainly

\* The end of a helper gives its message an outcome.
LEMMA ReapPlainly == ASSUME IInv, NEW m \in Msgs, Reap(m) PROVE Plainly
<1>1. PICK o \in {"queued", "unknown"} : Saves(Finished(m, o))
  BY DEF Reap, Saves
<1>2. m \in Saved(mail) /\ o \in WakeOutcomes
  BY OutcomesTyped DEF IInv, Working, Reap
<1>3. Modest(Finished(m, o))
  BY <1>2, FinishedModest DEF IInv, TypeOK
<1> QED BY <1>1, <1>3 DEF Plainly

\* The receipt of a queued notice.
LEMMA PromptPlainly ==
  ASSUME IInv, NEW r \in Runs, NEW n \in nqueue, PromptFromQueue(r, n)
  PROVE  Plainly
<1>1. CASE UNCHANGED <<mail, disk, faults>>
  BY <1>1, SamePlainly DEF Saves
<1>2. CASE ~UNCHANGED <<mail, disk, faults>>
  <2>1. PICK m : m = n.msg
    OBVIOUS
  <2>2. m \in Msgs
    BY <2>1 DEF IInv, TypeOK, Notices
  <2>3. /\ mail[m] # None /\ mail[m].outcome \in QueueOutcomes
        /\ Saves(Amend(mail, {m}, LAMBDA x : [x EXCEPT !.outcome = "queue-submitted"]))
    BY <1>2, <2>1 DEF PromptFromQueue, Saves
  <2>4. PICK next : next = Amend(mail, {m}, LAMBDA x : [x EXCEPT !.outcome = "queue-submitted"])
    OBVIOUS
  <2>5. next = Resolved({m}, "queue-submitted")
    BY <2>4 DEF Amend, Resolved
  <2>6. PICK S : S = {m}
    OBVIOUS
  <2>7. S \in SUBSET Saved(mail) /\ mail[m] \in Message
    BY <2>2, <2>3, <2>6, SavedMessage DEF Saved, IInv, TypeOK
  <2>8. Keeps(next)
    <3>1. "queue-submitted" \in Outcomes /\ "queue-submitted" \in WakeOutcomes
      BY OutcomesTyped
    <3>2. Keeps(Resolved(S, "queue-submitted"))
      BY <2>7, <3>1, OutcomeKeeps DEF IInv, TypeOK
    <3> QED BY <2>5, <2>6, <3>2
  <2>9. /\ \A k \in Msgs \ S : next[k] = mail[k]
        /\ \A k \in S : Derived(mail[k], next[k])
    <3>1. next[m] = [mail[m] EXCEPT !.outcome = "queue-submitted"]
      BY <2>2, <2>5 DEF Resolved
    <3>2. Derived(mail[m], next[m])
      BY <2>3, <2>7, <3>1, DerivedOutcome
    <3> QED BY <2>5, <2>6, <3>2 DEF Resolved
  <2>10. Modest(next)
    BY <2>7, <2>8, <2>9, AmendsIs DEF IInv, TypeOK
  <2> QED BY <2>3, <2>4, <2>10 DEF Plainly
<1> QED BY <1>1, <1>2

\* Every other step saves the mail as it is, or nothing.
Quiet ==
  \/ UNCHANGED vars \/ TickBegins \/ NextDurableJob \/ Launch \/ OtherSave
  \/ \E r \in Runs \union {None}, m \in Msgs : Deliver(r, m)
  \/ \E r \in Runs : \/ ToolCall(r) \/ Start(r) \/ Exit(r) \/ Settle(r) \/ FocusEnds(r)
                     \/ \E on \in BOOLEAN : SetFocus(r, on) \/ Type(r, on)
                     \/ \E c \in Convs \union {None} : Switch(r, c)
                     \/ \E e \in Events, c \in Convs : Hook(r, e, c)
  \/ \E l \in Leases : AdapterPrints(l) \/ LeaseExpires(l)
  \/ \E m \in Msgs : HelperRuns(m)

\* The other steps save the mail as it is, or leave it alone.
LEMMA QuietSaves == ASSUME Quiet PROVE Saves(mail)
<1>1. CASE UNCHANGED vars \/ TickBegins \/ NextDurableJob \/ Launch \/ OtherSave
  BY <1>1 DEF vars, server, history, TickBegins, NextDurableJob, Launch, OtherSave, Saves
<1>2. CASE \E r \in Runs \union {None}, m \in Msgs : Deliver(r, m)
  BY <1>2 DEF Deliver, history, Saves
<1>3. ASSUME NEW r \in Runs,
             \/ ToolCall(r) \/ Start(r) \/ Exit(r) \/ Settle(r) \/ FocusEnds(r)
             \/ \E on \in BOOLEAN : SetFocus(r, on) \/ Type(r, on)
             \/ \E c \in Convs \union {None} : Switch(r, c)
             \/ \E e \in Events, c \in Convs : Hook(r, e, c)
      PROVE  Saves(mail)
  BY <1>3 DEF ToolCall, Start, Exit, Settle, FocusEnds, SetFocus, Type, Switch, Hook, server, history, Saves
<1>4. CASE \E l \in Leases : AdapterPrints(l) \/ LeaseExpires(l)
  BY <1>4 DEF AdapterPrints, LeaseExpires, server, history, Saves
<1>5. CASE \E m \in Msgs : HelperRuns(m)
  BY <1>5 DEF HelperRuns, server, history, Saves
<1> QED BY <1>1, <1>2, <1>3, <1>4, <1>5 DEF Quiet

\* So they are plain steps.
LEMMA QuietPlainly == ASSUME IInv, Quiet PROVE Plainly
BY QuietSaves, SamePlainly

----------------------------------------------------------------------------
(* The stores after a save.                                                 *)

\* Adapters and leases go on: a notice is printed, lost or confirmed, a lease ends.
NotesKept(ad, ex) ==
  /\ expired \subseteq ex
  /\ \A l \in Leases :
       /\ ad[l].ids = adapter[l].ids
       /\ ad[l].st = "unused" <=> adapter[l].st = "unused"
       /\ adapter[l].st \in {"printed", "confirmed"} => ad[l].st \in {"printed", "confirmed"}
       /\ adapter[l].st = "gone" => ad[l].st = "gone"
       /\ adapter[l].st = "replied" => ad[l].st \in {"replied", "printed", "gone"}

\* A store that is left alone stays sound.
LEMMA SoundStays ==
  ASSUME NEW store, Sound(store, adapter, expired), NEW ad, NEW ex, NotesKept(ad, ex)
  PROVE  Sound(store, ad, ex)
<1>1. Contiguous(store) /\ Keyed(store) /\ Single(store)
  BY DEF Sound
<1>2. Noted(store, ad)
  BY DEF Sound, Noted, NotesKept
<1>3. Claimed(store, ad, ex)
  BY DEF Sound, Claimed, NotesKept
<1> QED BY <1>1, <1>2, <1>3 DEF Sound

\* Adapters that only go on keep the order and the holders of the leases.
LEMMA LeasesStay ==
  ASSUME Ordered(adapter), Holders(adapter, expired), NEW ad, NEW ex, NotesKept(ad, ex)
  PROVE  Ordered(ad) /\ Holders(ad, ex)
<1>1. Ordered(ad)
  BY DEF Ordered, NotesKept
<1>2. Holders(ad, ex)
  BY DEF Holders, NotesKept
<1> QED BY <1>1, <1>2

\* A version that keeps the requests of the mail.
LEMMA KeyedVersion ==
  ASSUME mail \in Mail, Contiguous(mail), Keyed(mail), NEW next, Keeps(next), Saved(next) = Saved(mail)
  PROVE  Contiguous(next) /\ Keyed(next)
<1>1. Contiguous(next)
  BY DEF Contiguous
<1>2. \A m \in Saved(mail) : /\ next[m].request = mail[m].request
                             /\ RequestKey(next, m) = RequestKey(mail, m)
  BY DEF Keeps, Follows, RequestKey
<1>3. Keyed(next)
  BY <1>2 DEF Keyed
<1> QED BY <1>1, <1>3

\* So is every version without new handoffs and notices.
LEMMA AmendedSound ==
  ASSUME mail \in Mail, Sound(mail, adapter, expired), NEW next, Keeps(next), Amends(next)
  PROVE  Sound(next, adapter, expired)
<1>1. /\ Saved(next) = Saved(mail)
      /\ \A m \in Saved(mail) : Derived(mail[m], next[m]) /\ Follows(mail[m], next[m])
  BY DEF Amends, Keeps
<1>2. Contiguous(next) /\ Keyed(next)
  BY <1>1, KeyedVersion DEF Sound
<1>3. Single(next)
  <2>1. \A m \in Saved(mail) : Outstanding(next[m]) =>
          /\ Outstanding(mail[m]) /\ next[m].run = mail[m].run /\ next[m].at = mail[m].at
          /\ next[m].to = mail[m].to
    BY <1>1 DEF Derived, Follows
  <2> QED BY <1>1, <2>1 DEF Sound, Single
<1>4. Noted(next, adapter)
  <2>1. \A m \in Saved(mail) : next[m].outcome \in Hooked =>
          next[m].outcome = mail[m].outcome /\ next[m].lease = mail[m].lease
    BY <1>1 DEF Derived
  <2> QED BY <1>1, <2>1 DEF Sound, Noted
<1>5. Claimed(next, adapter, expired)
  <2>1. \A k : \A m \in Saved(mail) : Held(mail[m], k) => Held(next[m], k)
    BY <1>1 DEF Derived, Follows, Kept, Held, Hooked
  <2> QED BY <1>1, <2>1 DEF Sound, Claimed
<1> QED BY <1>2, <1>3, <1>4, <1>5 DEF Sound

\* A store is sound after one fresh message is added at the next free position.
LEMMA AddedSound ==
  ASSUME mail \in Mail, Sound(mail, adapter, expired), NEW m \in Msgs, NEW e \in Message,
         NEW next, Adds(next, m, e)
  PROVE  Sound(next, adapter, expired)
<1>1. /\ NextFree(mail, m) /\ mail[m] = None /\ Fresh(e) /\ e # None
      /\ next[m] = e /\ \A k \in Msgs \ {m} : next[k] = mail[k]
  BY NoneAssumption DEF Adds, NextFree, Mail
<1>2. m \notin Saved(mail) /\ Saved(next) = Saved(mail) \union {m} /\ \A k \in Saved(mail) : next[k] = mail[k]
  BY <1>1 DEF Saved
<1>3. Contiguous(next)
  BY <1>1, <1>2 DEF Sound, Contiguous, NextFree, Saved
<1>4. Keyed(next)
  <2>1. \A k \in Saved(mail) : e.request # None => RequestKey(mail, k) # <<e.from, e.sender, e.request>>
    BY DEF Adds, SameRequest, RequestKey
  <2>2. RequestKey(next, m) = <<e.from, e.sender, e.request>>
    BY <1>1 DEF RequestKey
  <2>3. \A k \in Saved(mail) : /\ RequestKey(next, k) = RequestKey(mail, k)
                               /\ (e.request # None \/ mail[k].request # None) =>
                                     RequestKey(next, k) # RequestKey(next, m)
    BY <1>2, <2>1, <2>2 DEF RequestKey
  <2> QED BY <1>1, <1>2, <2>3 DEF Sound, Keyed
<1>5. Single(next)
  <2>1. ~Outstanding(next[m])
    BY <1>1 DEF Fresh, Outstanding, QueueOutcomes
  <2> QED BY <1>2, <2>1 DEF Sound, Single
<1>6. Noted(next, adapter)
  <2>1. next[m].outcome \notin Hooked
    BY <1>1 DEF Fresh, Hooked
  <2> QED BY <1>2, <2>1 DEF Sound, Noted
<1>7. Claimed(next, adapter, expired)
  BY <1>2 DEF Sound, Claimed
<1> QED BY <1>3, <1>4, <1>5, <1>6, <1>7 DEF Sound

\* What a step changes, whatever its save's outcome is.
LEMMA SavesTake ==
  ASSUME NEW next, Saves(next)
  PROVE  (mail' = mail /\ disk' \in {disk, next}) \/ (mail' = next /\ disk' = next)
BY DEF Saves, Commits, CommitFails

\* Replies stay true to their messages.
LEMMA AnsweredStays ==
  ASSUME Answered, NEW next, Keeps(next), mail' \in {mail, next}, replies' = replies
  PROVE  Answered'
<1>1. \A m \in Saved(mail) : /\ m \in Msgs /\ mail'[m] # None
                             /\ RequestKey(mail', m) = RequestKey(mail, m)
  BY DEF Keeps, Follows, Kept, RequestKey, Saved
<1> QED BY <1>1 DEF Answered, Saved, RequestKey

\* The stores after a plain step.
LEMMA PlainStores ==
  ASSUME IInv, Stores, Plainly, NotesKept(adapter', expired')
  PROVE  /\ Sound(mail', adapter', expired') /\ Sound(disk', adapter', expired')
         /\ Ordered(adapter') /\ Holders(adapter', expired') /\ Ahead'
         /\ replies' = replies => Answered'
<1> USE DEF Stores
<1>1. PICK next : Modest(next) /\ Saves(next)
  BY DEF Plainly
<1>2. mail \in Mail /\ Keeps(next)
  BY <1>1 DEF IInv, TypeOK, Modest
<1>3. Sound(next, adapter, expired)
  BY <1>1, <1>2, AmendedSound, AddedSound DEF Modest
<1>4. /\ Sound(mail, adapter', expired') /\ Sound(disk, adapter', expired')
      /\ Sound(next, adapter', expired')
  BY <1>3, SoundStays
<1>5. (mail' = mail /\ disk' \in {disk, next}) \/ (mail' = next /\ disk' = next)
  BY <1>1, SavesTake
<1>6. Ahead'
  <2>1. CASE mail' = mail /\ disk' = disk
    BY <2>1 DEF Ahead, Saved, NextFree
  <2>2. CASE mail' = next /\ disk' = next
    BY <2>2 DEF Ahead, Saved
  <2>3. CASE mail' = mail /\ disk' = next
    <3>1. CASE Amends(next)
      BY <2>3, <3>1 DEF Amends, Ahead, Saved
    <3>2. CASE \E m \in Msgs, e \in Message : Adds(next, m, e)
      <4>1. PICK m \in Msgs, e \in Message : Adds(next, m, e)
        BY <3>2
      <4>2. /\ NextFree(mail, m) /\ Fresh(e) /\ e # None
            /\ next[m] = e /\ \A k \in Msgs \ {m} : next[k] = mail[k]
        BY <1>2, <4>1, NoneAssumption DEF Adds, Mail
      <4> QED BY <2>3, <4>2 DEF Ahead, NextFree
    <3> QED BY <1>1, <3>1, <3>2 DEF Modest
  <2> QED BY <1>5, <2>1, <2>2, <2>3
<1>7. replies' = replies => Answered'
  BY <1>2, <1>5, AnsweredStays
<1> QED BY <1>4, <1>5, <1>6, <1>7, LeasesStay

----------------------------------------------------------------------------
(* The attempt after a step.                                                *)

\* The supervisor is between attempts.
Calm(s) ==
  s.pc \notin {"saving", "launch"} /\ s.touched = FALSE /\ s.stray = FALSE /\ s.left = 0

\* Nothing is asked of an attempt that is not made,
LEMMA CalmAttempting == ASSUME Calm(srv') PROVE Attempting'
<1>1. /\ srv'.pc \notin {"saving", "launch"} /\ srv'.touched = FALSE /\ srv'.stray = FALSE
      /\ srv'.left = 0
  BY DEF Calm
<1>2. Clear' /\ Addressed' /\ Untouched'
  BY <1>1 DEF Clear, Addressed, Untouched
<1> QED BY <1>2 DEF Attempting

\* and an attempt goes on while the mail stays as it is.
LEMMA AttemptingStays ==
  ASSUME Attempting, srv' = srv, mail' = mail \/ srv.pc \notin {"saving", "launch"}
  PROVE  Attempting'
<1>1. Untouched'
  BY DEF Attempting, Untouched
<1>2. CASE mail' = mail
  <2>1. Clear'
    BY <1>2 DEF Attempting, Clear, Saved
  <2>2. Addressed'
    BY <1>2 DEF Attempting, Addressed
  <2> QED BY <1>1, <2>1, <2>2 DEF Attempting
<1>3. CASE srv.pc \notin {"saving", "launch"}
  BY <1>1, <1>3 DEF Attempting, Clear, Addressed
<1> QED BY <1>2, <1>3

\* An operation begins, ends and resumes without an attempt.
LEMMA CalmWork ==
  /\ Calm(Idle)
  /\ \A rest, start : Calm(Pass(rest, start))
  /\ \A op, r, m : Calm(Trying(op, r, m)) /\ Calm(Replying(op, r, m))
  /\ \A s : Calm(Resume(s)) /\ Calm(ResumeError(s))
<1>1. \A pc, op, r, m, rest, start :
        pc \notin {"saving", "launch"} => Calm(Work(pc, op, r, m, rest, start))
  BY DEF Calm, Work
<1>2. /\ Calm(Idle)
      /\ \A rest, start : Calm(Pass(rest, start))
      /\ \A op, r, m : Calm(Trying(op, r, m)) /\ Calm(Replying(op, r, m))
  BY <1>1 DEF Idle, Pass, Trying, Replying
<1>3. \A s : Calm(Resume(s)) /\ Calm(ResumeError(s))
  <2> TAKE s
  <2>1. Calm(Resume(s))
    <3>1. Resume(s) \in {Pass(s.rest, s.start), Replying(s.op, s.caller, s.m), Idle}
      BY DEF Resume
    <3> QED BY <1>2, <3>1
  <2> QED BY <1>2, <2>1 DEF ResumeError
<1> QED BY <1>2, <1>3

\* Only a run that may be woken gets a reservation.
LEMMA WakeableAddressed ==
  ASSUME IInv, NEW m \in Saved(mail), Pending(mail[m]), NEW r \in Runs, CanWake(m, r)
  PROVE  /\ Harness[r] = "codex" /\ Home[r] = mail[m].to /\ ForConversation(mail[m], talk[r])
         /\ ~mail[m].acked /\ ~mail[m].native
         /\ \A k \in Saved(mail) : Outstanding(mail[k]) =>
              mail[k].run # r /\ ~(mail[k].to = mail[m].to /\ mail[k].at = talk[r])
<1>1. /\ MessageRecipient(mail[m], r) /\ Harness[r] = "codex" /\ ForConversation(mail[m], talk[r])
      /\ ~HandoffOutstanding(m, r)
  BY DEF CanWake
<1>2. Home[r] = mail[m].to
  BY <1>1 DEF MessageRecipient, LiveAt, ConversationRecipient, CodexAt
<1>3. ~mail[m].acked /\ ~mail[m].native
  BY DEF Pending
<1>4. \A k \in Saved(mail) : Outstanding(mail[k]) =>
         mail[k].run # r /\ ~(mail[k].to = mail[m].to /\ mail[k].at = talk[r])
  BY <1>1 DEF HandoffOutstanding
<1> QED BY <1>1, <1>2, <1>3, <1>4

\* An attempt begins a hand-off to a run that CanWake allows, whose chat and input are as CanWake
\* saw them.
LEMMA AttemptAttempting ==
  ASSUME IInv, NEW s \in Servers, ~s.touched, ~s.stray, NEW m \in Saved(mail), Attempt(s, m)
  PROVE  Attempting'
<1>1. CASE srv' = Resume(s) \/ srv' = ResumeError(s)
  BY <1>1, CalmWork, CalmAttempting
<1>2. CASE /\ Pending(mail[m]) /\ UNCHANGED <<mail, disk, faults>>
           /\ \E r \in Runs : \E more \in IF Activates /\ ~records THEN {0, 2} ELSE {0} :
                /\ CanWake(m, r)
                /\ srv' = [s EXCEPT !.pc = "saving", !.m = m, !.run = r,
                                   !.conv = talk[r], !.left = more]
  <2>1. PICK r \in Runs, more \in IF Activates /\ ~records THEN {0, 2} ELSE {0} :
          /\ CanWake(m, r)
          /\ srv' = [s EXCEPT !.pc = "saving", !.m = m, !.run = r,
                             !.conv = talk[r], !.left = more]
    BY <1>2
  <2>2. /\ srv'.pc = "saving" /\ srv'.m = m /\ srv'.run = r /\ srv'.conv = talk[r]
        /\ srv'.left = more /\ srv'.touched = s.touched /\ srv'.stray = s.stray
    <3>1. PICK c : c = talk[r]
      OBVIOUS
    <3>2. srv' = [s EXCEPT !.pc = "saving", !.m = m, !.run = r, !.conv = c, !.left = more]
      BY <2>1, <3>1
    <3> QED BY <3>1, <3>2 DEF Servers
  <2>3. mail' = mail /\ ~Activates => more = 0
    BY <1>2, <2>1
  <2>4. Clear'
    BY <1>2, <2>1, <2>2, WakeableAddressed DEF Clear, Saved
  <2>5. Addressed'
    BY <1>2, <2>1, <2>2, WakeableAddressed DEF Addressed
  <2>6. s.touched = FALSE /\ s.stray = FALSE
    BY DEF Servers
  <2>7. Untouched'
    BY <2>2, <2>3, <2>6 DEF Untouched
  <2> QED BY <2>4, <2>5, <2>7 DEF Attempting
<1> QED BY <1>1, <1>2 DEF Attempt

\* The two ways to an attempt,
LEMMA DeliveryAttempting ==
  ASSUME SInv, PassStep \/ DirectAttempt
  PROVE  Attempting'
<1>1. srv \in Servers /\ (srv.pc \notin {"saving", "launch"} => ~srv.touched /\ ~srv.stray)
  BY DEF SInv, IInv, TypeOK, Attempting, Untouched
<1>2. CASE PassStep
  <2>1. CASE srv' = Idle
    BY <2>1, CalmWork, CalmAttempting
  <2>2. CASE srv' # Idle
    <3>1. PICK m \in srv.rest : Attempt([srv EXCEPT !.rest = @ \ {m}], m)
      BY <1>2, <2>2 DEF PassStep
    <3>2. PICK s : s = [srv EXCEPT !.rest = @ \ {m}]
      OBVIOUS
    <3>3. /\ s \in Servers /\ s.touched = srv.touched /\ s.stray = srv.stray
      BY <1>1, <3>2 DEF Servers
    <3>4. m \in Saved(mail) /\ srv.pc = "pass"
      BY <1>2 DEF SInv, IInv, Working, PassStep
    <3> QED BY <1>1, <3>1, <3>2, <3>3, <3>4, AttemptAttempting DEF SInv
  <2> QED BY <2>1, <2>2
<1>3. CASE DirectAttempt
  <2>1. srv.pc = "direct" /\ srv.m \in Saved(mail) /\ Attempt(srv, srv.m)
    BY <1>3 DEF DirectAttempt, SInv, IInv, Working
  <2> QED BY <1>1, <2>1, AttemptAttempting DEF SInv
<1> QED BY <1>2, <1>3

\* the jobs of its save, of which there is one when no save moves the mail,
LEMMA DurableAttempting ==
  ASSUME SInv, NextDurableJob
  PROVE  Attempting'
<1>1. /\ srv.pc = "saving" /\ srv.left > 0 /\ mail' = mail /\ srv \in Servers
      /\ srv' = [srv EXCEPT !.left = @ - 1, !.touched = FALSE]
  BY DEF NextDurableJob, SInv, IInv, TypeOK
<1>2. /\ srv'.pc = srv.pc /\ srv'.m = srv.m /\ srv'.run = srv.run /\ srv'.conv = srv.conv
  BY <1>1 DEF Servers
<1>3. Activates
  BY <1>1 DEF SInv, Attempting, Untouched
<1>4. Untouched'
  BY <1>1, <1>2, <1>3, LimitsAssumption DEF Untouched
<1>5. Clear' /\ Addressed'
  BY <1>1, <1>2 DEF SInv, Attempting, Clear, Addressed, Saved
<1> QED BY <1>4, <1>5 DEF Attempting

\* and the input that a save records.
LEMMA TypeAttempting ==
  ASSUME SInv, NEW r \in Runs, NEW leaves \in BOOLEAN, Type(r, leaves)
  PROVE  Attempting'
<1>1. /\ srv.pc \in {"idle", "saving"} /\ mail' = mail /\ srv \in Servers
      /\ srv' = IF srv.pc = "saving" /\ srv.run = r
                THEN [srv EXCEPT !.touched = TRUE, !.stray = TRUE] ELSE srv
  BY DEF Type, SInv, IInv, TypeOK
<1>2. /\ srv'.pc = srv.pc /\ srv'.m = srv.m /\ srv'.run = srv.run /\ srv'.conv = srv.conv
      /\ srv'.left = srv.left
      /\ (srv.pc = "saving" /\ srv'.touched = TRUE /\ srv'.stray = TRUE) \/ srv' = srv
  BY <1>1 DEF Servers
<1>3. Untouched'
  BY <1>1, <1>2 DEF SInv, Attempting, Untouched
<1>4. Clear' /\ Addressed'
  BY <1>1, <1>2 DEF SInv, Attempting, Clear, Addressed, Saved
<1> QED BY <1>3, <1>4 DEF Attempting

\* The reservation keeps what the launch relies on.
LEMMA ReservedMessage ==
  ASSUME IInv, srv.pc = "saving"
  PROVE  /\ srv.m \in Saved(mail) /\ mail[srv.m] \in Message /\ Keeps(Reserved)
         /\ Saved(Reserved) = Saved(mail)
         /\ \A k \in Msgs \ {srv.m} : Reserved[k] = mail[k]
         /\ Reserved[srv.m].outcome = "queue-prepared" /\ Reserved[srv.m].run = srv.run
         /\ Reserved[srv.m].at = srv.conv /\ Reserved[srv.m].to = mail[srv.m].to
         /\ Reserved[srv.m].conv = mail[srv.m].conv
         /\ Reserved[srv.m].acked = mail[srv.m].acked
         /\ Reserved[srv.m].native = mail[srv.m].native
<1>1. /\ srv.m \in Saved(mail) /\ Pending(mail[srv.m]) /\ srv.run \in Runs /\ srv.conv \in Convs
      /\ mail \in Mail /\ WakesRecorded
  BY DEF IInv, Working, TypeOK
<1>2. srv.m \in Msgs /\ mail[srv.m] \in Message
  BY <1>1, SavedMessage
<1>3. Keeps(Reserved)
  BY <1>1, AttemptKeeps
<1>4. Reserved \in Mail /\ \A m \in Saved(mail) : Reserved[m] # None
  BY <1>3 DEF Keeps, Follows, Kept
<1>5. /\ Reserved[srv.m] = Receipt(mail[srv.m], "queue-prepared", srv.run, srv.conv, 0)
      /\ \A k \in Msgs \ {srv.m} : Reserved[k] = mail[k]
  BY <1>2 DEF Reserved, Amend
<1>6. Saved(Reserved) = Saved(mail)
  <2> HIDE DEF Reserved
  <2> QED BY <1>1, <1>4, <1>5 DEF Saved
<1>7. PICK e : e = mail[srv.m]
  OBVIOUS
<1>8. PICK r, c : r = srv.run /\ c = srv.conv
  OBVIOUS
<1>9. PICK x : x = Receipt(e, "queue-prepared", r, c, 0)
  OBVIOUS
<1>10. /\ x.outcome = "queue-prepared" /\ x.run = r /\ x.at = c /\ x.to = e.to /\ x.conv = e.conv
       /\ x.acked = e.acked /\ x.native = e.native
  BY <1>2, <1>7, <1>9 DEF Receipt, Message
<1>11. Reserved[srv.m] = x
  BY <1>5, <1>7, <1>8, <1>9
<1> HIDE DEF Reserved
<1> QED BY <1>1, <1>2, <1>3, <1>5, <1>6, <1>7, <1>8, <1>10, <1>11

\* The reservation, saved: the hand-off is on record and the only one of its run and chat.
LEMMA ReservedAttempting ==
  ASSUME SInv, ReservationSaved
  PROVE  Attempting'
<1>1. srv.pc = "saving" /\ srv.left = 0 /\ mail' = Reserved /\ srv' = [srv EXCEPT !.pc = "launch"]
      /\ srv \in Servers
  BY DEF ReservationSaved, Commits, SInv, IInv, TypeOK
<1>2. /\ srv'.pc = "launch" /\ srv'.m = srv.m /\ srv'.run = srv.run /\ srv'.conv = srv.conv
      /\ srv'.touched = srv.touched /\ srv'.stray = srv.stray /\ srv'.left = srv.left
  BY <1>1 DEF Servers
<1>3. Clear'
  BY <1>2 DEF Clear
<1>4. Untouched'
  BY <1>1, <1>2 DEF SInv, Attempting, Untouched
<1>5. Addressed'
  <2>1. PICK next : next = Reserved
    OBVIOUS
  <2>2. /\ next[srv.m].to = mail[srv.m].to /\ next[srv.m].conv = mail[srv.m].conv
        /\ next[srv.m].acked = mail[srv.m].acked /\ next[srv.m].native = mail[srv.m].native
    BY <1>1, <2>1, ReservedMessage DEF SInv
  <2>3. mail' = next
    BY <1>1, <2>1
  <2> QED BY <1>1, <1>2, <2>2, <2>3 DEF SInv, Attempting, Addressed, ForConversation
<1> QED BY <1>3, <1>4, <1>5 DEF Attempting

----------------------------------------------------------------------------
(* The steps that save nothing new.                                         *)

\* Notices wait while adapters do nothing.
LEMMA NotesStay == ASSUME adapter' = adapter, expired' = expired PROVE NotesKept(adapter', expired')
BY DEF NotesKept

\* An adapter prints, dies, or is confirmed; a lease ends.
LEMMA NotesGo ==
  ASSUME adapter \in [Leases -> Adapters], NEW l \in Leases,
         \/ AdapterPrints(l) \/ LeaseExpires(l) \/ Confirm(l)
  PROVE  NotesKept(adapter', expired')
<1>1. CASE LeaseExpires(l)
  BY <1>1 DEF LeaseExpires, NotesKept
<1>2. CASE AdapterPrints(l) \/ Confirm(l)
  <2>1. PICK s \in {"printed", "gone", "confirmed"} :
          /\ adapter' = [adapter EXCEPT ![l].st = s] /\ expired' = expired
          /\ adapter[l].st = "replied" \/ (adapter[l].st = "printed" /\ s = "confirmed")
          /\ adapter[l].st = "replied" => s \in {"printed", "gone"}
    BY <1>2 DEF AdapterPrints, Confirm
  <2>2. /\ adapter'[l].st = s /\ adapter'[l].ids = adapter[l].ids
        /\ \A k \in Leases \ {l} : adapter'[k] = adapter[k]
    BY <2>1 DEF Adapters
  <2> QED BY <2>1, <2>2 DEF NotesKept
<1> QED BY <1>1, <1>2

\* A save of what a step may save keeps the stores.
LEMMA PlainStep ==
  ASSUME SInv, Plainly, NotesKept(adapter', expired'), replies' = replies
  PROVE  Stores'
<1>1. IInv /\ Stores
  BY DEF SInv
<1>2. /\ Sound(mail', adapter', expired') /\ Sound(disk', adapter', expired')
      /\ Ordered(adapter') /\ Holders(adapter', expired') /\ Ahead' /\ Answered'
  BY <1>1, PlainStores
<1> QED BY <1>2 DEF Stores

\* The supervisor's own steps, without those of a reservation.
LEMMA SupervisorStays ==
  ASSUME SInv,
         \/ TickBegins \/ PassStep \/ DirectAttempt \/ NextDurableJob \/ Launch
         \/ LaunchRefused \/ OtherSave \/ \E m \in Msgs : Reap(m)
  PROVE  Stores' /\ Attempting'
<1>1. IInv /\ Attempting
  BY DEF SInv
<1>2. Plainly
  BY <1>1, QuietPlainly, DeliveryPlainly, LaunchRefusedPlainly, ReapPlainly DEF Quiet
<1>3. adapter' = adapter /\ expired' = expired /\ replies' = replies
  BY DEF TickBegins, PassStep, DirectAttempt, NextDurableJob, Launch, LaunchRefused, OtherSave, Reap,
         outside, history
<1>4. Stores'
  BY <1>2, <1>3, NotesStay, PlainStep
<1>5. CASE TickBegins \/ Launch \/ LaunchRefused
  <2>1. Calm(srv')
    BY <1>5, CalmWork DEF TickBegins, Launch, LaunchRefused
  <2> QED BY <1>4, <2>1, CalmAttempting
<1>6. CASE OtherSave \/ \E m \in Msgs : Reap(m)
  <2>1. srv.pc = "idle" /\ srv' = srv
    BY <1>6 DEF OtherSave, Reap
  <2> QED BY <1>1, <1>4, <2>1, AttemptingStays
<1> QED BY <1>4, <1>5, <1>6, DeliveryAttempting, DurableAttempting

\* Sending, reading and acknowledging.
LEMMA ClientsStay ==
  ASSUME SInv, Clients
  PROVE  Stores' /\ Attempting'
<1>1. IInv /\ Attempting
  BY DEF SInv
<1>2. Plainly
  BY <1>1, SendChatPlainly, SendCardPlainly, QuietPlainly, InboxPlainly, ReadBodiesPlainly,
     HumanInboxPlainly DEF Clients, Quiet
<1>3. /\ adapter' = adapter /\ expired' = expired /\ replies' = replies
      /\ Calm(srv') \/ (srv' = srv /\ srv.pc = "idle")
  <2> DEFINE Frame == /\ adapter' = adapter /\ expired' = expired /\ replies' = replies
                      /\ Calm(srv') \/ (srv' = srv /\ srv.pc = "idle")
  <2>1. ASSUME NEW r \in Runs, NEW q \in Runs, NEW x \in Requests, SendChat(r, q, x)
        PROVE  Frame
    BY <2>1, CalmWork DEF SendChat, outside
  <2>2. ASSUME NEW r \in Runs \union {None}, NEW w \in Workspaces, NEW i \in Intents, SendCard(r, w, i)
        PROVE  Frame
    BY <2>2, CalmWork DEF SendCard, outside
  <2>3. ASSUME NEW r \in Runs \union {None}, NEW m \in Msgs, Deliver(r, m)
        PROVE  Frame
    BY <2>3, CalmWork DEF Deliver, outside, history
  <2>4. ASSUME NEW r \in Runs, ToolCall(r)
        PROVE  Frame
    BY <2>4, CalmWork DEF ToolCall, outside, history
  <2>5. ASSUME NEW r \in Runs, NEW S \in SUBSET Msgs, NEW after \in 0..MaxMsg,
               NEW limit \in PageLimits, NEW all \in BOOLEAN, Inbox(r, S, after, limit, all)
        PROVE  Frame
    BY <2>5 DEF Inbox, outside
  <2>6. ASSUME NEW r \in Runs, NEW S \in SUBSET Msgs, ReadBodies(r, S)
        PROVE  Frame
    BY <2>6 DEF ReadBodies, outside
  <2>7. ASSUME NEW r \in Runs, NEW on \in BOOLEAN, SetFocus(r, on)
        PROVE  Frame
    BY <2>7 DEF SetFocus, outside
  <2>8. ASSUME NEW w \in Workspaces, NEW S \in SUBSET Msgs, HumanInbox(w, S)
        PROVE  Frame
    BY <2>8 DEF HumanInbox, outside
  <2> HIDE DEF Frame
  <2>9. Frame
    BY <2>1, <2>2, <2>3, <2>4, <2>5, <2>6, <2>7, <2>8 DEF Clients
  <2> QED BY <2>9 DEF Frame
<1>4. Stores'
  BY <1>2, <1>3, NotesStay, PlainStep
<1> QED BY <1>1, <1>3, <1>4, CalmAttempting, AttemptingStays

\* The steps of natives and users, without those that carry a notice.
LEMMA NativesStay ==
  ASSUME SInv,
         \/ UNCHANGED vars
         \/ \E r \in Runs : \/ Start(r) \/ Exit(r) \/ Settle(r) \/ FocusEnds(r)
                            \/ \E on \in BOOLEAN : Type(r, on)
                            \/ \E c \in Convs \union {None} : Switch(r, c)
                            \/ \E e \in Events, c \in Convs : Hook(r, e, c)
                            \/ \E n \in nqueue : PromptFromQueue(r, n)
         \/ \E l \in Leases : AdapterPrints(l) \/ LeaseExpires(l)
         \/ \E m \in Msgs : HelperRuns(m)
  PROVE  Stores' /\ Attempting'
<1>1. IInv /\ Attempting /\ adapter \in [Leases -> Adapters]
  BY DEF SInv, IInv, TypeOK
<1>2. Plainly
  BY <1>1, QuietPlainly, PromptPlainly DEF Quiet
<1>3. CASE \/ UNCHANGED vars
           \/ \E r \in Runs : \/ Start(r) \/ Exit(r) \/ Settle(r) \/ FocusEnds(r)
                              \/ \E on \in BOOLEAN : Type(r, on)
                              \/ \E c \in Convs \union {None} : Switch(r, c)
                              \/ \E e \in Events, c \in Convs : Hook(r, e, c)
                              \/ \E n \in nqueue : PromptFromQueue(r, n)
           \/ \E m \in Msgs : HelperRuns(m)
  <2>1. adapter' = adapter /\ expired' = expired /\ replies' = replies
    <3>1. CASE UNCHANGED vars
      BY <3>1 DEF vars, outside, history
    <3>2. ASSUME NEW r \in Runs,
                 \/ Start(r) \/ Exit(r) \/ Settle(r) \/ FocusEnds(r)
                 \/ \E on \in BOOLEAN : Type(r, on)
                 \/ \E c \in Convs \union {None} : Switch(r, c)
                 \/ \E e \in Events, c \in Convs : Hook(r, e, c)
          PROVE  adapter' = adapter /\ expired' = expired /\ replies' = replies
      BY <3>2 DEF Start, Exit, Settle, FocusEnds, Type, Switch, Hook, outside, history
    <3>3. ASSUME NEW r \in Runs, \E n \in nqueue : PromptFromQueue(r, n)
          PROVE  adapter' = adapter /\ expired' = expired /\ replies' = replies
      BY <3>3 DEF PromptFromQueue
    <3>4. CASE \E m \in Msgs : HelperRuns(m)
      BY <3>4 DEF HelperRuns, history
    <3> QED BY <1>3, <3>1, <3>2, <3>3, <3>4
  <2>2. Stores'
    BY <1>2, <2>1, NotesStay, PlainStep
  <2>3. CASE \E r \in Runs : \E on \in BOOLEAN : Type(r, on)
    BY <2>2, <2>3, TypeAttempting
  <2>4. CASE UNCHANGED vars
    <3>1. srv' = srv /\ mail' = mail
      BY <2>4 DEF vars, server
    <3> QED BY <1>1, <2>2, <3>1, AttemptingStays
  <2>5. ASSUME NEW r \in Runs,
               \/ Start(r) \/ Exit(r) \/ Settle(r) \/ FocusEnds(r)
               \/ \E c \in Convs \union {None} : Switch(r, c)
               \/ \E e \in Events, c \in Convs : Hook(r, e, c)
        PROVE  Stores' /\ Attempting'
    <3>1. srv' = srv /\ (mail' = mail \/ srv.pc = "idle")
      BY <2>5 DEF Start, Exit, Settle, FocusEnds, Switch, Hook, HookConv, server
    <3> QED BY <1>1, <2>2, <3>1, AttemptingStays
  <2>6. ASSUME NEW r \in Runs, NEW n \in nqueue, PromptFromQueue(r, n)
        PROVE  Stores' /\ Attempting'
    <3>1. srv' = srv /\ (mail' = mail \/ srv.pc = "idle")
      BY <2>6 DEF PromptFromQueue
    <3> QED BY <1>1, <2>2, <3>1, AttemptingStays
  <2>7. CASE \E m \in Msgs : HelperRuns(m)
    <3>1. srv' = srv /\ mail' = mail
      BY <2>7 DEF HelperRuns, server
    <3> QED BY <1>1, <2>2, <3>1, AttemptingStays
  <2> QED BY <1>3, <2>3, <2>4, <2>5, <2>6, <2>7
<1>4. CASE \E l \in Leases : AdapterPrints(l) \/ LeaseExpires(l)
  <2>1. NotesKept(adapter', expired')
    BY <1>1, <1>4, NotesGo
  <2>2. replies' = replies /\ srv' = srv /\ mail' = mail
    BY <1>4 DEF AdapterPrints, LeaseExpires, server, history
  <2> QED BY <1>1, <1>2, <2>1, <2>2, PlainStep, AttemptingStays
<1> QED BY <1>3, <1>4

\* A reply names the message that its request is saved as.
LEMMA ReplyStays == ASSUME SInv, Reply PROVE Stores' /\ Attempting'
<1>1. IInv /\ Stores
  BY DEF SInv
<1>2. /\ Plainly /\ adapter' = adapter /\ expired' = expired
  BY <1>1, ReplyPlainly DEF Reply, outside
<1>3. /\ Sound(mail', adapter', expired') /\ Sound(disk', adapter', expired')
      /\ Ordered(adapter') /\ Holders(adapter', expired') /\ Ahead'
  BY <1>1, <1>2, NotesStay, PlainStores
<1>4. Answered'
  <2>1. PICK next : Modest(next) /\ Saves(next)
    BY <1>2 DEF Plainly
  <2>2. \A m \in Saved(mail) : /\ m \in Msgs /\ mail'[m] # None
                               /\ RequestKey(mail', m) = RequestKey(mail, m)
    <3>1. mail' \in {mail, next} /\ Keeps(next)
      BY <2>1, SavesTake DEF Modest
    <3> QED BY <3>1 DEF Keeps, Follows, Kept, RequestKey, Saved
  <2>3. ASSUME NEW x \in replies'
        PROVE  x.msg \in Saved(mail) /\ x.key = RequestKey(mail, x.msg)
    <3>1. CASE x \in replies
      BY <1>1, <3>1 DEF Stores, Answered
    <3>2. CASE x \notin replies
      <4>1. /\ srv.pc = "reply" /\ srv.op = "send"
            /\ x = [key |-> <<mail[srv.m].from, mail[srv.m].sender, mail[srv.m].request>>,
                    msg |-> srv.m]
        BY <2>3, <3>2 DEF Reply
      <4> QED BY <1>1, <4>1 DEF IInv, Working, RequestKey
    <3> QED BY <3>1, <3>2
  <2>4. \A x \in replies' : x.msg \in Saved(mail)' /\ x.key = RequestKey(mail', x.msg)
    BY <2>2, <2>3 DEF Saved
  <2> QED BY <2>4 DEF Answered, RequestKey
<1>5. Calm(srv')
  BY CalmWork DEF Reply
<1> QED BY <1>3, <1>4, <1>5, CalmAttempting DEF Stores

----------------------------------------------------------------------------
(* The steps that begin and end attempts and notices, and the restart.      *)

\* The stores after a save that adds no message.
LEMMA StoresAfter ==
  ASSUME SInv, NEW next, Keeps(next), Saved(next) = Saved(mail), replies' = replies,
         (mail' = mail /\ disk' \in {disk, next}) \/ (mail' = next /\ disk' = next),
         Sound(mail', adapter', expired'), Sound(disk', adapter', expired'),
         Ordered(adapter'), Holders(adapter', expired')
  PROVE  Stores'
<1>1. Answered'
  <2>1. mail' \in {mail, next}
    OBVIOUS
  <2> QED BY <2>1, AnsweredStays DEF SInv, Stores
<1>2. Ahead'
  <2>1. CASE mail' = mail /\ disk' = disk
    BY <2>1 DEF SInv, Stores, Ahead, Saved, NextFree
  <2>2. CASE mail' = mail /\ disk' = next
    BY <2>2 DEF Ahead, Saved
  <2>3. CASE mail' = next /\ disk' = next
    BY <2>3 DEF Ahead, Saved
  <2> QED BY <2>1, <2>2, <2>3
<1> QED BY <1>1, <1>2 DEF Stores

\* The reservation is the one outstanding handoff of its run and conversation.
LEMMA ReservedSound ==
  ASSUME SInv, srv.pc = "saving"
  PROVE  Sound(Reserved, adapter, expired)
<1>1. /\ IInv /\ mail \in Mail /\ Sound(mail, adapter, expired) /\ Clear /\ Pending(mail[srv.m])
  BY DEF SInv, IInv, TypeOK, Stores, Attempting, Working
<1>2. PICK next : next = Reserved
  OBVIOUS
<1>3. PICK m : m = srv.m
  OBVIOUS
<1>4. /\ m \in Saved(mail) /\ Keeps(next) /\ Saved(next) = Saved(mail)
      /\ \A k \in Msgs \ {m} : next[k] = mail[k]
      /\ next[m].outcome = "queue-prepared" /\ next[m].run = srv.run
      /\ next[m].at = srv.conv /\ next[m].to = mail[m].to
  BY <1>1, <1>2, <1>3, ReservedMessage
<1>5. \A k \in Saved(mail) : k \in Msgs
  BY DEF Saved
<1>6. Contiguous(next) /\ Keyed(next)
  BY <1>1, <1>4, KeyedVersion DEF Sound
<1>7. Single(next)
  <2>1. \A k \in Saved(mail) \ {m} : Outstanding(next[k]) =>
          next[k].run # next[m].run /\ ~(next[k].to = next[m].to /\ next[k].at = next[m].at)
    BY <1>1, <1>3, <1>4, <1>5 DEF Clear
  <2>2. \A j, k \in Saved(mail) \ {m} :
          (j # k /\ Outstanding(next[j]) /\ Outstanding(next[k])) =>
            next[j].run # next[k].run /\ ~(next[j].to = next[k].to /\ next[j].at = next[k].at)
    BY <1>1, <1>4, <1>5 DEF Sound, Single
  <2> QED BY <1>4, <2>1, <2>2 DEF Single
<1>8. Noted(next, adapter)
  <2>1. next[m].outcome \notin Hooked
    BY <1>4 DEF Hooked
  <2> QED BY <1>1, <1>4, <1>5, <2>1 DEF Sound, Noted
<1>9. Claimed(next, adapter, expired)
  <2>1. \A k : ~Held(mail[m], k)
    BY <1>1, <1>3 DEF Held, Pending, NoticeOutcomes
  <2> QED BY <1>1, <1>4, <1>5, <2>1 DEF Sound, Claimed
<1>10. Sound(next, adapter, expired)
  BY <1>6, <1>7, <1>8, <1>9 DEF Sound
<1> QED BY <1>2, <1>10

\* So is its save, whatever becomes of it.
LEMMA ReservationStays ==
  ASSUME SInv, ReservationSaved \/ ReservationFails
  PROVE  Stores' /\ Attempting'
<1>1. /\ IInv /\ srv.pc = "saving" /\ adapter' = adapter /\ expired' = expired /\ replies' = replies
  BY DEF SInv, ReservationSaved, ReservationFails, outside
<1>2. PICK next : next = Reserved
  OBVIOUS
<1>3. /\ Keeps(next) /\ Saved(next) = Saved(mail) /\ Sound(next, adapter, expired)
      /\ srv.m \in Saved(mail) /\ Pending(mail[srv.m])
  BY <1>1, <1>2, ReservedMessage, ReservedSound DEF IInv, Working
<1>4. CASE Saves(next)
  <2>1. (mail' = mail /\ disk' \in {disk, next}) \/ (mail' = next /\ disk' = next)
    BY <1>4, SavesTake
  <2>2. /\ Sound(mail, adapter, expired) /\ Sound(disk, adapter, expired)
        /\ Ordered(adapter) /\ Holders(adapter, expired)
    BY DEF SInv, Stores
  <2>3. Stores'
    BY <1>1, <1>3, <2>1, <2>2, StoresAfter
  <2> QED BY <2>3, ReservedAttempting, CalmWork, CalmAttempting DEF ReservationFails
<1>5. CASE Saves(Waiting(srv.m)) /\ ReservationFails
  <2>1. Modest(Waiting(srv.m))
    BY <1>3, WaitingModest DEF SInv, IInv, TypeOK
  <2>2. Plainly
    BY <1>5, <2>1 DEF Plainly
  <2> QED BY <1>1, <1>5, <2>2, NotesStay, PlainStep, CalmWork, CalmAttempting DEF ReservationFails
<1>6. Saves(Reserved) \/ (Saves(Waiting(srv.m)) /\ ReservationFails)
  BY DEF ReservationSaved, ReservationFails, Saves
<1> QED BY <1>2, <1>4, <1>5, <1>6

\* The mail with a notice under lease l.
LEMMA NoticeMail ==
  ASSUME mail \in Mail, WakesRecorded, NEW r \in Runs, NEW c \in Convs, NEW l \in Leases,
         NEW ids \in SUBSET Saved(mail), \A m \in ids : mail[m].outcome \notin WakeOutcomes,
         NEW next, next = Received(ids, "hook-prepared", r, c, l)
  PROVE  /\ Keeps(next) /\ Saved(next) = Saved(mail)
         /\ \A m \in ids : next[m].outcome = "hook-prepared" /\ next[m].lease = l
         /\ \A m \in Msgs \ ids : next[m] = mail[m]
<1>1. l \in 0..MaxLease /\ "hook-prepared" \in Outcomes
  BY BoundsAssumption, OutcomesTyped DEF Leases
<1>2. Keeps(next)
  BY <1>1, ReceiptKeeps
<1>3. next \in Mail /\ \A m \in Saved(mail) : next[m] # None
  BY <1>2 DEF Keeps, Follows, Kept
<1>4. ASSUME NEW m \in ids
      PROVE  next[m].outcome = "hook-prepared" /\ next[m].lease = l
  <2>1. PICK e : e = mail[m]
    OBVIOUS
  <2>2. m \in Msgs /\ e \in Message
    BY <2>1, SavedMessage
  <2>3. PICK x : x = Receipt(e, "hook-prepared", r, c, l)
    OBVIOUS
  <2>4. x.outcome = "hook-prepared" /\ x.lease = l
    BY <2>2, <2>3 DEF Receipt, Message
  <2>5. next[m] = x
    BY <2>1, <2>2, <2>3 DEF Received
  <2> QED BY <2>4, <2>5
<1>5. \A m \in Msgs \ ids : next[m] = mail[m]
  BY DEF Received
<1>6. Saved(next) = Saved(mail)
  <2>1. \A m \in Msgs : next[m] # None <=> mail[m] # None
    BY <1>3, <1>5 DEF Saved
  <2> QED BY <2>1 DEF Saved
<1> QED BY <1>2, <1>4, <1>5, <1>6

\* What a notice may be put on: no other notice with a running lease holds it.
LEMMA DueUnheld ==
  ASSUME NEW r, NEW e, NEW c, NEW m \in NoticeDue(r, e, c), NEW k \in Leases \ expired
  PROVE  ~Held(mail[m], k)
BY DEF NoticeDue, Held, Pending, NoticeOutcomes

\* A notice is prepared under a lease of its own, from mail no live lease holds.
LEMMA NoticeStays ==
  ASSUME SInv, NEW r \in Runs, NEW e \in Events, NEW c \in Convs, NEW l \in Leases,
         HookNotice(r, e, c, l)
  PROVE  Stores' /\ Attempting'
<1> DEFINE scope == IF Harness[r] = "codex" THEN MailboxConversation(r) ELSE c
           notice == Received(First(NoticeDue(r, e, scope), NoticeLimit), "hook-prepared", r, c, l)
<1>1. /\ IInv /\ mail \in Mail /\ WakesRecorded /\ Stores /\ Attempting
      /\ adapter \in [Leases -> Adapters]
      /\ Sound(mail, adapter, expired) /\ Sound(disk, adapter, expired)
      /\ Ordered(adapter) /\ Holders(adapter, expired)
  BY DEF SInv, IInv, TypeOK, Stores
<1>2. PICK ids : ids = First(NoticeDue(r, e, scope), NoticeLimit)
  OBVIOUS
<1>3. /\ ids \subseteq NoticeDue(r, e, scope) /\ ids \in SUBSET Saved(mail)
      /\ \A m \in ids : mail[m].outcome \notin WakeOutcomes
  <2>1. ids \subseteq NoticeDue(r, e, scope)
    BY <1>2 DEF First
  <2> HIDE DEF scope
  <2> QED BY <1>1, <2>1, PendingUnwoken, OutcomesTyped DEF NoticeDue, Visible
<1>4. \A m \in ids : \A k \in Leases \ expired : ~Held(mail[m], k)
  <2> HIDE DEF scope
  <2> QED BY <1>3, DueUnheld
<1>5. PICK next : next = Received(ids, "hook-prepared", r, c, l)
  OBVIOUS
<1>6. /\ srv.pc = "idle" /\ srv' = srv /\ expired' = expired /\ replies' = replies
      /\ adapter[l].st = "unused" /\ \A k \in Leases : k < l => adapter[k].st # "unused"
  BY DEF HookNotice, HookConv
<1>7. \/ /\ mail' = next /\ disk' = next
         /\ adapter' = [adapter EXCEPT ![l] = [st |-> "replied", run |-> r, ids |-> ids]]
      \/ /\ mail' = mail /\ disk' \in {disk, next}
         /\ adapter' = [adapter EXCEPT ![l] = [st |-> "gone", run |-> r, ids |-> {}]]
  <2>1. next = Amend(mail, ids, LAMBDA x : Receipt(x, "hook-prepared", r, c, l))
    BY <1>5 DEF Amend, Received
  <2> QED BY <1>2, <2>1 DEF HookNotice, Commits, CommitFails
<1> HIDE DEF scope, notice
<1>8. /\ Keeps(next) /\ Saved(next) = Saved(mail)
      /\ \A m \in ids : next[m].outcome = "hook-prepared" /\ next[m].lease = l
      /\ \A m \in Msgs \ ids : next[m] = mail[m]
  BY <1>1, <1>3, <1>5, NoticeMail
<1>9. PICK S, s : /\ adapter'[l].st = s /\ adapter'[l].ids = S
                  /\ \A k \in Leases \ {l} : adapter'[k] = adapter[k]
                  /\ \/ S = ids /\ s = "replied" /\ mail' = next /\ disk' = next
                     \/ S = {} /\ s = "gone" /\ mail' = mail /\ disk' \in {disk, next}
  <2>1. \A a : l \in Leases /\ adapter' = [adapter EXCEPT ![l] = a] =>
               adapter'[l] = a /\ \A k \in Leases \ {l} : adapter'[k] = adapter[k]
    BY <1>1
  <2>2. CASE /\ mail' = next /\ disk' = next
             /\ adapter' = [adapter EXCEPT ![l] = [st |-> "replied", run |-> r, ids |-> ids]]
    <3>1. adapter'[l].st = "replied" /\ adapter'[l].ids = ids
      BY <2>1, <2>2
    <3> QED BY <2>1, <2>2, <3>1
  <2>3. CASE /\ mail' = mail /\ disk' \in {disk, next}
             /\ adapter' = [adapter EXCEPT ![l] = [st |-> "gone", run |-> r, ids |-> {}]]
    <3>1. adapter'[l].st = "gone" /\ adapter'[l].ids = {}
      BY <2>1, <2>3
    <3> QED BY <2>1, <2>3, <3>1
  <2> QED BY <1>7, <2>2, <2>3
<1>10. PICK ad : ad = adapter'
  OBVIOUS
<1>11. /\ ad[l].st = s /\ ad[l].ids = S /\ S \subseteq ids /\ s \in {"replied", "gone"}
       /\ s = "replied" => S = ids
       /\ \A k \in Leases \ {l} : ad[k] = adapter[k]
  BY <1>9, <1>10
<1>12. \A m \in Saved(mail) : m \in Msgs
  BY DEF Saved
<1>13. Sound(next, ad, expired)
  <2>1. Contiguous(next) /\ Keyed(next)
    BY <1>1, <1>8, KeyedVersion DEF Sound
  <2>2. Single(next)
    <3>1. \A m \in ids : ~Outstanding(next[m])
      BY <1>8 DEF Outstanding, QueueOutcomes
    <3> QED BY <1>1, <1>8, <1>12, <3>1 DEF Sound, Single
  <2>3. Noted(next, ad)
    BY <1>1, <1>6, <1>8, <1>11, <1>12 DEF Sound, Noted, Hooked
  <2>4. Claimed(next, ad, expired)
    <3> SUFFICES ASSUME NEW k \in Leases \ expired, NEW m \in ad[k].ids
                 PROVE  m \in Saved(next) /\ Held(next[m], k)
      BY DEF Claimed
    <3>1. CASE k = l
      BY <1>3, <1>8, <1>11, <3>1 DEF Held
    <3>2. CASE k # l
      <4>1. m \in Saved(mail) /\ Held(mail[m], k)
        BY <1>1, <1>11, <3>2 DEF Sound, Claimed
      <4> QED BY <1>4, <1>8, <1>12, <4>1
    <3> QED BY <3>1, <3>2
  <2> QED BY <2>1, <2>2, <2>3, <2>4 DEF Sound
<1>14. ASSUME NEW store, Sound(store, adapter, expired), S = {}
       PROVE  Sound(store, ad, expired)
  <2>1. Noted(store, ad)
    BY <1>6, <1>11, <1>14 DEF Sound, Noted
  <2>2. Claimed(store, ad, expired)
    BY <1>11, <1>14 DEF Sound, Claimed
  <2> QED BY <1>14, <2>1, <2>2 DEF Sound
<1>15. Sound(mail', ad, expired) /\ Sound(disk', ad, expired)
  BY <1>1, <1>9, <1>13, <1>14
<1>16. Ordered(ad)
  <2> SUFFICES ASSUME NEW k \in Leases, ad[k].st = "unused"
               PROVE  ad[k].ids = {} /\ \A j \in Leases : k < j => ad[j].st = "unused"
    BY DEF Ordered
  <2>1. k # l /\ adapter[k].st = "unused" /\ ad[k] = adapter[k]
    BY <1>11
  <2>2. l < k
    BY <1>6, <2>1, BoundsAssumption DEF Leases
  <2>3. \A j \in Leases : k < j => j # l
    BY <2>2, BoundsAssumption DEF Leases
  <2> QED BY <1>1, <1>11, <2>1, <2>3 DEF Ordered
<1>17. Holders(ad, expired)
  <2> SUFFICES ASSUME NEW k \in Leases, NEW j \in Leases, k < j, k \notin expired,
                      NEW m, m \in ad[k].ids, m \in ad[j].ids
               PROVE  FALSE
    BY DEF Holders
  <2>1. k # j
    BY BoundsAssumption DEF Leases
  <2>2. CASE j = l
    BY <1>1, <1>4, <1>11, <2>1, <2>2 DEF Sound, Claimed
  <2>3. CASE k = l
    BY <1>1, <1>6, <1>11, <2>1, <2>3 DEF Ordered
  <2>4. CASE j # l /\ k # l
    BY <1>1, <1>11, <2>4 DEF Holders
  <2> QED BY <2>2, <2>3, <2>4
<1>18. Stores'
  <2>1. (mail' = mail /\ disk' \in {disk, next}) \/ (mail' = next /\ disk' = next)
    BY <1>9
  <2> QED BY <1>6, <1>8, <1>10, <1>15, <1>16, <1>17, <2>1, StoresAfter
<1> QED BY <1>1, <1>6, <1>18, AttemptingStays

\* A confirmation finds its notice printed.
LEMMA ConfirmStays ==
  ASSUME SInv, NEW l \in Leases, Confirm(l)
  PROVE  Stores' /\ Attempting'
<1> DEFINE noted == UnderLease(adapter[l].run, l)
<1>1. /\ IInv /\ mail \in Mail /\ WakesRecorded /\ Stores /\ Attempting
      /\ adapter \in [Leases -> Adapters]
      /\ Sound(mail, adapter, expired) /\ Sound(disk, adapter, expired)
      /\ Ordered(adapter) /\ Holders(adapter, expired)
  BY DEF SInv, IInv, TypeOK, Stores
<1>2. PICK ids : ids = noted
  OBVIOUS
<1>3. /\ ids \in SUBSET Saved(mail)
      /\ \A m \in ids : mail[m].lease = l /\ mail[m].outcome = "hook-prepared"
      /\ \A m \in ids : mail[m].outcome \notin WakeOutcomes
  BY <1>2, OutcomesTyped DEF UnderLease, Visible
<1>4. PICK next : next = ResolvedSeen(ids, "hook-emitted")
  OBVIOUS
<1>5. /\ srv.pc = "idle" /\ srv' = srv /\ replies' = replies /\ adapter[l].st = "printed"
      /\ Saves(next)
  <2>1. next = Amend(mail, ids, LAMBDA e : Surface([e EXCEPT !.outcome = "hook-emitted"]))
    BY <1>4 DEF Amend, ResolvedSeen
  <2> QED BY <1>2, <2>1 DEF Confirm, Saves
<1>6. NotesKept(adapter', expired')
  BY <1>1, NotesGo
<1> HIDE DEF noted
<1>7. Keeps(next)
  BY <1>1, <1>3, <1>4, OutcomeKeeps, OutcomesTyped
<1>8. next \in Mail /\ \A m \in Saved(mail) : next[m] # None
  BY <1>7 DEF Keeps, Follows, Kept
<1>9. ASSUME NEW m \in ids
      PROVE  next[m].outcome = "hook-emitted" /\ next[m].lease = l /\ next[m].native
  <2>1. PICK e : e = mail[m]
    OBVIOUS
  <2>2. m \in Msgs /\ e \in Message /\ e.lease = l
    BY <1>1, <1>3, <2>1, SavedMessage
  <2>3. PICK y : y = [e EXCEPT !.outcome = "hook-emitted"]
    OBVIOUS
  <2>4. y \in Message /\ y.outcome = "hook-emitted" /\ y.lease = l
    BY <2>2, <2>3, OutcomesTyped DEF Message
  <2>5. PICK x : x = Surface(y)
    OBVIOUS
  <2>6. x.outcome = "hook-emitted" /\ x.lease = l /\ x.native = TRUE
    BY <2>4, <2>5 DEF Surface, Message
  <2>7. next[m] = x
    BY <1>4, <2>1, <2>2, <2>3, <2>5 DEF ResolvedSeen
  <2> QED BY <2>6, <2>7
<1>10. \A m \in Msgs \ ids : next[m] = mail[m]
  BY <1>4 DEF ResolvedSeen
<1>11. Saved(next) = Saved(mail)
  <2>1. \A m \in Msgs : next[m] # None <=> mail[m] # None
    BY <1>3, <1>8, <1>10 DEF Saved
  <2> QED BY <2>1 DEF Saved
<1>12. \A m \in Saved(mail) : m \in Msgs
  BY DEF Saved
<1>13. Sound(next, adapter, expired)
  <2>1. Contiguous(next) /\ Keyed(next)
    BY <1>1, <1>7, <1>11, KeyedVersion DEF Sound
  <2>2. Single(next)
    <3>1. \A m \in ids : ~Outstanding(next[m])
      BY <1>9 DEF Outstanding
    <3> QED BY <1>1, <1>10, <1>11, <1>12, <3>1 DEF Sound, Single
  <2>3. Noted(next, adapter)
    <3>1. \A m \in ids : m \in adapter[l].ids
      BY <1>1, <1>3, <1>5 DEF Sound, Noted, Hooked
    <3> QED BY <1>1, <1>5, <1>9, <1>10, <1>11, <1>12, <3>1 DEF Sound, Noted
  <2>4. Claimed(next, adapter, expired)
    <3>1. \A k : \A m \in ids : Held(next[m], k)
      BY <1>9 DEF Held
    <3> QED BY <1>1, <1>10, <1>11, <1>12, <3>1 DEF Sound, Claimed
  <2> QED BY <2>1, <2>2, <2>3, <2>4 DEF Sound
<1>14. /\ Sound(mail, adapter', expired') /\ Sound(disk, adapter', expired')
       /\ Sound(next, adapter', expired')
  BY <1>1, <1>6, <1>13, SoundStays
<1>15. Ordered(adapter') /\ Holders(adapter', expired')
  BY <1>1, <1>6, LeasesStay
<1>16. Stores'
  <2>1. (mail' = mail /\ disk' \in {disk, next}) \/ (mail' = next /\ disk' = next)
    BY <1>5, SavesTake
  <2> QED BY <1>5, <1>7, <1>11, <1>14, <1>15, <2>1, StoresAfter
<1> QED BY <1>1, <1>5, <1>16, AttemptingStays

\* A restart loads sound mail, and nobody misses a message that was reported.
LEMMA CrashStays == ASSUME SInv, Crash PROVE Stores' /\ Attempting'
<1>1. mail' = disk /\ disk' = disk /\ adapter' = adapter /\ expired' = expired /\ replies' = replies
  BY DEF Crash, outside
<1>2. /\ Sound(disk, adapter, expired) /\ Ordered(adapter) /\ Holders(adapter, expired)
      /\ Answered /\ DiskFollows
  BY DEF SInv, IInv, Stores
<1>3. Answered'
  <2>1. \A m \in Saved(mail) : m \in Msgs /\ disk[m] # None /\ RequestKey(disk, m) = RequestKey(mail, m)
    BY <1>2 DEF DiskFollows, Follows, Kept, RequestKey, Saved
  <2> QED BY <1>1, <1>2, <2>1 DEF Answered, Saved, RequestKey
<1>4. Ahead'
  BY <1>1 DEF Ahead, Saved
<1>5. Stores'
  BY <1>1, <1>2, <1>3, <1>4 DEF Stores
<1>6. Calm(srv')
  BY CalmWork DEF Crash
<1> QED BY <1>5, <1>6, CalmAttempting

----------------------------------------------------------------------------
(* The invariant.                                                           *)

\* Nothing is saved, attempted or noted at first.
LEMMA InitStores == Init => Stores /\ Attempting
<1> SUFFICES ASSUME Init
             PROVE  Stores /\ Attempting
  OBVIOUS
<1>1. /\ Saved(mail) = {} /\ mail = disk /\ replies = {}
      /\ \A k \in Leases : adapter[k].st = "unused" /\ adapter[k].ids = {}
  BY DEF Init, Saved, EmptyMail, NoAdapter
<1>2. Sound(mail, adapter, expired)
  BY <1>1 DEF Sound, Contiguous, Keyed, Single, Noted, Claimed
<1>3. Answered /\ Ahead /\ Ordered(adapter) /\ Holders(adapter, expired)
  BY <1>1 DEF Answered, Ahead, Ordered, Holders
<1>4. srv.pc = "idle" /\ srv.touched = FALSE /\ srv.stray = FALSE /\ srv.left = 0
  BY DEF Init, Idle, Work
<1>5. Attempting
  BY <1>4 DEF Attempting, Clear, Addressed, Untouched
<1> QED BY <1>1, <1>2, <1>3, <1>5 DEF Stores

\* The invariant is inductive.
LEMMA NextStores == SInv /\ [Next]_vars => SInv'
<1> SUFFICES ASSUME SInv, [Next]_vars
             PROVE  SInv'
  OBVIOUS
<1>1. IInv'
  BY NextInvariant DEF SInv
<1>2. Stores' /\ Attempting'
  <2>1. CASE Supervisor
    BY <2>1, SupervisorStays, ReservationStays, ReplyStays DEF Supervisor
  <2>2. CASE Clients
    BY <2>2, ClientsStay
  <2>3. CASE Natives
    BY <2>3, NativesStay, NoticeStays, ConfirmStays DEF Natives
  <2>4. CASE Crash
    BY <2>4, CrashStays
  <2>5. CASE UNCHANGED vars
    BY <2>5, NativesStay
  <2> QED BY <2>1, <2>2, <2>3, <2>4, <2>5 DEF Next
<1> QED BY <1>1, <1>2 DEF SInv

\* Memory and what a restart loads are sound in every reachable state, and an attempt
\* in progress is still the one that the guards of try_delivery allowed.
THEOREM SavesSound == Spec => []SInv
<1>1. Init => SInv
  BY InitInvariant, InitStores DEF SInv
<1>2. SInv /\ [Next]_vars => SInv'
  BY NextStores
<1> QED BY <1>1, <1>2, PTL DEF Spec

\* However saves fail and whatever a restart loads, two unseen handoffs never share a
\* run or a recipient conversation.
THEOREM HandoffsApart == Spec => []OneHandoffAtATime
<1>1. SInv => OneHandoffAtATime
  BY DEF SInv, Stores, Sound, Single, OneHandoffAtATime
<1> QED BY <1>1, SavesSound, PTL

\* A request has one message on disk, and every reply for it named that message.
THEOREM RequestsOnce == Spec => []OneMessagePerRequest
<1>1. SInv => OneMessagePerRequest
  <2> SUFFICES ASSUME SInv
               PROVE  OneMessagePerRequest
    OBVIOUS
  <2>1. Keyed(disk) /\ Answered /\ DiskFollows
    BY DEF SInv, IInv, Stores, Sound
  <2>2. \A x \in replies : disk[x.msg] # None /\ x.key = RequestKey(disk, x.msg)
    BY <2>1 DEF Answered, DiskFollows, Follows, Kept, RequestKey
  <2> QED BY <2>1, <2>2 DEF Keyed, OneMessagePerRequest
<1> QED BY <1>1, SavesSound, PTL

\* Mail is recorded as emitted only under a lease whose adapter printed it.
THEOREM EmissionsPrinted == Spec => []EmittedWasPrinted
<1>1. SInv => EmittedWasPrinted
  BY DEF SInv, Stores, Sound, Noted, Hooked, EmittedWasPrinted
<1> QED BY <1>1, SavesSound, PTL

\* Two hook notices hold a message only when the first one's lease is over.
THEOREM NoticesApart == Spec => []OneNoticeHolder
<1>1. SInv => OneNoticeHolder
  BY DEF SInv, Stores, Holders, OneNoticeHolder
<1> QED BY <1>1, SavesSound, PTL

----------------------------------------------------------------------------
(* Steps that start a helper.                                               *)

\* Only the launch does, for the message of the attempt.
LEMMA LaunchOnly ==
  ASSUME IInv, [Next]_vars, wakes' # wakes
  PROVE  Launch
<1>1. Supervisor => Launch
  BY DEF Supervisor, TickBegins, PassStep, DirectAttempt, NextDurableJob, ReservationSaved,
         ReservationFails, LaunchRefused, Reply, OtherSave, Reap, history
<1>2. ~Clients
  <2>1. ASSUME NEW r \in Runs, NEW q \in Runs, NEW x \in Requests, SendChat(r, q, x)
        PROVE  FALSE
    BY <2>1 DEF SendChat
  <2>2. ASSUME NEW r \in Runs \union {None}, NEW w \in Workspaces, NEW i \in Intents, SendCard(r, w, i)
        PROVE  FALSE
    BY <2>2 DEF SendCard
  <2>3. ASSUME NEW r \in Runs \union {None}, NEW m \in Msgs, Deliver(r, m)
        PROVE  FALSE
    BY <2>3 DEF Deliver, history
  <2>4. ASSUME NEW r \in Runs, ToolCall(r)
        PROVE  FALSE
    BY <2>4 DEF ToolCall, history
  <2>5. ASSUME NEW r \in Runs, NEW S \in SUBSET Msgs, NEW after \in 0..MaxMsg,
               NEW limit \in PageLimits, NEW all \in BOOLEAN, Inbox(r, S, after, limit, all)
        PROVE  FALSE
    BY <2>5 DEF Inbox
  <2>6. ASSUME NEW r \in Runs, NEW S \in SUBSET Msgs, ReadBodies(r, S)
        PROVE  FALSE
    BY <2>6 DEF ReadBodies
  <2>7. ASSUME NEW r \in Runs, NEW on \in BOOLEAN, SetFocus(r, on)
        PROVE  FALSE
    BY <2>7 DEF SetFocus
  <2>8. ASSUME NEW w \in Workspaces, NEW S \in SUBSET Msgs, HumanInbox(w, S)
        PROVE  FALSE
    BY <2>8 DEF HumanInbox
  <2> QED BY <2>1, <2>2, <2>3, <2>4, <2>5, <2>6, <2>7, <2>8 DEF Clients
<1>3. ~Natives
  <2>1. ASSUME NEW r \in Runs, NEW e \in Events, NEW c \in Convs, Hook(r, e, c)
        PROVE  FALSE
    BY <2>1 DEF Hook
  <2>2. ASSUME NEW r \in Runs, NEW e \in Events, NEW c \in Convs, NEW l \in Leases, HookNotice(r, e, c, l)
        PROVE  FALSE
    BY <2>2 DEF HookNotice
  <2>3. ASSUME NEW l \in Leases, AdapterPrints(l) \/ Confirm(l) \/ LeaseExpires(l)
        PROVE  FALSE
    BY <2>3 DEF AdapterPrints, Confirm, LeaseExpires, history
  <2>4. ASSUME NEW r \in Runs, NEW n \in nqueue, PromptFromQueue(r, n)
        PROVE  FALSE
    BY <2>4 DEF PromptFromQueue
  <2>5. ASSUME NEW r \in Runs, \/ \E c \in Convs \union {None} : Switch(r, c)
                               \/ Start(r) \/ Exit(r) \/ Settle(r) \/ FocusEnds(r)
                               \/ \E on \in BOOLEAN : Type(r, on)
        PROVE  FALSE
    BY <2>5 DEF Switch, Start, Exit, Settle, FocusEnds, Type, history
  <2>6. ASSUME NEW m \in Msgs, HelperRuns(m)
        PROVE  FALSE
    BY <2>6 DEF HelperRuns, history
  <2> QED BY <2>1, <2>2, <2>3, <2>4, <2>5, <2>6 DEF Natives
<1>4. ~Crash /\ ~UNCHANGED vars
  BY DEF Crash, vars, history
<1> QED BY <1>1, <1>2, <1>3, <1>4 DEF Next

\* The launch is for the message and the run of the attempt.
LEMMA LaunchedMessage ==
  ASSUME SInv, [Next]_vars, NEW m \in Msgs, Launched(m)
  PROVE  /\ m = srv.m /\ srv.pc = "launch" /\ StillIdle /\ srv.run \in Runs
         /\ helper'[m].run = srv.run /\ helper'[m].conv = srv.conv
<1>1. IInv /\ wakes \in [Msgs -> Nat] /\ helper \in [Msgs -> Helpers]
  BY DEF SInv, IInv, TypeOK
<1>2. wakes'[m] > wakes[m]
  BY DEF Launched
<1>3. wakes' # wakes
  BY <1>1, <1>2
<1>4. Launch
  BY <1>1, <1>3, LaunchOnly
<1>5. /\ srv.pc = "launch" /\ StillIdle /\ srv.run \in Runs
      /\ wakes' = [wakes EXCEPT ![srv.m] = @ + 1]
      /\ helper' = [helper EXCEPT ![srv.m] =
                      [st |-> "running", run |-> srv.run, conv |-> srv.conv]]
  BY <1>1, <1>4 DEF Launch, IInv, Working
<1>6. m = srv.m
  BY <1>1, <1>2, <1>5
<1>7. helper'[m] = [st |-> "running", run |-> srv.run, conv |-> srv.conv]
  BY <1>1, <1>5, <1>6
<1> QED BY <1>5, <1>6, <1>7

\* A helper is started only for mail nobody has seen, towards a live run that is then
\* in the conversation the mail is for: the recheck finds what the save may have missed.
THEOREM WakesReachTheirChat == Spec => WakeReachesBoundChat
<1>1. SInv /\ [Next]_vars =>
        [\A m \in Msgs : Launched(m) =>
           \E r \in Runs : /\ helper'[m].run = r /\ helper'[m].conv = talk[r]
                           /\ r \in CodexAt(mail[m].to)
                           /\ ForConversation(mail[m], talk[r])
                           /\ ~mail[m].acked /\ ~mail[m].native]_vars
  <2> SUFFICES ASSUME SInv, [Next]_vars, NEW m \in Msgs, Launched(m)
               PROVE  \E r \in Runs : /\ helper'[m].run = r /\ helper'[m].conv = talk[r]
                                      /\ r \in CodexAt(mail[m].to)
                                      /\ ForConversation(mail[m], talk[r])
                                      /\ ~mail[m].acked /\ ~mail[m].native
    OBVIOUS
  <2>1. /\ m = srv.m /\ srv.pc = "launch" /\ StillIdle /\ srv.run \in Runs
        /\ helper'[m].run = srv.run /\ helper'[m].conv = srv.conv
    BY LaunchedMessage
  <2>2. /\ Harness[srv.run] = "codex" /\ Home[srv.run] = mail[m].to
        /\ ForConversation(mail[m], srv.conv) /\ ~mail[m].acked /\ ~mail[m].native
    BY <2>1 DEF SInv, Attempting, Addressed
  <2>3. srv.conv = talk[srv.run] /\ srv.run \in CodexAt(mail[m].to)
    BY <2>1, <2>2 DEF StillIdle, CodexAt, LiveAt
  <2> QED BY <2>1, <2>2, <2>3
<1> QED BY <1>1, SavesSound, PTL DEF Spec, WakeReachesBoundChat

\* While no save moves the mail to the record database, no helper is started after
\* input that reached the run during the save of its reservation.
THEOREM InputIsRespected == ASSUME ~Activates PROVE Spec => NoLaunchOverInput
<1>1. SInv /\ [Next]_vars =>
        [\A m \in Msgs : Launched(m) => ~srv.stray /\ ~typed[helper'[m].run]]_vars
  <2> SUFFICES ASSUME SInv, [Next]_vars, NEW m \in Msgs, Launched(m)
               PROVE  ~srv.stray /\ ~typed[helper'[m].run]
    OBVIOUS
  <2>1. StillIdle /\ helper'[m].run = srv.run
    BY LaunchedMessage
  <2>2. srv.stray = srv.touched
    BY DEF SInv, Attempting, Untouched
  <2> QED BY <2>1, <2>2 DEF StillIdle
<1> QED BY <1>1, SavesSound, PTL DEF Spec, NoLaunchOverInput

----------------------------------------------------------------------------
(* Steps that surface mail.                                                 *)

\* Mail that is bound to a conversation is visible to its one proved run only.
LEMMA VisibleBound ==
  ASSUME NEW r, NEW m \in Visible(r, MailboxConversation(r)), mail[m].conv # None
  PROVE  \E q \in CodexAt(mail[m].to) :
           /\ talk[q] = mail[m].conv
           /\ \A p \in CodexAt(mail[m].to) \ {q} : talk[p] \notin {None, talk[q]}
<1>1. mail[m].to = Home[r] /\ MailboxConversation(r) # None /\ mail[m].conv = MailboxConversation(r)
  BY DEF Visible, ForConversation
<1>2. MailboxConversation(r) = Proof(r) /\ ConversationRecipient(Home[r], Proof(r), r)
  BY <1>1 DEF MailboxConversation
<1>3. /\ r \in CodexAt(Home[r]) /\ talk[r] = Proof(r)
      /\ \A p \in CodexAt(Home[r]) : talk[p] # None /\ (talk[p] = Proof(r) => p = r)
  BY <1>2 DEF ConversationRecipient
<1> QED BY <1>1, <1>2, <1>3

\* A step surfaces, among the messages saved before it, those of S only.
Surfaces(next, S) == \A m \in Saved(mail) : next[m].native => mail[m].native \/ m \in S

\* What agents can be shown of the mail of their workspaces.
Shown == UNION {Visible(r, MailboxConversation(r)) : r \in Runs \union {None}}

\* A save surfaces what its version surfaces, and no more.
LEMMA SavesSurface ==
  ASSUME NEW next, NEW S, Surfaces(next, S), Saves(next)
  PROVE  Surfaces(mail', S)
<1>1. mail' = mail \/ mail' = next
  BY SavesTake
<1> QED BY <1>1 DEF Surfaces

\* Receipts, outcomes and acknowledgements surface nothing.
LEMMA UpdatesSurface ==
  ASSUME NEW e \in Message, NEW o, NEW r, NEW c, NEW l
  PROVE  /\ Receipt(e, o, r, c, l).native = e.native
         /\ [e EXCEPT !.outcome = o].native = e.native
         /\ Resolve(e, o).native = e.native
         /\ Acknowledge(e).native = e.native
<1>1. PICK x : x = Receipt(e, o, r, c, l)
  OBVIOUS
<1>2. x.native = e.native
  BY <1>1 DEF Receipt, Message
<1>3. PICK y : y = [e EXCEPT !.outcome = o]
  OBVIOUS
<1>4. y.native = e.native
  BY <1>3 DEF Message
<1>5. PICK z : z = Acknowledge(e)
  OBVIOUS
<1>6. z.native = e.native
  BY <1>5 DEF Acknowledge, Message
<1> QED BY <1>1, <1>2, <1>3, <1>4, <1>5, <1>6 DEF Resolve

\* Receipts, outcomes and acknowledgements surface nothing.
LEMMA AmendsSurface ==
  ASSUME mail \in Mail, NEW S, NEW k, NEW o, NEW r, NEW c, NEW l
  PROVE  /\ Surfaces(Received(S, o, r, c, l), {}) /\ Surfaces(Resolved(S, o), {})
         /\ Surfaces(Finished(k, o), {}) /\ Surfaces(Amend(mail, S, Acknowledge), {})
<1>1. ASSUME NEW m \in Saved(mail)
      PROVE  /\ m \in Msgs
             /\ Receipt(mail[m], o, r, c, l).native = mail[m].native
             /\ [mail[m] EXCEPT !.outcome = o].native = mail[m].native
             /\ Resolve(mail[m], o).native = mail[m].native
             /\ Acknowledge(mail[m]).native = mail[m].native
  <2>1. PICK e : e = mail[m]
    OBVIOUS
  <2>2. e \in Message /\ m \in Msgs
    BY <2>1, SavedMessage
  <2> QED BY <2>1, <2>2, UpdatesSurface
<1>2. Surfaces(Received(S, o, r, c, l), {})
  BY <1>1 DEF Surfaces, Received
<1>3. Surfaces(Resolved(S, o), {})
  BY <1>1 DEF Surfaces, Resolved
<1>4. Surfaces(Finished(k, o), {})
  BY <1>1 DEF Surfaces, Finished, Amend
<1>5. Surfaces(Amend(mail, S, Acknowledge), {})
  BY <1>1 DEF Surfaces, Amend
<1> QED BY <1>2, <1>3, <1>4, <1>5

\* Attempts and notices surface nothing.
LEMMA AttemptSurfaces ==
  ASSUME IInv,
         \/ PassStep \/ DirectAttempt \/ ReservationSaved \/ ReservationFails \/ LaunchRefused
         \/ \E m \in Msgs : Reap(m)
  PROVE  Surfaces(mail', {})
<1>1. mail \in Mail
  BY DEF IInv, TypeOK
<1>2. /\ \A m : Surfaces(Waiting(m), {})
      /\ Surfaces(Reserved, {})
      /\ \A m, o : Surfaces(Finished(m, o), {})
  <2>1. ASSUME NEW m
        PROVE  Waiting(m) = Received({m}, "waiting", None, None, 0)
    BY DEF Waiting, Amend, Received
  <2>2. Reserved = Received({srv.m}, "queue-prepared", srv.run, srv.conv, 0)
    BY DEF Reserved, Amend, Received
  <2> QED BY <1>1, <2>1, <2>2, AmendsSurface
<1>3. Surfaces(mail, {})
  BY DEF Surfaces
<1>4. \/ mail' = mail \/ mail' = Reserved \/ \E m : mail' = Waiting(m) \/ \E o : mail' = Finished(m, o)
  <2>1. ASSUME NEW s, NEW m, Attempt(s, m)
        PROVE  mail' = mail \/ mail' = Waiting(m)
    BY <2>1 DEF Attempt, Commits, CommitFails
  <2>2. PassStep \/ DirectAttempt => mail' = mail \/ \E m : mail' = Waiting(m)
    BY <2>1 DEF PassStep, DirectAttempt
  <2>3. ReservationSaved \/ ReservationFails => \/ mail' = mail \/ mail' = Reserved
                                              \/ mail' = Waiting(srv.m)
    BY DEF ReservationSaved, ReservationFails, Commits, CommitFails
  <2>4. LaunchRefused => mail' = mail \/ \E o : mail' = Finished(srv.m, o)
    BY DEF LaunchRefused, Commits, CommitFails
  <2>5. ASSUME NEW m \in Msgs, Reap(m)
        PROVE  mail' = mail \/ \E o : mail' = Finished(m, o)
    BY <2>5 DEF Reap, Commits, CommitFails
  <2> QED BY <2>2, <2>3, <2>4, <2>5
<1> QED BY <1>2, <1>3, <1>4

\* Sending adds mail that was not there.
LEMMA SendSurfaces ==
  ASSUME IInv,
         \/ \E r, q \in Runs, x \in Requests : SendChat(r, q, x)
         \/ \E r \in Runs \union {None}, w \in Workspaces, i \in Intents : SendCard(r, w, i)
  PROVE  Surfaces(mail', {})
<1>1. mail' = mail \/ \E new : \E m \in Msgs : NextFree(mail, m) /\ mail' = [mail EXCEPT ![m] = new]
  <2>1. ASSUME NEW r \in Runs, NEW q \in Runs, NEW x \in Requests, SendChat(r, q, x)
        PROVE  mail' = mail \/ \E new : \E m \in Msgs : NextFree(mail, m) /\ mail' = [mail EXCEPT ![m] = new]
    BY <2>1 DEF SendChat, Commits, CommitFails
  <2>2. ASSUME NEW r \in Runs \union {None}, NEW w \in Workspaces, NEW i \in Intents, SendCard(r, w, i)
        PROVE  mail' = mail \/ \E new : \E m \in Msgs : NextFree(mail, m) /\ mail' = [mail EXCEPT ![m] = new]
    BY <2>2 DEF SendCard, Commits, CommitFails
  <2> QED BY <2>1, <2>2
<1>2. ASSUME NEW m \in Msgs, NEW new, NextFree(mail, m), mail' = [mail EXCEPT ![m] = new]
      PROVE  \A k \in Saved(mail) : mail'[k] = mail[k]
  BY <1>2 DEF NextFree, Saved, IInv, TypeOK, Mail
<1>3. \A k \in Saved(mail) : mail'[k] = mail[k]
  BY <1>1, <1>2
<1> QED BY <1>3 DEF Surfaces


\* A notice, a receipt of one and the human's acknowledgements surface nothing.
LEMMA OthersSurface ==
  ASSUME IInv,
         \/ Quiet
         \/ \E r \in Runs, e \in Events, c \in Convs, l \in Leases : HookNotice(r, e, c, l)
         \/ \E r \in Runs, n \in nqueue : PromptFromQueue(r, n)
         \/ \E w \in Workspaces, S \in SUBSET Msgs : HumanInbox(w, S)
  PROVE  Surfaces(mail', {})
<1>1. mail \in Mail
  BY DEF IInv, TypeOK
<1>2. Surfaces(mail, {})
  BY DEF Surfaces
<1>3. CASE Quiet
  BY <1>2, <1>3, QuietSaves, SavesSurface
<1>4. ASSUME NEW r \in Runs, NEW e \in Events, NEW c \in Convs, NEW l \in Leases, HookNotice(r, e, c, l)
      PROVE  Surfaces(mail', {})
  <2>1. PICK ids : mail' = mail \/ mail' = Amend(mail, ids, LAMBDA x : Receipt(x, "hook-prepared", r, c, l))
    BY <1>4 DEF HookNotice, Commits, CommitFails
  <2>2. mail' = mail \/ mail' = Received(ids, "hook-prepared", r, c, l)
    BY <2>1 DEF Amend, Received
  <2> QED BY <1>1, <1>2, <2>2, AmendsSurface
<1>5. ASSUME NEW r \in Runs, NEW n \in nqueue, PromptFromQueue(r, n)
      PROVE  Surfaces(mail', {})
  <2>1. \/ mail' = mail
        \/ mail' = Amend(mail, {n.msg}, LAMBDA x : [x EXCEPT !.outcome = "queue-submitted"])
    BY <1>5 DEF PromptFromQueue, Commits, CommitFails
  <2>2. mail' = mail \/ mail' = Resolved({n.msg}, "queue-submitted")
    BY <2>1 DEF Amend, Resolved
  <2> QED BY <1>1, <1>2, <2>2, AmendsSurface
<1>6. ASSUME NEW w \in Workspaces, NEW S \in SUBSET Msgs, HumanInbox(w, S)
      PROVE  Surfaces(mail', {})
  <2>1. mail' = mail \/ mail' = Amend(mail, S, Acknowledge)
    BY <1>6 DEF HumanInbox, CommitsChange, Commits, CommitFails
  <2> QED BY <1>1, <1>2, <2>1, AmendsSurface
<1> QED BY <1>3, <1>4, <1>5, <1>6

\* Replies, readings and confirmations touch what their caller may be shown.
LEMMA ReadersSurface ==
  ASSUME IInv,
         \/ Reply
         \/ \E r \in Runs, S \in SUBSET Msgs, after \in 0..MaxMsg, limit \in PageLimits, all \in BOOLEAN :
              Inbox(r, S, after, limit, all)
         \/ \E r \in Runs, S \in SUBSET Msgs : ReadBodies(r, S)
         \/ \E l \in Leases : Confirm(l)
  PROVE  Surfaces(mail', Shown)
<1> DEFINE Elsewhere == \A m \in Saved(mail) \ Shown : mail'[m] = mail[m]
<1>1. ASSUME NEW r \in Runs \union {None}
      PROVE  Visible(r, MailboxConversation(r)) \subseteq Shown
  BY DEF Shown
<1>2. \A m \in Saved(mail) : m \in Msgs
  BY DEF Saved
<1>3. ASSUME Reply
      PROVE  Elsewhere
  <2>1. PICK r : r = srv.caller
    OBVIOUS
  <2>2. PICK ids \in SUBSET Visible(r, MailboxConversation(r)) :
          \/ mail' = mail
          \/ mail' = Amend(mail, ids, LAMBDA e : Surface(Receipt(e, "mcp-returned", r, None, 0)))
    <3> DEFINE due == {m \in Visible(r, MailboxConversation(r)) : Pending(mail[m])}
               S == IF r \in focus THEN {} ELSE First(due, NoticeLimit)
    <3>1. S \in SUBSET Visible(r, MailboxConversation(r))
      BY DEF First
    <3>2. \/ mail' = mail
          \/ mail' = Amend(mail, S, LAMBDA e : Surface(Receipt(e, "mcp-returned", r, None, 0)))
      BY <1>3, <2>1 DEF Reply, CommitsChange, Commits, CommitFails
    <3> QED BY <3>1, <3>2
  <2>3. r \in Runs \union {None}
    BY <2>1 DEF IInv, TypeOK, Servers
  <2>4. ids \subseteq Shown
    BY <1>1, <2>2, <2>3
  <2> QED BY <1>2, <2>2, <2>4 DEF Amend
<1>4. ASSUME NEW r \in Runs, NEW S \in SUBSET Msgs, NEW after \in 0..MaxMsg,
             NEW limit \in PageLimits, NEW all \in BOOLEAN, Inbox(r, S, after, limit, all)
      PROVE  Elsewhere
  <2>1. PICK scope : scope = Visible(r, MailboxConversation(r))
    OBVIOUS
  <2>2. PICK page \in SUBSET scope :
          mail' = mail \/ mail' = Amend(Amend(mail, S, Acknowledge), page, Surface)
    <3> DEFINE listed == IF all THEN scope ELSE Unread(scope) \ S
               T == First({m \in listed : m > after}, limit)
    <3>1. T \in SUBSET scope
      BY DEF First, Unread
    <3>2. mail' = mail \/ mail' = Amend(Amend(mail, S, Acknowledge), T, Surface)
      BY <1>4, <2>1 DEF Inbox, CommitsChange, Commits, CommitFails
    <3> QED BY <3>1, <3>2
  <2>3. S \subseteq Shown /\ page \subseteq Shown
    BY <1>1, <1>4, <2>1, <2>2 DEF Inbox
  <2> QED BY <1>2, <2>2, <2>3 DEF Amend
<1>5. ASSUME NEW r \in Runs, NEW S \in SUBSET Msgs, ReadBodies(r, S)
      PROVE  Elsewhere
  <2>1. S \subseteq Visible(r, MailboxConversation(r)) /\ (mail' = mail \/ mail' = Amend(mail, S, Surface))
    BY <1>5 DEF ReadBodies, Commits, CommitFails
  <2> QED BY <1>1, <1>2, <2>1 DEF Amend
<1>6. ASSUME NEW l \in Leases, Confirm(l)
      PROVE  Elsewhere
  <2>1. PICK r : r = adapter[l].run
    OBVIOUS
  <2>2. PICK ids \in SUBSET Visible(r, MailboxConversation(r)) :
          \/ mail' = mail
          \/ mail' = Amend(mail, ids, LAMBDA e : Surface([e EXCEPT !.outcome = "hook-emitted"]))
    <3>1. UnderLease(r, l) \in SUBSET Visible(r, MailboxConversation(r))
      BY DEF UnderLease
    <3>2. \/ mail' = mail
          \/ mail' = Amend(mail, UnderLease(r, l),
                           LAMBDA e : Surface([e EXCEPT !.outcome = "hook-emitted"]))
      BY <1>6, <2>1 DEF Confirm, Commits, CommitFails
    <3> QED BY <3>1, <3>2
  <2>3. r \in Runs \union {None}
    BY <2>1 DEF IInv, TypeOK, Adapters
  <2>4. ids \subseteq Shown
    BY <1>1, <2>2, <2>3
  <2> QED BY <1>2, <2>2, <2>4 DEF Amend
<1> HIDE DEF Elsewhere
<1>7. Elsewhere
  BY <1>3, <1>4, <1>5, <1>6
<1> QED BY <1>7 DEF Elsewhere, Surfaces

\* However natives start, exit and switch conversations, bound mail is surfaced only
\* while exactly one run is proved to be in its conversation.
THEOREM BoundMailStays == Spec => BoundMailStaysInItsChat
<1> DEFINE A == \A m \in Saved(mail) :
                  (mail'[m].native /\ ~mail[m].native /\ mail[m].conv # None /\ crashes' = crashes) =>
                    \E r \in CodexAt(mail[m].to) :
                      /\ talk[r] = mail[m].conv
                      /\ \A q \in CodexAt(mail[m].to) \ {r} : talk[q] \notin {None, talk[r]}
<1>1. IInv /\ [Next]_vars => [A]_vars
  <2> SUFFICES ASSUME IInv, [Next]_vars, NEW m \in Saved(mail),
                      mail'[m].native, ~mail[m].native, mail[m].conv # None, crashes' = crashes
               PROVE  \E r \in CodexAt(mail[m].to) :
                        /\ talk[r] = mail[m].conv
                        /\ \A q \in CodexAt(mail[m].to) \ {r} : talk[q] \notin {None, talk[r]}
    OBVIOUS
  <2>1. ~Crash
    BY DEF Crash, IInv, TypeOK
  <2>2. Surfaces(mail', {}) \/ Surfaces(mail', Shown)
    <3>1. CASE Supervisor
      BY <3>1, AttemptSurfaces, ReadersSurface, OthersSurface DEF Supervisor, Quiet
    <3>2. CASE Clients
      BY <3>2, SendSurfaces, ReadersSurface, OthersSurface DEF Clients, Quiet
    <3>3. CASE Natives
      BY <3>3, ReadersSurface, OthersSurface DEF Natives, Quiet
    <3>4. CASE UNCHANGED vars
      BY <3>4, OthersSurface DEF Quiet
    <3> QED BY <2>1, <3>1, <3>2, <3>3, <3>4 DEF Next
  <2>3. m \in Shown
    BY <2>2 DEF Surfaces
  <2>4. PICK r : m \in Visible(r, MailboxConversation(r))
    BY <2>3 DEF Shown
  <2> QED BY <2>4, VisibleBound
<1> QED BY <1>1, Invariant, PTL DEF Spec, BoundMailStaysInItsChat

----------------------------------------------------------------------------
(* Mailbox implements MailPromise.                                          *)

Before == {p \in Nat \X Nat : p[1] < p[2]}
\* Mail saved in order fills the positions up to the number of messages.
LEMMA SavedInOrder ==
  ASSUME NEW store, Contiguous(store)
  PROVE  Cardinality(Saved(store)) \in Nat /\ Saved(store) = 1..Cardinality(Saved(store))
<1>1. MaxMsg \in Nat /\ Saved(store) \subseteq Msgs
  BY BoundsAssumption DEF Saved
<1>2. \A n \in Nat : Cardinality(1..n) = n
  BY FS_Interval
<1>3. CASE Saved(store) = Msgs
  BY <1>1, <1>2, <1>3 DEF Msgs
<1>4. CASE Saved(store) # Msgs
  <2>1. IsWellFoundedOn(Before, Nat)
    BY NatLessThanWellFounded, Zenon DEF OpToRel, Before
  <2>2. PICK T : T = Msgs \ Saved(store)
    OBVIOUS
  <2>3. T \subseteq Nat /\ T # {}
    <3>1. T # {}
      BY <1>1, <1>4, <2>2
    <3>2. Msgs \subseteq Nat
      BY <1>1 DEF Msgs
    <3> QED BY <2>2, <3>1, <3>2
  <2>4. PICK n \in T : \A k \in T : <<k, n>> \notin Before
    BY <2>1, <2>3, WFMin
  <2>5. \A k \in T : ~(k < n)
    <3> TAKE k \in T
    <3>1. k \in Nat /\ n \in Nat /\ <<k, n>> \notin Before
      BY <2>3, <2>4
    <3> QED BY <3>1 DEF Before
  <2>6. n \in Msgs /\ n \notin Saved(store) /\ \A k \in Msgs : k < n => k \in Saved(store)
    BY <2>2, <2>5
  <2>7. \A k \in Saved(store) : ~(n < k)
    BY <2>6 DEF Contiguous
  <2>8. n \in Nat /\ n - 1 \in Nat
    BY <1>1, <2>6 DEF Msgs
  <2>9. Saved(store) = 1..(n - 1)
    <3>1. ASSUME NEW k \in Saved(store)
          PROVE  k \in 1..(n - 1)
      <4>1. k \in Msgs /\ k # n /\ ~(n < k)
        BY <1>1, <2>6, <2>7
      <4> QED BY <1>1, <2>8, <4>1 DEF Msgs
    <3>2. ASSUME NEW k \in 1..(n - 1)
          PROVE  k \in Saved(store)
      <4>1. k \in Msgs /\ k < n
        BY <1>1, <2>6, <2>8 DEF Msgs
      <4> QED BY <2>6, <4>1
    <3> QED BY <3>1, <3>2
  <2> QED BY <1>2, <2>8, <2>9
<1> QED BY <1>3, <1>4

\* A step that touches only saved mail adds none.
LEMMA NothingAdded ==
  ASSUME NoneForgotten, \A m \in Msgs \ Saved(mail) : mail'[m] = mail[m]
  PROVE  Saved(mail') = Saved(mail)
<1>1. \A m \in Msgs : mail'[m] # None <=> mail[m] # None
  BY DEF NoneForgotten, Kept, Saved
<1> QED BY <1>1 DEF Saved

\* A position that was reported stays reported, and a step that reports saves no new message.
LEMMA ToldSteps ==
  ASSUME IInv, NoneForgotten, [Next]_vars
  PROVE  told \subseteq told' /\ (told' = told \/ Saved(mail') = Saved(mail))
<1>1. ASSUME NEW r \in Runs, NEW S \in SUBSET Msgs, NEW after \in 0..MaxMsg,
             NEW limit \in PageLimits, NEW all \in BOOLEAN, Inbox(r, S, after, limit, all)
      PROVE  told \subseteq told' /\ Saved(mail') = Saved(mail)
  <2> DEFINE scope == Visible(r, MailboxConversation(r))
             listed == IF all THEN scope ELSE Unread(scope) \ S
             T == First({m \in listed : m > after}, limit)
  <2>1. S \subseteq Saved(mail) /\ T \subseteq Saved(mail)
    BY <1>1 DEF Inbox, First, Unread, Visible
  <2>2. mail' = mail \/ mail' = Amend(Amend(mail, S, Acknowledge), T, Surface)
    BY <1>1 DEF Inbox, CommitsChange, Commits, CommitFails
  <2> HIDE DEF T
  <2>3. \A m \in Msgs \ Saved(mail) : mail'[m] = mail[m]
    BY <2>1, <2>2 DEF Amend
  <2>4. told \subseteq told'
    BY <1>1 DEF Inbox
  <2> QED BY <2>3, <2>4, NothingAdded
<1>2. ASSUME NEW w \in Workspaces, NEW S \in SUBSET Msgs, HumanInbox(w, S)
      PROVE  told \subseteq told' /\ Saved(mail') = Saved(mail)
  <2>1. /\ S \subseteq Saved(mail) /\ told \subseteq told'
        /\ mail' = mail \/ mail' = Amend(mail, S, Acknowledge)
    BY <1>2 DEF HumanInbox, CommitsChange, Commits, CommitFails
  <2>2. \A m \in Msgs \ Saved(mail) : mail'[m] = mail[m]
    BY <2>1 DEF Amend
  <2> QED BY <2>1, <2>2, NothingAdded
<1>3. Supervisor => told' = told
  BY DEF Supervisor, TickBegins, PassStep, DirectAttempt, NextDurableJob, ReservationSaved,
         ReservationFails, Launch, LaunchRefused, Reply, OtherSave, Reap, history
<1>4. ASSUME NEW r \in Runs, NEW q \in Runs, NEW x \in Requests, SendChat(r, q, x)
      PROVE  told' = told
  BY <1>4 DEF SendChat
<1>5. ASSUME NEW r \in Runs \union {None}, NEW w \in Workspaces, NEW i \in Intents, SendCard(r, w, i)
      PROVE  told' = told
  BY <1>5 DEF SendCard
<1>6. ASSUME NEW r \in Runs \union {None}, NEW m \in Msgs, Deliver(r, m)
      PROVE  told' = told
  BY <1>6 DEF Deliver, history
<1>7. ASSUME NEW r \in Runs,
             ToolCall(r) \/ (\E S \in SUBSET Msgs : ReadBodies(r, S)) \/ \E on \in BOOLEAN : SetFocus(r, on)
      PROVE  told' = told
  BY <1>7 DEF ToolCall, ReadBodies, SetFocus, history
<1>8. Natives => told' = told
  <2>1. ASSUME NEW r \in Runs, NEW e \in Events, NEW c \in Convs, Hook(r, e, c)
        PROVE  told' = told
    BY <2>1 DEF Hook
  <2>2. ASSUME NEW r \in Runs, NEW e \in Events, NEW c \in Convs, NEW l \in Leases, HookNotice(r, e, c, l)
        PROVE  told' = told
    BY <2>2 DEF HookNotice
  <2>3. ASSUME NEW l \in Leases, AdapterPrints(l) \/ Confirm(l) \/ LeaseExpires(l)
        PROVE  told' = told
    BY <2>3 DEF AdapterPrints, Confirm, LeaseExpires, history
  <2>4. ASSUME NEW r \in Runs, NEW n \in nqueue, PromptFromQueue(r, n)
        PROVE  told' = told
    BY <2>4 DEF PromptFromQueue
  <2>5. ASSUME NEW r \in Runs, \/ \E c \in Convs \union {None} : Switch(r, c)
                               \/ Start(r) \/ Exit(r) \/ Settle(r) \/ FocusEnds(r)
                               \/ \E on \in BOOLEAN : Type(r, on)
        PROVE  told' = told
    BY <2>5 DEF Switch, Start, Exit, Settle, FocusEnds, Type, history
  <2>6. ASSUME NEW m \in Msgs, HelperRuns(m)
        PROVE  told' = told
    BY <2>6 DEF HelperRuns, history
  <2> QED BY <2>1, <2>2, <2>3, <2>4, <2>5, <2>6 DEF Natives
<1>9. Crash \/ UNCHANGED vars => told' = told
  BY DEF Crash, vars, history
<1>10. CASE Clients
  BY <1>1, <1>2, <1>4, <1>5, <1>6, <1>7, <1>10 DEF Clients
<1> QED BY <1>3, <1>8, <1>9, <1>10 DEF Next

\* A step adds no mail, or one message that nobody has seen.
Grown ==
  \E m \in Msgs : /\ NextFree(mail, m) /\ mail'[m] # None /\ Fresh(mail'[m])
                  /\ \A k \in Msgs \ {m} : mail'[k] = mail[k]

\* A plain step adds at most the message at the next free position.
LEMMA PlainGrows == ASSUME IInv, Plainly PROVE Saved(mail') = Saved(mail) \/ Grown
<1>1. PICK next : Modest(next) /\ Saves(next)
  BY DEF Plainly
<1>2. mail' = mail \/ mail' = next
  BY <1>1, SavesTake
<1>3. CASE Amends(next)
  BY <1>2, <1>3 DEF Amends
<1>4. CASE \E m \in Msgs, e \in Message : Adds(next, m, e)
  <2>1. PICK m \in Msgs, e \in Message : Adds(next, m, e)
    BY <1>4
  <2>2. /\ NextFree(mail, m) /\ Fresh(e) /\ e # None
        /\ next[m] = e /\ \A k \in Msgs \ {m} : next[k] = mail[k]
    BY <2>1, NoneAssumption DEF Adds, IInv, TypeOK, Mail
  <2>3. CASE mail' = next
    <3>1. mail'[m] = e /\ \A k \in Msgs \ {m} : mail'[k] = mail[k]
      BY <2>2, <2>3
    <3> QED BY <2>2, <3>1 DEF Grown
  <2> QED BY <1>2, <2>3
<1> QED BY <1>1, <1>3, <1>4 DEF Modest

\* So does every step.
LEMMA MailGrows ==
  ASSUME SInv, NoneForgotten, [Next]_vars
  PROVE  Saved(mail') = Saved(mail) \/ Grown
<1>1. IInv /\ mail \in Mail
  BY DEF SInv, IInv, TypeOK
<1>2. CASE Plainly
  BY <1>1, <1>2, PlainGrows
<1>3. CASE ReservationSaved \/ ReservationFails
  <2>1. srv.m \in Saved(mail)
    BY <1>1, <1>3 DEF ReservationSaved, ReservationFails, IInv, Working
  <2>2. mail' = mail \/ mail' = Reserved \/ mail' = Waiting(srv.m)
    BY <1>3 DEF ReservationSaved, ReservationFails, Commits, CommitFails
  <2>3. \A m \in Msgs \ Saved(mail) : mail'[m] = mail[m]
    BY <2>1, <2>2 DEF Reserved, Waiting, Amend
  <2> QED BY <2>3, NothingAdded
<1>4. ASSUME NEW r \in Runs, NEW e \in Events, NEW c \in Convs, NEW l \in Leases, HookNotice(r, e, c, l)
      PROVE  Saved(mail') = Saved(mail)
  <2> DEFINE scope == IF Harness[r] = "codex" THEN MailboxConversation(r) ELSE c
             ids == First(NoticeDue(r, e, scope), NoticeLimit)
  <2>1. /\ ids \subseteq Saved(mail)
        /\ mail' = mail \/ mail' = Amend(mail, ids, LAMBDA x : Receipt(x, "hook-prepared", r, c, l))
    BY <1>4 DEF HookNotice, Commits, CommitFails, First, NoticeDue, Visible
  <2> HIDE DEF ids
  <2>2. \A m \in Msgs \ Saved(mail) : mail'[m] = mail[m]
    BY <2>1 DEF Amend
  <2> QED BY <2>2, NothingAdded
<1>5. ASSUME NEW l \in Leases, Confirm(l)
      PROVE  Saved(mail') = Saved(mail)
  <2> DEFINE ids == UnderLease(adapter[l].run, l)
  <2>1. /\ ids \subseteq Saved(mail)
        /\ mail' = mail \/ mail' = Amend(mail, ids, LAMBDA e : Surface([e EXCEPT !.outcome = "hook-emitted"]))
    BY <1>5 DEF Confirm, Commits, CommitFails, UnderLease, Visible
  <2> HIDE DEF ids
  <2>2. \A m \in Msgs \ Saved(mail) : mail'[m] = mail[m]
    BY <2>1 DEF Amend
  <2> QED BY <2>2, NothingAdded
<1>6. CASE Crash
  <2>1. mail' = disk /\ Ahead
    BY <1>6 DEF Crash, SInv, Stores
  <2> QED BY <2>1 DEF Ahead, Grown
<1>7. CASE UNCHANGED vars
  BY <1>1, <1>7, QuietPlainly, <1>2 DEF Quiet
<1>8. CASE Supervisor
  BY <1>1, <1>2, <1>3, <1>8, QuietPlainly, DeliveryPlainly, LaunchRefusedPlainly, ReapPlainly, ReplyPlainly
     DEF Supervisor, Quiet
<1>9. CASE Clients
  BY <1>1, <1>2, <1>9, SendChatPlainly, SendCardPlainly, QuietPlainly, InboxPlainly, ReadBodiesPlainly,
     HumanInboxPlainly DEF Clients, Quiet
<1>10. CASE Natives
  BY <1>1, <1>2, <1>4, <1>5, <1>10, QuietPlainly, PromptPlainly DEF Natives, Quiet
<1> QED BY <1>6, <1>7, <1>8, <1>9, <1>10 DEF Next

\* What the promise sees of the mail.
Seen(store) == {m \in Saved(store) : store[m].native}
Acks(store) == {m \in Saved(store) : store[m].acked}
Woken(w) == {m \in Msgs : w[m] > 0}

\* The refinement mapping, in the state and after the step.
LEMMA View ==
  /\ Marked(LAMBDA e : e.native) = Seen(mail) /\ Marked(LAMBDA e : e.acked) = Acks(mail)
  /\ Marked(LAMBDA e : e.native)' = Seen(mail') /\ Marked(LAMBDA e : e.acked)' = Acks(mail')
  /\ {m \in Msgs : wakes[m] > 0} = Woken(wakes) /\ {m \in Msgs : wakes[m] > 0}' = Woken(wakes')
  /\ Cardinality(Saved(mail))' = Cardinality(Saved(mail'))
BY DEF Marked, Seen, Acks, Woken, Saved

\* Seeing, acknowledging and reporting.
LEMMA HandleStep ==
  ASSUME SInv, SInv', NoneForgotten, Saved(mail') = Saved(mail), told \subseteq told', wakes' = wakes
  PROVE  Promise!Handle
<1>1. PICK n : n = Cardinality(Saved(mail))
  OBVIOUS
<1>2. Saved(mail) = 1..n
  BY <1>1, SavedInOrder DEF SInv, Stores, Sound
<1>3. /\ Seen(mail') \in SUBSET (1..n) /\ Acks(mail') \in SUBSET (1..n)
      /\ Seen(mail) \subseteq Seen(mail') /\ Acks(mail) \subseteq Acks(mail')
  BY <1>2 DEF Seen, Acks, NoneForgotten, Kept
<1>4. told' \in SUBSET Acks(mail')
  BY DEF SInv, IInv, ToldAcked, TypeOK, Acks, Saved
<1>5. Cardinality(Saved(mail')) = n /\ Woken(wakes') = Woken(wakes)
  BY <1>1
<1> QED BY <1>1, <1>3, <1>4, <1>5, View DEF Promise!Handle

\* Sending, or a restart that finds the message of a save that reported an error.
LEMMA SaveGrowsStep ==
  ASSUME SInv, SInv', Grown, told' = told, wakes' = wakes
  PROVE  Promise!Save
<1>1. PICK m \in Msgs : /\ NextFree(mail, m) /\ mail'[m] # None /\ Fresh(mail'[m])
                        /\ \A k \in Msgs \ {m} : mail'[k] = mail[k]
  BY DEF Grown
<1>2. PICK n : n = Cardinality(Saved(mail))
  OBVIOUS
<1>3. PICK q : q = Cardinality(Saved(mail'))
  OBVIOUS
<1>4. n \in Nat /\ q \in Nat /\ Saved(mail) = 1..n /\ Saved(mail') = 1..q
  BY <1>2, <1>3, SavedInOrder DEF SInv, Stores, Sound
<1>5. m \notin Saved(mail) /\ Saved(mail') = Saved(mail) \union {m}
  BY <1>1 DEF Saved, NextFree
<1>6. q = n + 1
  <2>1. IsFiniteSet(Saved(mail))
    BY <1>4, FS_Interval
  <2> QED BY <1>2, <1>3, <1>5, <2>1, FS_AddElement
<1>7. n < MaxMsg
  <2>1. q \in Msgs
    BY <1>4, <1>6 DEF Saved
  <2> QED BY <1>4, <1>6, <2>1, BoundsAssumption DEF Msgs
<1>8. Seen(mail') = Seen(mail) /\ Acks(mail') = Acks(mail)
  <2>1. ~mail'[m].native /\ ~mail'[m].acked /\ \A k \in Saved(mail) : mail'[k] = mail[k]
    BY <1>1, <1>5 DEF Fresh, Saved
  <2> QED BY <1>5, <2>1 DEF Seen, Acks
<1>9. Woken(wakes') = Woken(wakes)
  OBVIOUS
<1> QED BY <1>2, <1>3, <1>6, <1>7, <1>8, <1>9, View DEF Promise!Save

\* The launch wakes for a message that was not seen, acknowledged or woken for.
LEMMA WakeStep ==
  ASSUME SInv, Launch
  PROVE  \E m \in Msgs : Promise!Wake(m)
<1>1. PICK m : m = srv.m
  OBVIOUS
<1>2. /\ srv.pc = "launch" /\ wakes' = [wakes EXCEPT ![m] = @ + 1] /\ mail' = mail /\ told' = told
  BY <1>1 DEF Launch
<1>3. m \in Saved(mail) /\ wakes[m] = 0 /\ ~mail[m].acked /\ ~mail[m].native
  BY <1>1, <1>2 DEF SInv, IInv, Working, Attempting, Addressed
<1>4. m \in Msgs /\ wakes \in [Msgs -> Nat]
  BY <1>3 DEF Saved, SInv, IInv, TypeOK
<1>5. PICK n : n = Cardinality(Saved(mail))
  OBVIOUS
<1>6. Saved(mail) = 1..n
  BY <1>5, SavedInOrder DEF SInv, Stores, Sound
<1>7. m \in 1..n /\ m \notin Seen(mail) \union Acks(mail) \union Woken(wakes)
  BY <1>3, <1>6 DEF Seen, Acks, Woken
<1>8. Woken(wakes') = Woken(wakes) \union {m}
  <2>1. \A k \in Msgs : wakes'[k] = IF k = m THEN 1 ELSE wakes[k]
    BY <1>2, <1>3, <1>4
  <2> QED BY <1>4, <2>1 DEF Woken
<1>9. Cardinality(Saved(mail')) = n /\ Seen(mail') = Seen(mail) /\ Acks(mail') = Acks(mail)
  BY <1>2, <1>5
<1>10. Promise!Wake(m)
  BY <1>2, <1>5, <1>7, <1>8, <1>9, View DEF Promise!Wake
<1> QED BY <1>4, <1>10

\* Every step of Mailbox is a step of MailPromise, or a stutter.
LEMMA PromiseStep ==
  ASSUME SInv, SInv', [Next]_vars
  PROVE  Promise!Next
<1>1. IInv /\ NoneForgotten
  BY NextInvariant DEF SInv
<1>2. CASE wakes' # wakes
  <2>1. \E m \in Msgs : Promise!Wake(m)
    BY <1>1, <1>2, LaunchOnly, WakeStep
  <2> QED BY <2>1 DEF Promise!Next, Msgs
<1>3. CASE wakes' = wakes
  <2>1. Promise!Handle \/ Promise!Save
    <3>1. told \subseteq told' /\ (told' = told \/ Saved(mail') = Saved(mail))
      BY <1>1, ToldSteps
    <3>2. Saved(mail') = Saved(mail) \/ Grown
      BY <1>1, MailGrows
    <3>3. CASE Saved(mail') = Saved(mail)
      BY <1>1, <1>3, <3>1, <3>3, HandleStep
    <3>4. CASE Saved(mail') # Saved(mail)
      BY <1>3, <3>1, <3>2, <3>4, SaveGrowsStep
    <3> QED BY <3>3, <3>4
  <2> QED BY <2>1 DEF Promise!Next
<1> QED BY <1>2, <1>3

\* Mailbox implements MailPromise: whatever fails, saved mail stays saved, what was
\* seen and acknowledged stays so, an acknowledgement is reported only when it holds,
\* and a recipient is woken at most once, for mail that is neither seen nor acknowledged.
THEOREM PromiseHolds == Spec => PromiseKept
<1>1. Init => Promise!Init
  <2> SUFFICES ASSUME Init
               PROVE  Promise!Init
    OBVIOUS
  <2>1. Saved(mail) = {} /\ told = {} /\ \A m \in Msgs : wakes[m] = 0
    BY DEF Init, Saved, EmptyMail
  <2>2. Cardinality(Saved(mail)) = 0
    BY <2>1, FS_EmptySet
  <2>3. Seen(mail) = {} /\ Acks(mail) = {} /\ Woken(wakes) = {}
    BY <2>1 DEF Seen, Acks, Woken
  <2> QED BY <2>1, <2>2, <2>3, View DEF Promise!Init
<1>2. SInv /\ SInv' /\ [Next]_vars => Promise!Next
  BY PromiseStep
<1> QED BY <1>1, <1>2, SavesSound, PTL DEF Spec, PromiseKept, Promise!Spec
=============================================================================
