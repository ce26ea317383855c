--------------------------- MODULE Mailbox_proofs ---------------------------
(***************************************************************************)
(* Proofs about Mailbox, for every value of its constants.                 *)
(***************************************************************************)
EXTENDS Mailbox, FiniteSetTheorems, TLAPS

----------------------------------------------------------------------------
(* The inductive invariant.                                                 *)

\* A later version of a message: the same mail, with nothing forgotten.
Follows(old, new) ==
  /\ Kept(old, new)
  /\ new.from = old.from /\ new.to = old.to /\ new.conv = old.conv
  /\ new.sender = old.sender /\ new.request = old.request

\* What a restart would load is a later version of what memory holds.
DiskFollows == \A m \in Saved(mail) : Follows(mail[m], disk[m])

\* A message whose helper was started carries an attempt, in memory and on disk.
WakesRecorded ==
  \A m \in Msgs :
    /\ wakes[m] \in {0, 1}
    /\ wakes[m] = 1 => /\ mail[m] # None /\ mail[m].outcome \in WakeOutcomes
                       /\ disk[m] # None /\ disk[m].outcome \in WakeOutcomes

\* Reported acknowledgements are in memory, and so on disk.
ToldAcked == \A m \in told : mail[m] # None /\ mail[m].acked

\* The operation in progress works on saved messages; while a reservation is
\* saved its message stays pending, and the launch follows a saved reservation.
Working ==
  /\ srv.rest \subseteq Saved(mail) /\ jobs \subseteq Saved(mail)
  /\ srv.pc = "pass" => srv.op = "tick"
  /\ srv.pc \in {"direct", "saving", "launch"} => srv.m \in Saved(mail)
  /\ (srv.pc = "reply" /\ srv.op = "send") => srv.m \in Saved(mail)
  /\ srv.pc = "saving" =>
       /\ Pending(mail[srv.m]) /\ srv.run \in Runs /\ srv.conv \in Convs
  /\ srv.pc = "launch" =>
       /\ mail[srv.m].outcome = "queue-prepared" /\ disk[srv.m] = mail[srv.m]
       /\ wakes[srv.m] = 0 /\ srv.run \in Runs

IInv == TypeOK /\ DiskFollows /\ WakesRecorded /\ ToldAcked /\ Working

\* What every new version of the mail must satisfy.
Keeps(next) ==
  /\ next \in Mail
  /\ \A m \in Saved(mail) :
       /\ Follows(mail[m], next[m])
       /\ wakes[m] = 1 => next[m].outcome \in WakeOutcomes

----------------------------------------------------------------------------
(* Messages and versions of the mail.                                       *)

\* A receipt changes the receipt only.
LEMMA ReceiptType ==
  ASSUME NEW e \in Message, NEW o \in Outcomes, NEW r \in Runs \union {None},
         NEW c \in Convs \union {None}, NEW l \in 0..MaxLease
  PROVE  /\ Receipt(e, o, r, c, l) \in Message
         /\ Receipt(e, o, r, c, l).outcome = o
         /\ (e.outcome \in WakeOutcomes \ {"queue-prepared"} => o \in WakeOutcomes)
              => Follows(e, Receipt(e, o, r, c, l))
<1> DEFINE x == Receipt(e, o, r, c, l)
<1>1. x \in Message /\ x.outcome = o
  BY DEF Receipt, Message
<1>2. /\ x.from = e.from /\ x.to = e.to /\ x.conv = e.conv /\ x.sender = e.sender
      /\ x.request = e.request /\ x.native = e.native /\ x.acked = e.acked
  BY DEF Receipt, Message
<1>3. x # None
  BY <1>1, NoneAssumption
<1> HIDE DEF x
<1> QED BY <1>1, <1>2, <1>3 DEF Follows, Kept, x

\* So does a change of its outcome.
LEMMA OutcomeType ==
  ASSUME NEW e \in Message, NEW o \in Outcomes
  PROVE  /\ [e EXCEPT !.outcome = o] \in Message
         /\ [e EXCEPT !.outcome = o].outcome = o
         /\ (e.outcome \in WakeOutcomes \ {"queue-prepared"} => o \in WakeOutcomes)
              => Follows(e, [e EXCEPT !.outcome = o])
<1> DEFINE x == [e EXCEPT !.outcome = o]
<1>1. x \in Message /\ x.outcome = o
  BY DEF Message
<1>2. /\ x.from = e.from /\ x.to = e.to /\ x.conv = e.conv /\ x.sender = e.sender
      /\ x.request = e.request /\ x.native = e.native /\ x.acked = e.acked
  BY DEF Message
<1>3. x # None
  BY <1>1, NoneAssumption
<1> HIDE DEF x
<1> QED BY <1>1, <1>2, <1>3 DEF Follows, Kept, x

\* Every message follows itself.
LEMMA FollowsReflexive ==
  ASSUME NEW e \in Message
  PROVE  e # None /\ Follows(e, e)
BY NoneAssumption DEF Follows, Kept

\* Surfacing keeps everything else.
LEMMA SurfaceType ==
  ASSUME NEW e \in Message
  PROVE  Surface(e) \in Message /\ Surface(e).outcome = e.outcome /\ Follows(e, Surface(e))
<1> DEFINE x == Surface(e)
<1>1. x \in Message /\ x.outcome = e.outcome /\ x.native = TRUE
  BY DEF Message, Surface
<1>2. /\ x.from = e.from /\ x.to = e.to /\ x.conv = e.conv /\ x.sender = e.sender
      /\ x.request = e.request /\ x.acked = e.acked
  BY DEF Message, Surface
<1>3. x # None
  BY <1>1, NoneAssumption
<1> HIDE DEF x
<1> QED BY <1>1, <1>2, <1>3 DEF Follows, Kept, x

\* So does acknowledging.
LEMMA AcknowledgeType ==
  ASSUME NEW e \in Message
  PROVE  /\ Acknowledge(e) \in Message /\ Acknowledge(e).outcome = e.outcome
         /\ Acknowledge(e).acked = TRUE /\ Follows(e, Acknowledge(e))
<1> DEFINE x == Acknowledge(e)
<1>1. x \in Message /\ x.outcome = e.outcome /\ x.acked = TRUE
  BY DEF Message, Acknowledge
<1>2. /\ x.from = e.from /\ x.to = e.to /\ x.conv = e.conv /\ x.sender = e.sender
      /\ x.request = e.request /\ x.native = e.native
  BY DEF Message, Acknowledge
<1>3. x # None
  BY <1>1, NoneAssumption
<1> HIDE DEF x
<1> QED BY <1>1, <1>2, <1>3 DEF Follows, Kept, x

\* Following is transitive when the last step keeps the outcome.
LEMMA FollowsTransitive ==
  ASSUME NEW a \in Message, NEW b \in Message, NEW c \in Message,
         Follows(a, b), Follows(b, c), c.outcome = b.outcome
  PROVE  Follows(a, c)
BY DEF Follows, Kept

\* Mail that is sent is well-formed.
LEMMA CardMailType ==
  ASSUME NEW w \in Workspaces \union {None}, NEW to \in Workspaces,
         NEW i \in {"quiet", "interrupt"}
  PROVE  CardMail(w, to, i) \in Message
BY BoundsAssumption DEF CardMail, Message, Outcomes

\* Mail sent to a conversation is well-formed.
LEMMA ChatMailType ==
  ASSUME NEW w \in Workspaces, NEW to \in Workspaces, NEW s \in Convs,
         NEW q \in Requests, NEW c \in Convs, NEW r \in Runs
  PROVE  ChatMail(w, s, q, to, c, r) \in Message
<1>1. CardMail(w, to, "quiet") \in Message
  BY CardMailType
<1> QED BY <1>1 DEF ChatMail, Message

\* The outcomes that the model writes are outcomes, and what each set holds.
LEMMA OutcomesTyped ==
  /\ WakeOutcomes \subseteq Outcomes /\ NoticeOutcomes \subseteq Outcomes
  /\ {"none", "waiting"} \subseteq Outcomes
  /\ QueueOutcomes \subseteq WakeOutcomes
  /\ "queue-prepared" \in WakeOutcomes /\ "queued" \in WakeOutcomes
  /\ "unknown" \in WakeOutcomes /\ "queue-submitted" \in WakeOutcomes
  /\ "hook-prepared" \in NoticeOutcomes /\ "hook-emitted" \in NoticeOutcomes
  /\ "mcp-returned" \in NoticeOutcomes
  /\ "waiting" \notin WakeOutcomes /\ "none" \notin WakeOutcomes
  /\ WakeOutcomes \intersect NoticeOutcomes = {}
BY DEF Outcomes, WakeOutcomes, NoticeOutcomes, QueueOutcomes

\* The mail in which the messages of S are replaced by what F gives for them.
LEMMA UpdateKeeps ==
  ASSUME mail \in Mail, NEW S \in SUBSET Saved(mail), NEW F \in [S -> Message],
         \A m \in S : /\ Follows(mail[m], F[m])
                      /\ wakes[m] = 1 => F[m].outcome \in WakeOutcomes,
         WakesRecorded
  PROVE  Keeps([m \in Msgs |-> IF m \in S THEN F[m] ELSE mail[m]])
<1> DEFINE next == [m \in Msgs |-> IF m \in S THEN F[m] ELSE mail[m]]
<1>1. next \in Mail
  BY DEF Mail, Saved
<1>2. ASSUME NEW m \in Saved(mail)
      PROVE  Follows(mail[m], next[m]) /\ (wakes[m] = 1 => next[m].outcome \in WakeOutcomes)
  <2>1. mail[m] \in Message /\ m \in Msgs
    BY DEF Mail, Saved
  <2>2. CASE m \in S
    BY <2>2, <2>1
  <2>3. CASE m \notin S
    BY <2>3, <2>1, FollowsReflexive DEF WakesRecorded
  <2> QED BY <2>2, <2>3
<1> QED BY <1>1, <1>2 DEF Keeps

\* A saved message is a message, and one that is pending was never woken for.
LEMMA SavedMessage ==
  ASSUME mail \in Mail, NEW m \in Saved(mail)
  PROVE  mail[m] \in Message /\ m \in Msgs /\ mail[m] # None
BY DEF Mail, Saved

\* No helper was started for pending mail, and no attempt is recorded on it.
LEMMA PendingUnwoken ==
  ASSUME mail \in Mail, WakesRecorded, NEW m \in Saved(mail), Pending(mail[m])
  PROVE  wakes[m] = 0 /\ mail[m].outcome \notin WakeOutcomes \union NoticeOutcomes
BY SavedMessage DEF WakesRecorded, Pending

\* Mail that stays as it is follows itself.
LEMMA SameKeeps ==
  ASSUME mail \in Mail, WakesRecorded
  PROVE  Keeps(mail)
<1>1. ASSUME NEW m \in Saved(mail)
      PROVE  Follows(mail[m], mail[m]) /\ (wakes[m] = 1 => mail[m].outcome \in WakeOutcomes)
  BY SavedMessage, FollowsReflexive DEF WakesRecorded
<1> QED BY <1>1 DEF Keeps

\* The mail with a receipt, or an outcome, given to the messages of S; and the same
\* with those messages surfaced too.
Received(S, o, r, c, l) ==
  [m \in Msgs |-> IF m \in S THEN Receipt(mail[m], o, r, c, l) ELSE mail[m]]
ReceivedSeen(S, o, r, c, l) ==
  [m \in Msgs |-> IF m \in S THEN Surface(Receipt(mail[m], o, r, c, l)) ELSE mail[m]]
Resolved(S, o) ==
  [m \in Msgs |-> IF m \in S THEN [mail[m] EXCEPT !.outcome = o] ELSE mail[m]]
ResolvedSeen(S, o) ==
  [m \in Msgs |-> IF m \in S THEN Surface([mail[m] EXCEPT !.outcome = o]) ELSE mail[m]]

\* Giving messages without an attempt a receipt.
LEMMA ReceiptKeeps ==
  ASSUME mail \in Mail, WakesRecorded, NEW S \in SUBSET Saved(mail),
         NEW o \in Outcomes, NEW r \in Runs \union {None},
         NEW c \in Convs \union {None}, NEW l \in 0..MaxLease,
         \A m \in S : mail[m].outcome \notin WakeOutcomes
  PROVE  Keeps(Received(S, o, r, c, l)) /\ Keeps(ReceivedSeen(S, o, r, c, l))
<1> DEFINE F == [k \in S |-> Receipt(mail[k], o, r, c, l)]
           G == [k \in S |-> Surface(Receipt(mail[k], o, r, c, l))]
<1>1. ASSUME NEW m \in S
      PROVE  /\ F[m] \in Message /\ Follows(mail[m], F[m]) /\ wakes[m] # 1
             /\ G[m] \in Message /\ Follows(mail[m], G[m])
  <2>1. /\ mail[m] \in Message /\ mail[m] # None /\ m \in Msgs
        /\ mail[m].outcome \notin WakeOutcomes
    BY SavedMessage
  <2> DEFINE x == Receipt(mail[m], o, r, c, l)
  <2>2. x \in Message /\ Follows(mail[m], x)
    BY <2>1, ReceiptType
  <2>3. Surface(x) \in Message /\ Follows(x, Surface(x)) /\ Surface(x).outcome = x.outcome
    BY <2>2, SurfaceType
  <2>4. Follows(mail[m], Surface(x))
    BY <2>1, <2>2, <2>3, FollowsTransitive
  <2>5. wakes[m] # 1
    BY <2>1 DEF WakesRecorded
  <2> QED BY <2>2, <2>3, <2>4, <2>5
<1>2. F \in [S -> Message] /\ G \in [S -> Message]
  BY <1>1
<1>3. Keeps([m \in Msgs |-> IF m \in S THEN F[m] ELSE mail[m]])
  <2> HIDE DEF F
  <2> QED BY <1>1, <1>2, UpdateKeeps
<1>4. Keeps([m \in Msgs |-> IF m \in S THEN G[m] ELSE mail[m]])
  <2> HIDE DEF G
  <2> QED BY <1>1, <1>2, UpdateKeeps
<1>5. /\ [m \in Msgs |-> IF m \in S THEN F[m] ELSE mail[m]] = Received(S, o, r, c, l)
      /\ [m \in Msgs |-> IF m \in S THEN G[m] ELSE mail[m]] = ReceivedSeen(S, o, r, c, l)
  BY DEF Received, ReceivedSeen
<1> QED BY <1>3, <1>4, <1>5

\* Changing the outcome of attempts: a wake-up remains a wake-up.
LEMMA OutcomeKeeps ==
  ASSUME mail \in Mail, WakesRecorded, NEW S \in SUBSET Saved(mail), NEW o \in Outcomes,
         \A m \in S : mail[m].outcome \in WakeOutcomes => o \in WakeOutcomes
  PROVE  Keeps(Resolved(S, o)) /\ Keeps(ResolvedSeen(S, o))
<1> DEFINE F == [k \in S |-> [mail[k] EXCEPT !.outcome = o]]
           G == [k \in S |-> Surface([mail[k] EXCEPT !.outcome = o])]
<1>1. ASSUME NEW m \in S
      PROVE  /\ F[m] \in Message /\ Follows(mail[m], F[m])
             /\ G[m] \in Message /\ Follows(mail[m], G[m])
             /\ wakes[m] = 1 => F[m].outcome \in WakeOutcomes /\ G[m].outcome \in WakeOutcomes
  <2>1. /\ mail[m] \in Message /\ mail[m] # None /\ m \in Msgs
        /\ mail[m].outcome \in WakeOutcomes => o \in WakeOutcomes
    BY SavedMessage
  <2> DEFINE x == [mail[m] EXCEPT !.outcome = o]
  <2>2. x \in Message /\ Follows(mail[m], x) /\ x.outcome = o
    BY <2>1, OutcomeType
  <2>3. Surface(x) \in Message /\ Follows(x, Surface(x)) /\ Surface(x).outcome = x.outcome
    BY <2>2, SurfaceType
  <2>4. Follows(mail[m], Surface(x))
    BY <2>1, <2>2, <2>3, FollowsTransitive
  <2>5. wakes[m] = 1 => o \in WakeOutcomes
    BY <2>1 DEF WakesRecorded
  <2> HIDE DEF x
  <2>6. F[m] = x /\ G[m] = Surface(x)
    BY DEF x
  <2> QED BY <2>2, <2>3, <2>4, <2>5, <2>6
<1>2. F \in [S -> Message] /\ G \in [S -> Message]
  BY <1>1
<1>3. Keeps([m \in Msgs |-> IF m \in S THEN F[m] ELSE mail[m]])
  <2> HIDE DEF F
  <2> QED BY <1>1, <1>2, UpdateKeeps
<1>4. Keeps([m \in Msgs |-> IF m \in S THEN G[m] ELSE mail[m]])
  <2> HIDE DEF G
  <2> QED BY <1>1, <1>2, UpdateKeeps
<1>5. /\ [m \in Msgs |-> IF m \in S THEN F[m] ELSE mail[m]] = Resolved(S, o)
      /\ [m \in Msgs |-> IF m \in S THEN G[m] ELSE mail[m]] = ResolvedSeen(S, o)
  BY DEF Resolved, ResolvedSeen
<1> QED BY <1>3, <1>4, <1>5

\* The versions of the mail that a wake-up attempt saves.
LEMMA AttemptKeeps ==
  ASSUME mail \in Mail, WakesRecorded, NEW m \in Saved(mail), Pending(mail[m])
  PROVE  /\ Keeps(Waiting(m))
         /\ (srv.m = m /\ srv.run \in Runs /\ srv.conv \in Convs) => Keeps(Reserved)
<1>1. /\ \A k \in {m} : mail[k].outcome \notin WakeOutcomes
      /\ {m} \in SUBSET Saved(mail)
  BY PendingUnwoken
<1>2. /\ "waiting" \in Outcomes /\ "queue-prepared" \in Outcomes
      /\ 0 \in 0..MaxLease
      /\ None \in Runs \union {None} /\ None \in Convs \union {None}
  BY OutcomesTyped, BoundsAssumption
<1>3. Keeps(Waiting(m))
  <2>1. Keeps(Received({m}, "waiting", None, None, 0))
    BY <1>1, <1>2, ReceiptKeeps
  <2> QED BY <2>1 DEF Waiting, Amend, Received
<1>4. ASSUME srv.m = m, srv.run \in Runs, srv.conv \in Convs
      PROVE  Keeps(Reserved)
  <2>1. Keeps(Received({m}, "queue-prepared", srv.run, srv.conv, 0))
    BY <1>1, <1>2, <1>4, ReceiptKeeps
  <2> QED BY <2>1, <1>4 DEF Reserved, Amend, Received
<1> QED BY <1>3, <1>4

\* The outcome of an attempt: once a helper was started, it stays an attempt.
LEMMA FinishedKeeps ==
  ASSUME mail \in Mail, WakesRecorded, NEW m \in Saved(mail), NEW o \in Outcomes,
         wakes[m] = 1 => o \in WakeOutcomes
  PROVE  Keeps(Finished(m, o))
<1> DEFINE F == [k \in {m} |-> Resolve(mail[k], o)]
<1>1. mail[m] \in Message /\ mail[m] # None /\ m \in Msgs
  BY SavedMessage
<1>2. /\ F[m] \in Message /\ Follows(mail[m], F[m])
      /\ wakes[m] = 1 => F[m].outcome \in WakeOutcomes
  <2> DEFINE x == [mail[m] EXCEPT !.outcome = o]
  <2>1. CASE mail[m].outcome = "queue-prepared"
    <3>1. x \in Message /\ x.outcome = o /\ Follows(mail[m], x)
      BY <1>1, <2>1, OutcomeType
    <3> QED BY <3>1, <2>1 DEF Resolve
  <2>2. CASE mail[m].outcome # "queue-prepared"
    <3>1. F[m] = mail[m]
      BY <2>2 DEF Resolve
    <3> QED BY <3>1, <1>1, FollowsReflexive DEF WakesRecorded
  <2> QED BY <2>1, <2>2
<1>3. F \in [{m} -> Message]
  BY <1>2
<1>4. Finished(m, o) = [k \in Msgs |-> IF k \in {m} THEN F[k] ELSE mail[k]]
  BY DEF Finished, Amend
<1> HIDE DEF F
<1> QED BY <1>2, <1>3, <1>4, UpdateKeeps

\* Acknowledging some messages and surfacing others.
LEMMA HandledKeeps ==
  ASSUME mail \in Mail, WakesRecorded,
         NEW S \in SUBSET Saved(mail), NEW T \in SUBSET Saved(mail)
  PROVE  /\ Keeps(Amend(mail, S, Acknowledge)) /\ Keeps(Amend(mail, T, Surface))
         /\ Keeps(Amend(Amend(mail, S, Acknowledge), T, Surface))
         /\ \A m \in S : /\ Amend(mail, S, Acknowledge)[m].acked
                         /\ Amend(Amend(mail, S, Acknowledge), T, Surface)[m].acked
<1> DEFINE A(m) == IF m \in S THEN Acknowledge(mail[m]) ELSE mail[m]
           B(m) == IF m \in T THEN Surface(mail[m]) ELSE mail[m]
           C(m) == IF m \in T THEN Surface(A(m)) ELSE A(m)
<1>1. ASSUME NEW m \in Saved(mail)
      PROVE  /\ A(m) \in Message /\ Follows(mail[m], A(m))
             /\ B(m) \in Message /\ Follows(mail[m], B(m))
             /\ C(m) \in Message /\ Follows(mail[m], C(m))
             /\ wakes[m] = 1 => /\ A(m).outcome \in WakeOutcomes
                               /\ B(m).outcome \in WakeOutcomes
                               /\ C(m).outcome \in WakeOutcomes
             /\ m \in S => A(m).acked /\ C(m).acked
  <2>1. mail[m] \in Message /\ mail[m] # None /\ m \in Msgs
    BY SavedMessage
  <2>2. wakes[m] = 1 => mail[m].outcome \in WakeOutcomes
    BY <2>1 DEF WakesRecorded
  <2>3. /\ A(m) \in Message /\ Follows(mail[m], A(m)) /\ A(m).outcome = mail[m].outcome
        /\ m \in S => A(m).acked
    BY <2>1, AcknowledgeType, FollowsReflexive
  <2>4. B(m) \in Message /\ Follows(mail[m], B(m)) /\ B(m).outcome = mail[m].outcome
    BY <2>1, SurfaceType, FollowsReflexive
  <2>5. /\ C(m) \in Message /\ Follows(A(m), C(m)) /\ C(m).outcome = A(m).outcome
    <3> HIDE DEF A
    <3> QED BY <2>3, SurfaceType, FollowsReflexive
  <2>6. Follows(mail[m], C(m)) /\ (m \in S => C(m).acked)
    <3> HIDE DEF A, C
    <3>1. Follows(mail[m], C(m))
      BY <2>1, <2>3, <2>5, FollowsTransitive
    <3> QED BY <3>1, <2>3, <2>5 DEF Follows, Kept
  <2> HIDE DEF A, B, C
  <2> QED BY <2>2, <2>3, <2>4, <2>5, <2>6
<1>2. /\ Amend(mail, S, Acknowledge) = [m \in Msgs |-> A(m)]
      /\ Amend(mail, T, Surface) = [m \in Msgs |-> B(m)]
      /\ Amend(Amend(mail, S, Acknowledge), T, Surface) = [m \in Msgs |-> C(m)]
  BY DEF Amend
<1>3. ASSUME NEW m \in Msgs, m \notin Saved(mail)
      PROVE  A(m) = None /\ B(m) = None /\ C(m) = None
  BY <1>3 DEF Saved
<1> HIDE DEF A, B, C
<1>4. Keeps([m \in Msgs |-> A(m)])
  BY <1>1, <1>3 DEF Keeps, Mail, Saved
<1>5. Keeps([m \in Msgs |-> B(m)])
  BY <1>1, <1>3 DEF Keeps, Mail, Saved
<1>6. Keeps([m \in Msgs |-> C(m)])
  BY <1>1, <1>3 DEF Keeps, Mail, Saved
<1>7. \A m \in S : m \in Saved(mail) /\ m \in Msgs
  BY DEF Saved
<1> QED BY <1>1, <1>2, <1>4, <1>5, <1>6, <1>7

\* Appending a message.
LEMMA AppendKeeps ==
  ASSUME mail \in Mail, WakesRecorded, NEW m \in Msgs, mail[m] = None, NEW new \in Message
  PROVE  Keeps([mail EXCEPT ![m] = new])
<1>1. [mail EXCEPT ![m] = new] \in Mail
  BY DEF Mail
<1>2. ASSUME NEW k \in Saved(mail)
      PROVE  [mail EXCEPT ![m] = new][k] = mail[k]
  BY DEF Saved, Mail
<1> QED BY <1>1, <1>2, SavedMessage, FollowsReflexive DEF Keeps, WakesRecorded

----------------------------------------------------------------------------
(* One save.                                                                *)

Saves(next) ==
  \/ Commits(next) \/ CommitFails(next) \/ UNCHANGED <<mail, disk, faults>>
  \/ mail' = next /\ disk' = next /\ faults' = faults + 1

\* What every step that saves keeps, whatever the save's outcome is.
StoreKept ==
  /\ mail' \in Mail /\ disk' \in Mail /\ faults' \in Nat
  /\ DiskFollows' /\ WakesRecorded' /\ ToldAcked'
  /\ Saved(mail) \subseteq Saved(mail)'
  /\ \A m \in Saved(mail) : Kept(mail[m], mail'[m])

\* The store after any save, successful or not.
LEMMA SaveStep ==
  ASSUME mail \in Mail, disk \in Mail, faults \in Nat, told \subseteq Msgs,
         DiskFollows, WakesRecorded, ToldAcked,
         NEW next, Keeps(next), Saves(next), wakes' = wakes,
         \A m \in told' \ told : mail'[m] # None /\ mail'[m].acked
  PROVE  StoreKept
<1>1. next \in Mail /\ \A m \in Saved(mail) : Follows(mail[m], next[m])
  BY DEF Keeps
<1>2. /\ mail' \in {mail, next} /\ disk' \in {disk, next} /\ faults' \in Nat
      /\ mail' = next => (disk' = next \/ mail' = mail)
  BY DEF Saves, Commits, CommitFails
<1>3. mail' \in Mail /\ disk' \in Mail
  BY <1>1, <1>2
<1>4. \A m \in Saved(mail) : Follows(mail[m], mail'[m])
  BY <1>1, <1>2, SavedMessage, FollowsReflexive
<1>5. Saved(mail) \subseteq Saved(mail)' /\ \A m \in Saved(mail) : Kept(mail[m], mail'[m])
  BY <1>4 DEF Follows, Kept, Saved
<1>6. DiskFollows'
  <2>1. CASE mail' = mail
    BY <2>1, <1>1, <1>2 DEF DiskFollows, Saved
  <2>2. CASE mail' = next /\ disk' = next
    <3>1. \A m \in Msgs : next[m] # None => Follows(next[m], next[m])
      BY <1>1, FollowsReflexive DEF Mail
    <3> QED BY <2>2, <3>1 DEF DiskFollows, Saved
  <2> QED BY <2>1, <2>2, <1>2
<1>7. WakesRecorded'
  <2> SUFFICES ASSUME NEW m \in Msgs
               PROVE  /\ wakes[m] \in {0, 1}
                      /\ wakes[m] = 1 =>
                           /\ mail'[m] # None /\ mail'[m].outcome \in WakeOutcomes
                           /\ disk'[m] # None /\ disk'[m].outcome \in WakeOutcomes
    BY DEF WakesRecorded
  <2>1. ASSUME wakes[m] = 1
        PROVE  /\ mail[m] # None /\ mail[m].outcome \in WakeOutcomes
               /\ disk[m] # None /\ disk[m].outcome \in WakeOutcomes
               /\ next[m] # None /\ next[m].outcome \in WakeOutcomes
    BY <2>1 DEF WakesRecorded, Keeps, Saved, Follows, Kept
  <2> QED BY <2>1, <1>2 DEF WakesRecorded
<1>8. ToldAcked'
  BY <1>4, <1>5 DEF ToldAcked, Follows, Kept, Saved, Mail
<1> QED BY <1>2, <1>3, <1>5, <1>6, <1>7, <1>8 DEF StoreKept

\* The idle supervisor.
LEMMA IdleType == Idle \in Servers
BY BoundsAssumption DEF Idle, Work, Servers

\* The reads of the inbox.
LEMMA InboxStep ==
  ASSUME IInv, NEW r \in Runs, NEW S \in SUBSET Msgs, NEW after \in 0..MaxMsg,
         NEW limit \in PageLimits, NEW all \in BOOLEAN,
         Inbox(r, S, after, limit, all)
  PROVE  IInv' /\ StoreKept
<1> DEFINE scope == Visible(r, MailboxConversation(r))
           listed == IF all THEN scope ELSE Unread(scope) \ S
           page == First({m \in listed : m > after}, limit)
           next == Amend(Amend(mail, S, Acknowledge), page, Surface)
<1> USE DEF IInv
<1>1. S \subseteq scope /\ scope \subseteq Saved(mail) /\ page \subseteq Saved(mail)
  BY DEF Inbox, Visible, Unread, First
<1>2. Keeps(next) /\ \A m \in S : next[m].acked
  <2> HIDE DEF scope, page
  <2> QED BY <1>1, HandledKeeps DEF TypeOK
<1>3. Saves(next)
  BY DEF Inbox, Saves, CommitsChange
<1>4. StoreKept
  <2>1. \A m \in told' \ told : m \in S /\ mail' = next
    BY DEF Inbox, CommitsChange, Commits
  <2>2. \A m \in S : m \in Saved(mail) /\ next[m] # None
    <3> HIDE DEF next
    <3> QED BY <1>1, <1>2 DEF Keeps, Follows, Kept
  <2>3. wakes' = wakes
    BY DEF Inbox
  <2> HIDE DEF next
  <2> QED BY <1>2, <1>3, <2>1, <2>2, <2>3, SaveStep DEF TypeOK
<1>5. TypeOK'
  <2>1. told' \subseteq Msgs
    BY <1>1 DEF Inbox, TypeOK
  <2> QED BY <1>4, <2>1 DEF Inbox, TypeOK, StoreKept, natives, outside
<1>6. Working'
  BY <1>4 DEF Inbox, Working, StoreKept, TypeOK
<1> QED BY <1>4, <1>5, <1>6 DEF StoreKept

\* The human acknowledges.
LEMMA HumanInboxStep ==
  ASSUME IInv, NEW w \in Workspaces, NEW S \in SUBSET Msgs, HumanInbox(w, S)
  PROVE  IInv' /\ StoreKept
<1> DEFINE next == Amend(mail, S, Acknowledge)
<1> USE DEF IInv
<1>1. S \subseteq Saved(mail)
  BY DEF HumanInbox
<1>2. Keeps(next) /\ \A m \in S : next[m].acked
  BY <1>1, HandledKeeps DEF TypeOK
<1>3. Saves(next)
  BY DEF HumanInbox, Saves, CommitsChange
<1>4. StoreKept
  <2>1. \A m \in told' \ told : m \in S /\ mail' = next
    BY DEF HumanInbox, CommitsChange, Commits
  <2>2. \A m \in S : m \in Saved(mail) /\ next[m] # None
    <3> HIDE DEF next
    <3> QED BY <1>1, <1>2 DEF Keeps, Follows, Kept
  <2>3. wakes' = wakes
    BY DEF HumanInbox
  <2> HIDE DEF next
  <2> QED BY <1>2, <1>3, <2>1, <2>2, <2>3, SaveStep DEF TypeOK
<1>5. TypeOK'
  <2>1. told' \subseteq Msgs
    BY <1>1 DEF HumanInbox, TypeOK
  <2> QED BY <1>4, <2>1 DEF HumanInbox, TypeOK, StoreKept, natives, outside
<1>6. Working'
  BY <1>4 DEF HumanInbox, Working, StoreKept, TypeOK
<1> QED BY <1>4, <1>5, <1>6 DEF StoreKept

\* Bodies are surfaced.
LEMMA ReadBodiesStep ==
  ASSUME IInv, NEW r \in Runs, NEW S \in SUBSET Msgs, ReadBodies(r, S)
  PROVE  IInv' /\ StoreKept
<1> DEFINE next == Amend(mail, S, Surface)
<1> USE DEF IInv
<1>1. S \subseteq Saved(mail)
  BY DEF ReadBodies, Unread, Visible
<1>2. Keeps(next)
  BY <1>1, HandledKeeps DEF TypeOK
<1>3. Saves(next) /\ wakes' = wakes /\ told' = told
  BY DEF ReadBodies, Saves
<1>4. StoreKept
  <2> HIDE DEF next
  <2> QED BY <1>2, <1>3, SaveStep DEF TypeOK
<1>5. TypeOK'
  BY <1>4 DEF ReadBodies, TypeOK, StoreKept, natives, outside
<1>6. Working'
  BY <1>4 DEF ReadBodies, Working, StoreKept, TypeOK
<1> QED BY <1>4, <1>5, <1>6 DEF StoreKept

\* A change of the do-not-disturb interval saves the mail as it is.
LEMMA SetFocusStep ==
  ASSUME IInv, NEW r \in Runs, NEW on \in BOOLEAN, SetFocus(r, on)
  PROVE  IInv' /\ StoreKept
<1> USE DEF IInv
<1>1. Keeps(mail)
  BY SameKeeps DEF TypeOK
<1>2. Saves(mail) /\ wakes' = wakes /\ told' = told
  BY DEF SetFocus, Saves
<1>3. StoreKept
  BY <1>1, <1>2, SaveStep DEF TypeOK
<1>4. TypeOK'
  BY <1>3 DEF SetFocus, TypeOK, StoreKept, outside
<1>5. Working'
  BY <1>3 DEF SetFocus, Working, StoreKept, TypeOK
<1> QED BY <1>3, <1>4, <1>5 DEF StoreKept

\* Any other save writes what memory holds.
LEMMA OtherSaveStep ==
  ASSUME IInv, OtherSave
  PROVE  IInv' /\ StoreKept
<1> USE DEF IInv
<1>1. Keeps(mail)
  BY SameKeeps DEF TypeOK
<1>2. Saves(mail) /\ wakes' = wakes /\ told' = told
  BY DEF OtherSave, Saves
<1>3. StoreKept
  BY <1>1, <1>2, SaveStep DEF TypeOK
<1>4. TypeOK'
  BY <1>3 DEF OtherSave, TypeOK, StoreKept, outside, natives
<1>5. Working'
  BY <1>3 DEF OtherSave, Working, StoreKept, TypeOK
<1> QED BY <1>3, <1>4, <1>5 DEF StoreKept

----------------------------------------------------------------------------
(* Operations that leave the mail alone.                                    *)

StoreSame == UNCHANGED <<mail, disk, faults, wakes, told>>

\* A step that leaves the mail and its history alone keeps the store.
LEMMA SameStep ==
  ASSUME mail \in Mail, disk \in Mail, faults \in Nat, told \subseteq Msgs,
         DiskFollows, WakesRecorded, ToldAcked, StoreSame
  PROVE  StoreKept
<1>1. Keeps(mail)
  BY SameKeeps
<1>2. Saves(mail)
  BY DEF StoreSame, Saves
<1>3. wakes' = wakes /\ told' = told
  BY DEF StoreSame
<1> QED BY <1>1, <1>2, <1>3, SaveStep

\* Events outside the supervisor: its own state does not change.
LEMMA OutsideStep ==
  ASSUME IInv, StoreSame, UNCHANGED <<srv, jobs>>, TypeOK'
  PROVE  IInv' /\ StoreKept
<1>1. StoreKept
  BY SameStep DEF IInv, TypeOK
<1>2. Working'
  BY DEF IInv, Working, StoreSame, Saved
<1> QED BY <1>1, <1>2 DEF IInv, StoreKept

\* Starts, exits, switches and timers of runs.
LEMMA NativeSteps ==
  ASSUME IInv, NEW r \in Runs,
         \/ Start(r) \/ Exit(r) \/ Settle(r) \/ FocusEnds(r)
         \/ \E c \in Convs \union {None} : Switch(r, c)
  PROVE  IInv' /\ StoreKept
<1>1. StoreSame /\ UNCHANGED <<srv, jobs>>
  BY DEF Start, Exit, Settle, FocusEnds, Switch, server, history, StoreSame
<1>2. Start(r) => TypeOK'
  BY DEF IInv, TypeOK, Start, server, outside, history
<1>3. Exit(r) => TypeOK'
  BY DEF IInv, TypeOK, Exit, server, outside, history, NoHook, Hooks
<1>4. Settle(r) => TypeOK'
  <2>1. hook \in [Runs -> Hooks]
    BY DEF IInv, TypeOK
  <2>2. Settle(r) => hook' = [hook EXCEPT ![r].settled = TRUE]
    BY DEF Settle
  <2>3. Settle(r) => hook' \in [Runs -> Hooks]
    BY <2>1, <2>2 DEF Hooks
  <2> QED BY <2>3 DEF IInv, TypeOK, Settle, server, outside, history
<1>5. (\E c \in Convs \union {None} : Switch(r, c)) => TypeOK'
  BY DEF IInv, TypeOK, Switch, server, outside, history
<1>6. FocusEnds(r) => TypeOK'
  BY DEF IInv, TypeOK, FocusEnds, server, outside, history
<1> QED BY <1>1, <1>2, <1>3, <1>4, <1>5, <1>6, OutsideStep

\* The user's input, also during a save.
LEMMA TypeStep ==
  ASSUME IInv, NEW r \in Runs, NEW leaves \in BOOLEAN, Type(r, leaves)
  PROVE  IInv' /\ StoreKept
<1>1. StoreSame /\ jobs' = jobs
  BY DEF Type, history, StoreSame
<1>2. srv' \in Servers
  BY DEF IInv, TypeOK, Type, Servers
<1>3. TypeOK'
  BY <1>1, <1>2 DEF IInv, TypeOK, Type, outside, history
<1>4. StoreKept
  BY <1>1, SameStep DEF IInv, TypeOK
<1>5. /\ srv'.pc = srv.pc /\ srv'.op = srv.op /\ srv'.m = srv.m /\ srv'.rest = srv.rest
      /\ srv'.run = srv.run /\ srv'.conv = srv.conv
  BY DEF IInv, TypeOK, Type, Servers
<1>6. Working'
  BY <1>1, <1>5 DEF IInv, Working, StoreSame, Saved
<1> QED BY <1>3, <1>4, <1>6 DEF IInv, StoreKept

\* The adapter prints, dies or is late.
LEMMA AdapterSteps ==
  ASSUME IInv, NEW l \in Leases, AdapterPrints(l) \/ LeaseExpires(l)
  PROVE  IInv' /\ StoreKept
<1>1. StoreSame /\ UNCHANGED <<srv, jobs>>
  BY DEF AdapterPrints, LeaseExpires, server, history, StoreSame
<1>2. AdapterPrints(l) => TypeOK'
  <2>1. adapter \in [Leases -> Adapters]
    BY DEF IInv, TypeOK
  <2>2. AdapterPrints(l) => \E s \in {"printed", "gone"} : adapter' = [adapter EXCEPT ![l].st = s]
    BY DEF AdapterPrints
  <2>3. AdapterPrints(l) => adapter' \in [Leases -> Adapters]
    BY <2>1, <2>2 DEF Adapters
  <2> QED BY <2>3 DEF IInv, TypeOK, AdapterPrints, server, natives, history
<1>3. LeaseExpires(l) => TypeOK'
  BY DEF IInv, TypeOK, LeaseExpires, server, natives, history
<1> QED BY <1>1, <1>2, <1>3, OutsideStep

\* The queue helper hands its notice over, or fails.
LEMMA HelperRunsStep ==
  ASSUME IInv, NEW m \in Msgs, HelperRuns(m)
  PROVE  IInv' /\ StoreKept
<1>1. StoreSame /\ UNCHANGED <<srv, jobs>>
  BY DEF HelperRuns, server, history, StoreSame
<1>2. helper' \in [Msgs -> Helpers]
  <2>1. helper \in [Msgs -> Helpers]
    BY DEF IInv, TypeOK
  <2>2. \E s \in {"ok", "bad"} : helper' = [helper EXCEPT ![m].st = s]
    BY DEF HelperRuns
  <2> QED BY <2>1, <2>2 DEF Helpers
<1>3. nqueue' \subseteq Notices
  BY DEF IInv, TypeOK, HelperRuns, Notices, Helpers
<1>4. TypeOK'
  BY <1>2, <1>3 DEF IInv, TypeOK, HelperRuns, server, natives, history
<1> QED BY <1>1, <1>4, OutsideStep

\* A restart takes the mail from the disk, which follows what memory held.
LEMMA CrashStep ==
  ASSUME IInv, Crash
  PROVE  IInv' /\ \A m \in Saved(mail) : Kept(mail[m], mail'[m])
<1> USE DEF IInv
<1>1. \A m \in Saved(mail) : Follows(mail[m], disk[m])
  BY DEF DiskFollows
<1>2. \A m \in Saved(disk) : Follows(disk[m], disk[m])
  BY FollowsReflexive DEF TypeOK, Saved, Mail
<1>3. mail' = disk /\ disk' = disk /\ wakes' = wakes /\ told' = told
  BY DEF Crash
<1>4. DiskFollows'
  BY <1>2, <1>3 DEF DiskFollows, Saved
<1>5. WakesRecorded'
  BY <1>3 DEF WakesRecorded
<1>6. ToldAcked'
  BY <1>1, <1>3 DEF ToldAcked, Follows, Kept, TypeOK, Saved
<1>7. srv' = Idle /\ jobs' = {} /\ srv' \in Servers
  BY IdleType DEF Crash
<1>8. TypeOK'
  BY <1>3, <1>7 DEF Crash, TypeOK, outside, NoHook, Hooks
<1>9. Working'
  BY <1>7 DEF Working, Idle, Work
<1> QED BY <1>1, <1>3, <1>4, <1>5, <1>6, <1>8, <1>9 DEF Follows

----------------------------------------------------------------------------
(* Sending, replying and hooks.                                             *)

\* The supervisor in the middle of an operation on message m.
LEMMA WorkType ==
  ASSUME NEW pc \in {"idle", "pass", "direct", "reply"},
         NEW op \in {"none", "tick", "send", "deliver", "card", "tool"},
         NEW r \in Runs \union {None}, NEW m \in 0..MaxMsg,
         NEW rest \in SUBSET Msgs, NEW start \in Nat
  PROVE  /\ Work(pc, op, r, m, rest, start) \in Servers
         /\ Work(pc, op, r, m, rest, start).pc = pc
         /\ Work(pc, op, r, m, rest, start).op = op
         /\ Work(pc, op, r, m, rest, start).m = m
         /\ Work(pc, op, r, m, rest, start).rest = rest
BY DEF Work, Servers

\* The operations that end with a reply.
LEMMA BusyType ==
  ASSUME NEW op \in {"send", "deliver", "card", "tool"},
         NEW r \in Runs \union {None}, NEW m \in 0..MaxMsg
  PROVE  /\ Replying(op, r, m) \in Servers /\ Trying(op, r, m) \in Servers
         /\ Replying(op, r, m).pc = "reply" /\ Trying(op, r, m).pc = "direct"
         /\ Replying(op, r, m).rest = {} /\ Trying(op, r, m).rest = {}
         /\ Replying(op, r, m).m = m /\ Trying(op, r, m).m = m
         /\ Replying(op, r, m).op = op /\ Trying(op, r, m).op = op
BY WorkType DEF Replying, Trying

\* A tool call.
LEMMA ToolCallStep ==
  ASSUME IInv, NEW r \in Runs, ToolCall(r)
  PROVE  IInv' /\ StoreKept
<1>1. StoreSame /\ jobs' = jobs /\ srv' = Replying("tool", r, 0)
  BY DEF ToolCall, StoreSame, history
<1>2. srv' \in Servers /\ srv'.pc = "reply" /\ srv'.rest = {} /\ srv'.op = "tool"
  BY <1>1, BusyType, BoundsAssumption
<1>3. StoreKept
  BY <1>1, SameStep DEF IInv, TypeOK
<1>4. TypeOK'
  BY <1>2 DEF IInv, TypeOK, ToolCall, natives, outside, history
<1>5. Working'
  BY <1>1, <1>2 DEF IInv, Working, StoreSame, Saved
<1> QED BY <1>3, <1>4, <1>5 DEF IInv, StoreKept

\* An explicit delivery begins.
LEMMA DeliverStep ==
  ASSUME IInv, NEW r \in Runs \union {None}, NEW m \in Msgs, Deliver(r, m)
  PROVE  IInv' /\ StoreKept
<1>1. /\ StoreSame /\ jobs' = jobs /\ m \in Saved(mail)
      /\ srv' = Trying("deliver", r, m)
  BY DEF Deliver, StoreSame, history
<1>2. srv' \in Servers /\ srv'.pc = "direct" /\ srv'.rest = {} /\ srv'.m = m
  <2>1. m \in 0..MaxMsg
    BY BoundsAssumption DEF Msgs
  <2> QED BY <1>1, <2>1, BusyType
<1>3. StoreKept
  BY <1>1, SameStep DEF IInv, TypeOK
<1>4. TypeOK'
  BY <1>2 DEF IInv, TypeOK, Deliver, natives, outside, history
<1>5. Working'
  BY <1>1, <1>2 DEF IInv, Working, StoreSame, Saved
<1> QED BY <1>3, <1>4, <1>5 DEF IInv, StoreKept

\* Card mail is appended.
LEMMA SendCardStep ==
  ASSUME IInv, NEW r \in Runs \union {None}, NEW w \in Workspaces,
         NEW intent \in Intents, SendCard(r, w, intent)
  PROVE  IInv' /\ StoreKept
<1> DEFINE new == CardMail(IF r = None THEN None ELSE Home[r], w, intent)
<1> USE DEF IInv
<1>1. PICK m \in Msgs :
        /\ mail[m] = None /\ Saves([mail EXCEPT ![m] = new])
        /\ srv' = Idle \/ (r \in Runs /\ srv' = Replying("card", r, m))
  BY DEF SendCard, NextFree, Saves
<1>2. /\ srv.pc = "idle" /\ jobs' = jobs /\ wakes' = wakes /\ told' = told
      /\ UNCHANGED <<records, cursor, natives, outside, replies, crashes>>
  BY DEF SendCard
<1>3. new \in Message
  BY CardMailType DEF Intents, Workspaces
<1>4. StoreKept
  <2> HIDE DEF new
  <2>1. Keeps([mail EXCEPT ![m] = new])
    BY <1>1, <1>3, AppendKeeps DEF TypeOK
  <2> DEFINE next == [mail EXCEPT ![m] = new]
  <2>2. Keeps(next) /\ Saves(next)
    BY <1>1, <2>1
  <2> HIDE DEF next
  <2> QED BY <1>2, <2>2, SaveStep DEF TypeOK
<1>5. /\ srv' \in Servers /\ srv'.pc \in {"idle", "reply"} /\ srv'.rest = {}
      /\ srv'.op # "send"
  <2>1. m \in 0..MaxMsg
    BY BoundsAssumption DEF Msgs
  <2>2. Idle.pc = "idle" /\ Idle.rest = {} /\ Idle.op = "none"
    BY DEF Idle, Work
  <2> QED BY <1>1, <2>1, <2>2, IdleType, BusyType
<1>6. TypeOK'
  BY <1>2, <1>4, <1>5 DEF TypeOK, StoreKept, natives, outside
<1>7. Working'
  BY <1>2, <1>4, <1>5 DEF Working, StoreKept
<1> QED BY <1>4, <1>6, <1>7 DEF StoreKept

\* Chat mail is appended, or its earlier copy is found.
LEMMA SendChatStep ==
  ASSUME IInv, NEW r \in Runs, NEW q \in Runs, NEW x \in Requests, SendChat(r, q, x)
  PROVE  IInv' /\ StoreKept
<1> DEFINE new == ChatMail(Home[r], Proof(r), x, Home[q], talk[q], q)
<1> USE DEF IInv
<1>1. /\ srv.pc = "idle" /\ jobs' = jobs /\ wakes' = wakes /\ told' = told
      /\ UNCHANGED <<records, cursor, natives, outside, replies, crashes>>
  BY DEF SendChat
<1>2. \/ /\ StoreSame
         /\ \E m \in Saved(mail) : srv' = Replying("send", r, m)
      \/ \E m \in Msgs :
           /\ mail[m] = None /\ new \in Message
           /\ \/ Commits([mail EXCEPT ![m] = new]) /\ srv' = Trying("send", r, m)
              \/ CommitFails([mail EXCEPT ![m] = new]) /\ srv' = Idle
  <2>1. Proof(r) \in Convs
    BY DEF SendChat, Proof, TypeOK
  <2>2. talk[q] \in Convs \union {None} /\ Home[r] \in Workspaces /\ Home[q] \in Workspaces
    BY DEF TypeOK, Workspaces
  <2>3. talk[q] # None => new \in Message
    BY <2>1, <2>2, ChatMailType
  <2> HIDE DEF IInv
  <2> HIDE DEF new
  <2> QED BY <1>1, <2>3 DEF SendChat, NextFree, StoreSame, new
<1>3. CASE StoreSame /\ \E m \in Saved(mail) : srv' = Replying("send", r, m)
  <2>1. PICK m \in Saved(mail) : srv' = Replying("send", r, m)
    BY <1>3
  <2>2. m \in 0..MaxMsg
    BY BoundsAssumption DEF Saved, Msgs
  <2>3. /\ srv' \in Servers /\ srv'.pc = "reply" /\ srv'.m = m /\ srv'.rest = {}
    BY <2>1, <2>2, BusyType
  <2>4. StoreKept
    BY <1>3, SameStep DEF TypeOK
  <2>5. TypeOK'
    BY <1>1, <2>3, <2>4 DEF TypeOK, StoreKept, natives, outside
  <2>6. Working'
    BY <1>1, <2>3, <2>4 DEF Working, StoreKept
  <2> QED BY <2>4, <2>5, <2>6 DEF StoreKept
<1>4. CASE \E m \in Msgs :
             /\ mail[m] = None /\ new \in Message
             /\ \/ Commits([mail EXCEPT ![m] = new]) /\ srv' = Trying("send", r, m)
                \/ CommitFails([mail EXCEPT ![m] = new]) /\ srv' = Idle
  <2> HIDE DEF new
  <2>1. PICK m \in Msgs :
             /\ mail[m] = None /\ new \in Message
             /\ \/ Commits([mail EXCEPT ![m] = new]) /\ srv' = Trying("send", r, m)
                \/ CommitFails([mail EXCEPT ![m] = new]) /\ srv' = Idle
    BY <1>4
  <2> DEFINE next == [mail EXCEPT ![m] = new]
  <2>2. Keeps(next) /\ next[m] # None
    BY <2>1, AppendKeeps, NoneAssumption DEF TypeOK, Mail
  <2>3. m \in 0..MaxMsg
    BY BoundsAssumption DEF Msgs
  <2>4. Saves(next)
    BY <2>1 DEF Saves
  <2>5. \/ srv' = Idle
        \/ srv' = Trying("send", r, m) /\ m \in Saved(mail)'
    <3>1. Commits(next) => mail' = next
      BY DEF Commits
    <3> HIDE DEF next
    <3>2. next[m] # None
      BY <2>2
    <3> QED BY <2>1, <3>1, <3>2 DEF Saved, next
  <2>6. StoreKept
    <3> HIDE DEF next
    <3> QED BY <1>1, <2>2, <2>4, SaveStep DEF TypeOK
  <2>7. /\ srv' \in Servers /\ srv'.pc \in {"idle", "direct"} /\ srv'.rest = {}
        /\ srv'.pc = "direct" => srv'.m \in Saved(mail)'
    <3>1. Idle.pc = "idle" /\ Idle.rest = {}
      BY DEF Idle, Work
    <3> QED BY <2>3, <2>5, <3>1, IdleType, BusyType
  <2>8. TypeOK'
    BY <1>1, <2>6, <2>7 DEF TypeOK, StoreKept, natives, outside
  <2>9. Working'
    BY <1>1, <2>6, <2>7 DEF Working, StoreKept
  <2> QED BY <2>6, <2>8, <2>9 DEF StoreKept
<1> QED BY <1>2, <1>3, <1>4

\* A reply marks the mail it announces as surfaced.
LEMMA ReplyStep ==
  ASSUME IInv, Reply
  PROVE  IInv' /\ StoreKept
<1> DEFINE r == srv.caller
           due == {m \in Visible(r, MailboxConversation(r)) : Pending(mail[m])}
           ids == IF r \in focus THEN {} ELSE First(due, NoticeLimit)
           next == Amend(mail, ids,
                     LAMBDA e : Surface(Receipt(e, "mcp-returned", r, None, 0)))
           reply == [key |-> <<mail[srv.m].from, mail[srv.m].sender, mail[srv.m].request>>,
                     msg |-> srv.m]
<1> USE DEF IInv
<1>1. /\ srv.pc = "reply" /\ srv' = Idle /\ jobs' = jobs /\ wakes' = wakes /\ told' = told
      /\ UNCHANGED <<records, cursor, natives, outside, crashes>>
  BY DEF Reply
<1>2. /\ CommitsChange(next) \/ CommitFails(next)
      /\ replies' \in {replies, replies \union (IF srv.op = "send" THEN {reply} ELSE {})}
  BY DEF Reply
<1>3. ids \in SUBSET Saved(mail) /\ \A m \in ids : mail[m].outcome \notin WakeOutcomes
  <2>1. ids \subseteq due
    BY DEF First
  <2> QED BY <2>1, PendingUnwoken DEF Visible, TypeOK
<1>4. Keeps(next)
  <2>1. /\ r \in Runs \union {None} /\ 0 \in 0..MaxLease
        /\ None \in Convs \union {None} /\ "mcp-returned" \in Outcomes
    BY BoundsAssumption, OutcomesTyped DEF TypeOK, Servers
  <2>2. next = ReceivedSeen(ids, "mcp-returned", r, None, 0)
    BY DEF Amend, ReceivedSeen
  <2> HIDE DEF ids, r, next
  <2>3. Keeps(ReceivedSeen(ids, "mcp-returned", r, None, 0))
    BY <1>3, <2>1, ReceiptKeeps DEF TypeOK
  <2> QED BY <2>2, <2>3
<1>5. StoreKept
  <2> HIDE DEF next
  <2>1. Saves(next)
    BY <1>2 DEF Saves, CommitsChange
  <2> QED BY <1>1, <1>4, <2>1, SaveStep DEF TypeOK
<1>6. replies' \subseteq Replies
  <2>1. srv.op = "send" => srv.m \in Saved(mail)
    BY <1>1 DEF Working
  <2>2. srv.op = "send" => reply \in Replies
    BY <2>1, SavedMessage DEF Replies, Message, TypeOK
  <2>3. replies \subseteq Replies
    BY DEF TypeOK
  <2> HIDE DEF reply
  <2> QED BY <1>2, <2>2, <2>3
<1>7. srv' \in Servers /\ srv'.pc = "idle" /\ srv'.rest = {}
  BY <1>1, IdleType DEF Idle, Work
<1>8. TypeOK'
  BY <1>1, <1>5, <1>6, <1>7 DEF TypeOK, StoreKept, natives, outside
<1>9. Working'
  BY <1>1, <1>5, <1>7 DEF Working, StoreKept
<1> QED BY <1>5, <1>8, <1>9 DEF StoreKept

\* The observation of a hook keeps its type.
LEMMA HookSeenType ==
  ASSUME hook \in [Runs -> Hooks], NEW r \in Runs, NEW e \in Events,
         NEW c \in Convs \union {None}
  PROVE  HookSeen(r, e, c) \in [Runs -> Hooks]
BY DEF HookSeen, Hooks

\* A hook is observed.
LEMMA HookStep ==
  ASSUME IInv, NEW r \in Runs, NEW e \in Events, NEW c \in Convs, Hook(r, e, c)
  PROVE  IInv' /\ StoreKept
<1> USE DEF IInv
<1>1. /\ Saves(mail) /\ wakes' = wakes /\ told' = told /\ srv' = srv /\ jobs' = jobs
      /\ srv.pc = "idle"
  BY DEF Hook, Saves, HookConv
<1>2. StoreKept
  <2>1. Keeps(mail)
    BY SameKeeps DEF TypeOK
  <2> QED BY <1>1, <2>1, SaveStep DEF TypeOK
<1>3. talk' \in [Runs -> Convs \union {None}] /\ hook' \in [Runs -> Hooks]
  <2>1. HookSeen(r, e, c) \in [Runs -> Hooks]
    BY HookSeenType DEF TypeOK
  <2> QED BY <2>1 DEF Hook, TypeOK
<1>4. TypeOK'
  BY <1>1, <1>2, <1>3 DEF Hook, TypeOK, StoreKept, outside
<1>5. Working'
  BY <1>1, <1>2 DEF Working, StoreKept, TypeOK
<1> QED BY <1>2, <1>4, <1>5 DEF StoreKept

\* A hook takes a notice under a fresh lease.
LEMMA HookNoticeStep ==
  ASSUME IInv, NEW r \in Runs, NEW e \in Events, NEW c \in Convs, NEW l \in Leases,
         HookNotice(r, e, c, l)
  PROVE  IInv' /\ StoreKept
<1> DEFINE scope == IF Harness[r] = "codex" THEN MailboxConversation(r) ELSE c
           ids == First(NoticeDue(r, e, scope), NoticeLimit)
           next == Amend(mail, ids, LAMBDA x : Receipt(x, "hook-prepared", r, c, l))
<1> USE DEF IInv
<1>1. /\ srv.pc = "idle" /\ srv' = srv /\ jobs' = jobs /\ wakes' = wakes /\ told' = told
      /\ UNCHANGED <<records, cursor, life, focus, typed, helper, nqueue, expired, replies, crashes>>
      /\ hook' = HookSeen(r, e, c) /\ talk' = [talk EXCEPT ![r] = c]
  BY DEF HookNotice, HookConv
<1>2. /\ Commits(next) \/ CommitFails(next)
      /\ \/ adapter' = [adapter EXCEPT ![l] = [st |-> "replied", run |-> r, ids |-> ids]]
         \/ adapter' = [adapter EXCEPT ![l] = [st |-> "gone", run |-> r, ids |-> {}]]
  BY DEF HookNotice
<1>3. ids \in SUBSET Saved(mail) /\ \A m \in ids : mail[m].outcome \notin WakeOutcomes
  <2>1. ids \subseteq NoticeDue(r, e, scope)
    BY DEF First
  <2> HIDE DEF ids, scope
  <2> QED BY <2>1, PendingUnwoken, OutcomesTyped DEF NoticeDue, Visible, TypeOK
<1>4. Keeps(next)
  <2>1. l \in 0..MaxLease /\ "hook-prepared" \in Outcomes
    BY BoundsAssumption, OutcomesTyped DEF Leases
  <2>2. next = Received(ids, "hook-prepared", r, c, l)
    BY DEF Amend, Received
  <2> HIDE DEF ids, next
  <2>3. Keeps(Received(ids, "hook-prepared", r, c, l))
    BY <1>3, <2>1, ReceiptKeeps DEF TypeOK
  <2> QED BY <2>2, <2>3
<1>5. StoreKept
  <2> HIDE DEF next
  <2>1. Saves(next)
    BY <1>2 DEF Saves
  <2> QED BY <1>1, <1>4, <2>1, SaveStep DEF TypeOK
<1>6. adapter' \in [Leases -> Adapters]
  <2>1. ids \in SUBSET Msgs
    BY <1>3 DEF Saved
  <2> HIDE DEF ids
  <2>2. adapter \in [Leases -> Adapters]
    BY DEF TypeOK
  <2> QED BY <1>2, <2>1, <2>2 DEF Adapters
<1>7. talk' \in [Runs -> Convs \union {None}] /\ hook' \in [Runs -> Hooks]
  BY <1>1, HookSeenType DEF TypeOK
<1>8. TypeOK'
  BY <1>1, <1>5, <1>6, <1>7 DEF TypeOK, StoreKept
<1>9. Working'
  BY <1>1, <1>5 DEF Working, StoreKept, TypeOK
<1> QED BY <1>5, <1>8, <1>9 DEF StoreKept

\* The confirmation of a notice.
LEMMA ConfirmStep ==
  ASSUME IInv, NEW l \in Leases, Confirm(l)
  PROVE  IInv' /\ StoreKept
<1> DEFINE r == adapter[l].run
           ids == UnderLease(r, l)
           next == Amend(mail, ids, LAMBDA e : Surface([e EXCEPT !.outcome = "hook-emitted"]))
<1> USE DEF IInv
<1>1. /\ srv.pc = "idle" /\ srv' = srv /\ jobs' = jobs /\ wakes' = wakes /\ told' = told
      /\ UNCHANGED <<records, cursor, natives, helper, nqueue, expired, replies, crashes>>
      /\ adapter' = [adapter EXCEPT ![l].st = "confirmed"]
      /\ Saves(next)
  BY DEF Confirm, Saves
<1>2. ids \in SUBSET Saved(mail) /\ \A m \in ids : mail[m].outcome \notin WakeOutcomes
  BY OutcomesTyped DEF UnderLease, Visible
<1>3. Keeps(next)
  <2>1. "hook-emitted" \in Outcomes
    BY OutcomesTyped
  <2>2. next = ResolvedSeen(ids, "hook-emitted")
    BY DEF Amend, ResolvedSeen
  <2> HIDE DEF ids, next
  <2>3. Keeps(ResolvedSeen(ids, "hook-emitted"))
    BY <1>2, <2>1, OutcomeKeeps DEF TypeOK
  <2> QED BY <2>2, <2>3
<1>4. StoreKept
  <2> HIDE DEF next
  <2> QED BY <1>1, <1>3, SaveStep DEF TypeOK
<1>5. adapter' \in [Leases -> Adapters]
  <2>1. adapter \in [Leases -> Adapters]
    BY DEF TypeOK
  <2> QED BY <1>1, <2>1 DEF Adapters
<1>6. TypeOK'
  BY <1>1, <1>4, <1>5 DEF TypeOK, StoreKept, natives
<1>7. Working'
  BY <1>1, <1>4 DEF Working, StoreKept, TypeOK
<1> QED BY <1>4, <1>6, <1>7 DEF StoreKept

\* The receipt of a queued notice that became a prompt.
LEMMA PromptFromQueueStep ==
  ASSUME IInv, NEW r \in Runs, NEW n \in nqueue, PromptFromQueue(r, n)
  PROVE  IInv' /\ StoreKept
<1> DEFINE next == Amend(mail, {n.msg}, LAMBDA x : [x EXCEPT !.outcome = "queue-submitted"])
<1> USE DEF IInv
<1>1. /\ srv' = srv /\ jobs' = jobs /\ wakes' = wakes /\ told' = told
      /\ UNCHANGED <<records, cursor, life, talk, focus, typed, helper, adapter, expired,
                     replies, crashes>>
      /\ nqueue' \subseteq nqueue /\ hook' \in {hook, HookSeen(r, "UserPromptSubmit", n.conv)}
      /\ n.conv \in Convs \union {None}
  BY DEF PromptFromQueue, TypeOK, Notices
<1>2. \/ UNCHANGED <<mail, disk, faults>>
      \/ /\ srv.pc = "idle" /\ Saves(next) /\ n.msg \in Saved(mail)
  <2>1. n.msg \in Msgs
    BY DEF TypeOK, Notices
  <2> QED BY <2>1 DEF PromptFromQueue, Saves, Saved
<1>3. n.msg \in Saved(mail) => Keeps(next)
  <2>1. "queue-submitted" \in Outcomes /\ "queue-submitted" \in WakeOutcomes
    BY OutcomesTyped
  <2>2. next = Resolved({n.msg}, "queue-submitted")
    BY DEF Amend, Resolved
  <2> HIDE DEF next
  <2>3. n.msg \in Saved(mail) => Keeps(Resolved({n.msg}, "queue-submitted"))
    <3> DEFINE S == {n.msg}
    <3> HIDE DEF S
    <3>1. n.msg \in Saved(mail) => S \in SUBSET Saved(mail)
      BY DEF S
    <3>2. n.msg \in Saved(mail) => Keeps(Resolved(S, "queue-submitted"))
      BY <2>1, <3>1, OutcomeKeeps DEF TypeOK
    <3> QED BY <3>2 DEF S
  <2> QED BY <2>2, <2>3
<1>4. StoreKept /\ (srv.pc = "idle" \/ UNCHANGED <<mail, disk>>)
  <2> HIDE DEF next
  <2>1. CASE UNCHANGED <<mail, disk, faults>>
    BY <1>1, <2>1, SameStep DEF TypeOK, StoreSame
  <2>2. CASE srv.pc = "idle" /\ Saves(next) /\ n.msg \in Saved(mail)
    BY <1>1, <1>3, <2>2, SaveStep DEF TypeOK
  <2> QED BY <1>2, <2>1, <2>2
<1>5. hook' \in [Runs -> Hooks]
  BY <1>1, HookSeenType DEF TypeOK, Events
<1>6. TypeOK'
  BY <1>1, <1>4, <1>5 DEF TypeOK, StoreKept
<1>7. Working'
  BY <1>1, <1>4 DEF Working, StoreKept, TypeOK
<1> QED BY <1>4, <1>6, <1>7 DEF StoreKept

----------------------------------------------------------------------------
(* The supervisor's own steps.                                              *)

\* The number of saved messages is a number, positive when some are saved.
LEMMA SizeType ==
  Size \in Nat /\ (Saved(mail) # {} => Size \in Nat \ {0})
<1>1. IsFiniteSet(Msgs)
  BY FS_Interval, BoundsAssumption DEF Msgs
<1>2. IsFiniteSet(Saved(mail))
  BY <1>1, FS_Subset DEF Saved
<1> QED BY <1>2, FS_CardinalityType, FS_EmptySet DEF Size

\* After an attempt the supervisor goes on with the rest of the pass or a reply.
LEMMA ResumeType ==
  ASSUME NEW s \in Servers
  PROVE  /\ Resume(s) \in Servers /\ ResumeError(s) \in Servers
         /\ Resume(s).pc \in {"idle", "pass", "reply"}
         /\ ResumeError(s).pc \in {"idle", "pass", "reply"}
         /\ Resume(s).rest \subseteq s.rest /\ ResumeError(s).rest \subseteq s.rest
         /\ Resume(s).pc = "pass" => Resume(s).op = "tick"
         /\ ResumeError(s).pc = "pass" => ResumeError(s).op = "tick"
         /\ Resume(s).pc = "reply" => s.op # "tick" /\ Resume(s).m = s.m
         /\ ResumeError(s).pc # "reply"
<1>1. /\ s.op \in {"none", "tick", "send", "deliver", "card", "tool"}
      /\ s.caller \in Runs \union {None} /\ s.m \in 0..MaxMsg
      /\ s.rest \in SUBSET Msgs /\ s.start \in Nat
  BY DEF Servers
<1>2. 0 \in 0..MaxMsg /\ {} \in SUBSET Msgs /\ 0 \in Nat /\ None \in Runs \union {None}
  BY BoundsAssumption
<1>3. Idle \in Servers /\ Idle.pc = "idle" /\ Idle.rest = {}
  BY IdleType DEF Idle, Work
<1>4. CASE s.op = "tick"
  <2>1. /\ Pass(s.rest, s.start) \in Servers /\ Pass(s.rest, s.start).pc = "pass"
        /\ Pass(s.rest, s.start).rest = s.rest /\ Pass(s.rest, s.start).op = "tick"
    BY <1>1, <1>2 DEF Pass, Work, Servers
  <2>2. Resume(s) = Pass(s.rest, s.start) /\ ResumeError(s) = Resume(s)
    BY <1>4 DEF Resume, ResumeError
  <2> QED BY <2>1, <2>2
<1>5. CASE s.op # "tick" /\ s.caller # None
  <2> DEFINE x == Replying(s.op, s.caller, s.m)
  <2>1. x \in Servers /\ x.pc = "reply" /\ x.rest = {} /\ x.m = s.m
    BY <1>1, <1>2, WorkType DEF Replying
  <2>2. Resume(s) = x /\ ResumeError(s) = Idle
    BY <1>5 DEF Resume, ResumeError
  <2> HIDE DEF x
  <2> QED BY <1>3, <1>5, <2>1, <2>2
<1>6. CASE s.op # "tick" /\ s.caller = None
  <2>1. Resume(s) = Idle /\ ResumeError(s) = Idle
    BY <1>6 DEF Resume, ResumeError
  <2> QED BY <1>3, <2>1
<1> QED BY <1>4, <1>5, <1>6

\* Going on after an attempt keeps the invariant of the operation in progress.
LEMMA ResumeWorking ==
  ASSUME NEW s \in Servers, s.rest \subseteq Saved(mail), jobs' \subseteq Saved(mail),
         s.op # "tick" => s.m \in Saved(mail), Saved(mail) \subseteq Saved(mail)',
         srv' \in {Resume(s), ResumeError(s), Idle}
  PROVE  srv' \in Servers /\ Working'
<1>1. /\ srv' \in Servers /\ srv'.pc \in {"idle", "pass", "reply"}
      /\ srv'.rest \subseteq Saved(mail) /\ (srv'.pc = "pass" => srv'.op = "tick")
      /\ srv'.pc = "reply" => srv'.m \in Saved(mail)
  <2>1. CASE srv' = Resume(s)
    BY <2>1, ResumeType
  <2>2. CASE srv' = ResumeError(s)
    BY <2>2, ResumeType
  <2>3. CASE srv' = Idle
    <3>1. Idle.pc = "idle" /\ Idle.rest = {}
      BY DEF Idle, Work
    <3> QED BY <2>3, <3>1, IdleType
  <2> QED BY <2>1, <2>2, <2>3
<1> QED BY <1>1 DEF Working

\* A delivery pass begins.
LEMMA TickBeginsStep ==
  ASSUME IInv, TickBegins
  PROVE  IInv' /\ StoreKept
<1> USE DEF IInv
<1>1. /\ StoreSame /\ jobs' = jobs /\ srv' = Pass(Candidates(cursor % Size), cursor % Size)
      /\ UNCHANGED <<records, cursor, natives, outside, replies, crashes>>
      /\ Saved(mail) # {}
  BY DEF TickBegins, StoreSame, history
<1>2. Candidates(cursor % Size) \subseteq Saved(mail) /\ cursor % Size \in Nat
  <2>1. cursor % Size \in Nat
    BY <1>1, SizeType DEF TypeOK
  <2> QED BY <2>1 DEF Candidates
<1>3. /\ srv' \in Servers /\ srv'.pc = "pass" /\ srv'.op = "tick"
      /\ srv'.rest \subseteq Saved(mail)
  <2>1. /\ 0 \in 0..MaxMsg /\ None \in Runs \union {None}
        /\ Candidates(cursor % Size) \in SUBSET Msgs
    BY <1>2, BoundsAssumption DEF Saved
  <2> DEFINE rest == Candidates(cursor % Size)
             start == cursor % Size
  <2>2. rest \in SUBSET Msgs /\ start \in Nat /\ srv' = Pass(rest, start)
    BY <1>1, <1>2, <2>1
  <2> HIDE DEF rest, start
  <2>3. srv' \in Servers /\ srv'.pc = "pass" /\ srv'.op = "tick" /\ srv'.rest = rest
    BY <2>1, <2>2 DEF Pass, Work, Servers
  <2> QED BY <1>2, <2>3 DEF rest
<1>4. StoreKept
  BY <1>1, SameStep DEF TypeOK
<1>5. TypeOK'
  BY <1>1, <1>3, <1>4 DEF TypeOK, StoreKept, StoreSame, natives, outside
<1>6. Working'
  BY <1>1, <1>3, <1>4 DEF Working, StoreKept
<1> QED BY <1>4, <1>5, <1>6 DEF StoreKept

\* One attempt, by a pass or for the message a caller sent.
LEMMA AttemptStep ==
  ASSUME IInv, NEW s \in Servers, s.pc \in {"pass", "direct"}, s.rest \subseteq Saved(mail),
         s.op # "tick" => s.m \in Saved(mail), NEW m \in Saved(mail), Attempt(s, m),
         UNCHANGED <<wakes, told, jobs>>
  PROVE  StoreKept /\ srv' \in Servers /\ Working'
<1> USE DEF IInv
<1>1. CASE ~Pending(mail[m]) /\ srv' = Resume(s) /\ UNCHANGED <<mail, disk, faults>>
  <2>1. StoreKept
    BY <1>1, SameStep DEF TypeOK, StoreSame
  <2> QED BY <1>1, <2>1, ResumeWorking DEF StoreKept, Working
<1>2. CASE /\ Pending(mail[m]) /\ UNCHANGED <<mail, disk, faults>>
           /\ \E r \in Runs, more \in {0, 2} :
                /\ CanWake(m, r)
                /\ srv' = [s EXCEPT !.pc = "saving", !.m = m, !.run = r,
                                   !.conv = talk[r], !.left = more]
  <2>1. PICK r \in Runs, more \in {0, 2} :
          /\ CanWake(m, r)
          /\ srv' = [s EXCEPT !.pc = "saving", !.m = m, !.run = r,
                             !.conv = talk[r], !.left = more]
    BY <1>2
  <2>2. StoreKept
    BY <1>2, SameStep DEF TypeOK, StoreSame
  <2>3. m \in 0..MaxMsg /\ talk[r] \in Convs
    BY <2>1, BoundsAssumption DEF CanWake, TypeOK, Saved, Msgs
  <2>4. srv' \in Servers
    <3>1. more \in 0..2 /\ r \in Runs \union {None} /\ talk[r] \in Convs \union {None}
      BY <2>3
    <3> DEFINE c == talk[r]
    <3>2. /\ m \in 0..MaxMsg /\ c \in Convs \union {None}
          /\ srv' = [s EXCEPT !.pc = "saving", !.m = m, !.run = r, !.conv = c, !.left = more]
      BY <2>1, <2>3, <3>1
    <3> HIDE DEF c
    <3> QED BY <3>1, <3>2 DEF Servers
  <2>5. srv'.pc = "saving" /\ srv'.m = m /\ srv'.run = r /\ srv'.conv = talk[r]
    BY <2>1 DEF Servers
  <2>6. srv'.rest = s.rest
    BY <2>1 DEF Servers
  <2>7. Working'
    BY <1>2, <2>3, <2>5, <2>6 DEF Working, Saved
  <2> QED BY <2>2, <2>4, <2>7
<1>3. CASE /\ Pending(mail[m]) /\ Saves(Waiting(m))
           /\ srv' \in {Resume(s), ResumeError(s)}
  <2>1. StoreKept
    BY <1>3, AttemptKeeps, SaveStep DEF TypeOK
  <2> QED BY <1>3, <2>1, ResumeWorking DEF StoreKept, Working
<1>4. \/ ~Pending(mail[m]) /\ srv' = Resume(s) /\ UNCHANGED <<mail, disk, faults>>
      \/ /\ Pending(mail[m]) /\ UNCHANGED <<mail, disk, faults>>
         /\ \E r \in Runs, more \in {0, 2} :
              /\ CanWake(m, r)
              /\ srv' = [s EXCEPT !.pc = "saving", !.m = m, !.run = r,
                                 !.conv = talk[r], !.left = more]
      \/ Pending(mail[m]) /\ Saves(Waiting(m)) /\ srv' \in {Resume(s), ResumeError(s)}
  BY DEF Attempt, Saves
<1> QED BY <1>1, <1>2, <1>3, <1>4

\* One candidate of a delivery pass.
LEMMA PassStepStep ==
  ASSUME IInv, PassStep
  PROVE  IInv' /\ StoreKept
<1> USE DEF IInv
<1>1. /\ srv.pc = "pass" /\ wakes' = wakes /\ told' = told /\ jobs' = jobs
      /\ UNCHANGED <<records, natives, outside, replies, crashes>>
  BY DEF PassStep
<1>2. CASE srv' = Idle /\ UNCHANGED <<mail, disk, cursor, faults>>
  <2>1. StoreKept
    BY <1>1, <1>2, SameStep DEF TypeOK, StoreSame
  <2>2. srv' \in Servers /\ srv'.pc = "idle" /\ srv'.rest = {}
    BY <1>2, IdleType DEF Idle, Work
  <2>3. TypeOK'
    BY <1>1, <1>2, <2>1, <2>2 DEF TypeOK, StoreKept, natives, outside
  <2>4. Working'
    BY <1>1, <2>1, <2>2 DEF Working, StoreKept
  <2> QED BY <2>1, <2>3, <2>4 DEF StoreKept
<1>3. CASE \E m \in srv.rest :
             cursor' = m % Size /\ Attempt([srv EXCEPT !.rest = @ \ {m}], m)
  <2>1. PICK m \in srv.rest :
             cursor' = m % Size /\ Attempt([srv EXCEPT !.rest = @ \ {m}], m)
    BY <1>3
  <2> DEFINE s == [srv EXCEPT !.rest = @ \ {m}]
  <2>2. m \in Saved(mail) /\ cursor' \in Nat
    <3>1. m \in Saved(mail) /\ m \in Nat
      BY BoundsAssumption DEF Working, Saved, Msgs
    <3> QED BY <2>1, <3>1, SizeType
  <2>3. /\ s \in Servers /\ s.pc = "pass" /\ s.op = "tick" /\ s.rest \subseteq Saved(mail)
    BY <1>1 DEF TypeOK, Servers, Working
  <2>4. Attempt(s, m)
    BY <2>1
  <2>5. StoreKept /\ srv' \in Servers /\ Working'
    <3> HIDE DEF s
    <3> QED BY <1>1, <2>2, <2>3, <2>4, AttemptStep
  <2>6. TypeOK'
    BY <1>1, <2>2, <2>5 DEF TypeOK, StoreKept, natives, outside
  <2> QED BY <2>5, <2>6 DEF StoreKept
<1> QED BY <1>2, <1>3 DEF PassStep

\* The attempt of a caller.
LEMMA DirectAttemptStep ==
  ASSUME IInv, DirectAttempt
  PROVE  IInv' /\ StoreKept
<1> USE DEF IInv
<1>1. /\ srv.pc = "direct" /\ Attempt(srv, srv.m)
      /\ UNCHANGED <<wakes, told, jobs, records, cursor, natives, outside, replies, crashes>>
  BY DEF DirectAttempt
<1>2. srv \in Servers /\ srv.m \in Saved(mail) /\ srv.rest \subseteq Saved(mail)
  BY <1>1 DEF TypeOK, Working
<1>3. StoreKept /\ srv' \in Servers /\ Working'
  BY <1>1, <1>2, AttemptStep
<1>4. TypeOK'
  BY <1>1, <1>3 DEF TypeOK, StoreKept, natives, outside
<1> QED BY <1>3, <1>4 DEF StoreKept

\* The next durable job of the save.
LEMMA NextDurableJobStep ==
  ASSUME IInv, NextDurableJob
  PROVE  IInv' /\ StoreKept
<1> USE DEF IInv
<1>1. /\ srv.pc = "saving" /\ srv.left > 0 /\ records' \in BOOLEAN
      /\ srv' = [srv EXCEPT !.left = @ - 1, !.touched = FALSE]
      /\ UNCHANGED <<mail, disk, jobs, cursor, natives, outside, history>>
  BY DEF NextDurableJob
<1>2. /\ srv' \in Servers /\ srv'.pc = srv.pc /\ srv'.m = srv.m /\ srv'.rest = srv.rest
      /\ srv'.run = srv.run /\ srv'.conv = srv.conv
  <2>1. srv \in Servers /\ srv.left - 1 \in 0..2
    BY <1>1 DEF TypeOK, Servers
  <2> QED BY <1>1, <2>1 DEF Servers
<1>3. StoreKept
  BY <1>1, SameStep DEF TypeOK, StoreSame, history
<1>4. TypeOK'
  BY <1>1, <1>2, <1>3 DEF TypeOK, StoreKept, natives, outside, history
<1>5. Working'
  BY <1>1, <1>2, <1>3 DEF Working, StoreKept
<1> QED BY <1>3, <1>4, <1>5 DEF StoreKept

\* The reservation is on disk and in memory, and no helper was started for it.
LEMMA ReservationSavedStep ==
  ASSUME IInv, ReservationSaved
  PROVE  IInv' /\ StoreKept
<1> USE DEF IInv
<1>1. /\ srv.pc = "saving" /\ Commits(Reserved) /\ srv' = [srv EXCEPT !.pc = "launch"]
      /\ UNCHANGED <<wakes, told, jobs, records, cursor, natives, outside, replies, crashes>>
  BY DEF ReservationSaved
<1>2. /\ srv.m \in Saved(mail) /\ Pending(mail[srv.m]) /\ srv.run \in Runs
      /\ srv.conv \in Convs /\ srv.rest \subseteq Saved(mail)
  BY <1>1 DEF Working
<1>3. Keeps(Reserved)
  BY <1>2, AttemptKeeps DEF TypeOK
<1>4. StoreKept
  <2>1. Saves(Reserved)
    BY <1>1 DEF Saves
  <2> QED BY <1>1, <1>3, <2>1, SaveStep DEF TypeOK
<1>5. /\ srv' \in Servers /\ srv'.pc = "launch" /\ srv'.m = srv.m /\ srv'.rest = srv.rest
      /\ srv'.run = srv.run
  BY <1>1 DEF TypeOK, Servers
<1>6. mail' = Reserved /\ disk' = Reserved
  BY <1>1 DEF Commits
<1>7. Reserved[srv.m].outcome = "queue-prepared"
  <2>1. mail[srv.m] \in Message /\ srv.m \in Msgs
    BY <1>2, SavedMessage DEF TypeOK
  <2>2. Reserved[srv.m] = Receipt(mail[srv.m], "queue-prepared", srv.run, srv.conv, 0)
    BY <2>1 DEF Reserved, Amend
  <2>3. /\ "queue-prepared" \in Outcomes /\ 0 \in 0..MaxLease
        /\ srv.run \in Runs \union {None} /\ srv.conv \in Convs \union {None}
    BY <1>2, OutcomesTyped, BoundsAssumption
  <2> DEFINE e == mail[srv.m]
             r == srv.run
             c == srv.conv
  <2>4. Reserved[srv.m] = Receipt(e, "queue-prepared", r, c, 0)
    BY <2>2
  <2>5. /\ e \in Message /\ r \in Runs \union {None} /\ c \in Convs \union {None}
    BY <2>1, <2>3
  <2> HIDE DEF e, r, c
  <2>6. Receipt(e, "queue-prepared", r, c, 0).outcome = "queue-prepared"
    BY <2>3, <2>5, ReceiptType
  <2> QED BY <2>4, <2>6
<1>8. TypeOK'
  BY <1>1, <1>4, <1>5 DEF TypeOK, StoreKept, natives, outside
<1>9. Working'
  <2>1. wakes[srv.m] = 0
    BY <1>2, PendingUnwoken DEF TypeOK
  <2>2. srv.m \in Saved(mail)' /\ jobs' \subseteq Saved(mail)' /\ srv'.rest \subseteq Saved(mail)'
    BY <1>1, <1>2, <1>4, <1>5 DEF StoreKept, Working
  <2> QED BY <1>1, <1>2, <1>5, <1>6, <1>7, <2>1, <2>2 DEF Working
<1> QED BY <1>4, <1>8, <1>9 DEF StoreKept

\* A reservation that cannot be saved starts no helper.
LEMMA ReservationFailsStep ==
  ASSUME IInv, ReservationFails
  PROVE  IInv' /\ StoreKept
<1> USE DEF IInv
<1>1. /\ srv.pc = "saving" /\ srv' = ResumeError(srv)
      /\ Saves(Reserved) \/ Saves(Waiting(srv.m))
      /\ UNCHANGED <<wakes, told, jobs, records, cursor, natives, outside, replies, crashes>>
  BY DEF ReservationFails, Saves
<1>2. /\ srv.m \in Saved(mail) /\ Pending(mail[srv.m]) /\ srv.run \in Runs
      /\ srv.conv \in Convs /\ srv.rest \subseteq Saved(mail) /\ jobs \subseteq Saved(mail)
  BY <1>1 DEF Working
<1>3. Keeps(Reserved) /\ Keeps(Waiting(srv.m))
  BY <1>2, AttemptKeeps DEF TypeOK
<1>4. StoreKept
  BY <1>1, <1>3, SaveStep DEF TypeOK
<1>5. srv' \in Servers /\ Working'
  BY <1>1, <1>2, <1>4, ResumeWorking DEF TypeOK, StoreKept
<1>6. TypeOK'
  BY <1>1, <1>4, <1>5 DEF TypeOK, StoreKept, natives, outside
<1> QED BY <1>4, <1>5, <1>6 DEF StoreKept

\* The one step that starts a helper: its message was never woken for before.
LEMMA LaunchStep ==
  ASSUME IInv, Launch
  PROVE  IInv' /\ \A m \in Saved(mail) : Kept(mail[m], mail'[m])
<1> USE DEF IInv
<1>1. /\ srv.pc = "launch" /\ srv' = Resume(srv) /\ jobs' = jobs \union {srv.m}
      /\ wakes' = [wakes EXCEPT ![srv.m] = @ + 1]
      /\ helper' = [helper EXCEPT ![srv.m] =
                      [st |-> "running", run |-> srv.run, conv |-> srv.conv]]
      /\ UNCHANGED <<mail, disk, records, cursor, natives, nqueue, adapter, expired,
                     told, replies, faults, crashes>>
  BY DEF Launch
<1>2. /\ srv.m \in Saved(mail) /\ wakes[srv.m] = 0 /\ disk[srv.m] = mail[srv.m]
      /\ mail[srv.m].outcome = "queue-prepared" /\ srv.rest \subseteq Saved(mail)
      /\ jobs \subseteq Saved(mail)
  BY <1>1 DEF Working
<1>3. srv.m \in Msgs /\ mail[srv.m] # None
  BY <1>2 DEF Saved
<1>4. WakesRecorded'
  <2>1. mail[srv.m].outcome \in WakeOutcomes
    BY <1>2, OutcomesTyped
  <2>2. \A m \in Msgs : wakes'[m] = IF m = srv.m THEN 1 ELSE wakes[m]
    BY <1>1, <1>2, <1>3 DEF TypeOK
  <2> QED BY <1>1, <1>2, <1>3, <2>1, <2>2 DEF WakesRecorded
<1>5. DiskFollows' /\ ToldAcked'
  BY <1>1 DEF DiskFollows, ToldAcked, Saved
<1>6. srv' \in Servers /\ Working'
  <2>1. jobs' \subseteq Saved(mail) /\ Saved(mail) \subseteq Saved(mail)' /\ srv \in Servers
    BY <1>1, <1>2 DEF Saved, TypeOK
  <2> QED BY <1>1, <1>2, <2>1, ResumeWorking
<1>7. wakes' \in [Msgs -> Nat] /\ helper' \in [Msgs -> Helpers] /\ jobs' \subseteq Msgs
  BY <1>1, <1>2, <1>3 DEF TypeOK, Helpers, Servers
<1>8. TypeOK'
  BY <1>1, <1>6, <1>7 DEF TypeOK, natives
<1>9. \A m \in Saved(mail) : Kept(mail[m], mail'[m])
  BY <1>1, SavedMessage, FollowsReflexive DEF TypeOK, Follows
<1> QED BY <1>4, <1>5, <1>6, <1>8, <1>9

\* The recheck refuses the launch.
LEMMA LaunchRefusedStep ==
  ASSUME IInv, LaunchRefused
  PROVE  IInv' /\ StoreKept
<1> USE DEF IInv
<1>1. PICK o \in {"unknown", "waiting"} :
        Saves(Finished(srv.m, o)) /\ srv' \in {Resume(srv), ResumeError(srv)}
  BY DEF LaunchRefused, Saves
<1>2. /\ srv.pc = "launch"
      /\ UNCHANGED <<wakes, told, jobs, records, cursor, natives, outside, replies, crashes>>
  BY DEF LaunchRefused
<1>3. /\ srv.m \in Saved(mail) /\ wakes[srv.m] = 0 /\ srv.rest \subseteq Saved(mail)
      /\ jobs \subseteq Saved(mail) /\ o \in Outcomes
  BY <1>2, OutcomesTyped DEF Working
<1>4. Keeps(Finished(srv.m, o))
  BY <1>3, FinishedKeeps DEF TypeOK
<1>5. StoreKept
  BY <1>1, <1>2, <1>4, SaveStep DEF TypeOK
<1>6. srv' \in Servers /\ Working'
  BY <1>1, <1>2, <1>3, <1>5, ResumeWorking DEF TypeOK, StoreKept
<1>7. TypeOK'
  BY <1>2, <1>5, <1>6 DEF TypeOK, StoreKept, natives, outside
<1> QED BY <1>5, <1>6, <1>7 DEF StoreKept

\* The end of a helper.
LEMMA ReapStep ==
  ASSUME IInv, NEW m \in Msgs, Reap(m)
  PROVE  IInv' /\ StoreKept
<1> USE DEF IInv
<1>1. PICK o \in {"queued", "unknown"} : Saves(Finished(m, o))
  BY DEF Reap, Saves
<1>2. /\ srv.pc = "idle" /\ srv' = srv /\ m \in jobs /\ jobs' = jobs \ {m}
      /\ UNCHANGED <<wakes, told, records, cursor, natives, nqueue, adapter, expired,
                     replies, crashes>>
      /\ helper' = [helper EXCEPT ![m].st = IF @ = "running" THEN "bad" ELSE @]
  BY DEF Reap
<1>3. Keeps(Finished(m, o))
  <2>1. m \in Saved(mail) /\ o \in Outcomes /\ o \in WakeOutcomes
    BY <1>2, OutcomesTyped DEF Working
  <2> QED BY <2>1, FinishedKeeps DEF TypeOK
<1>4. StoreKept
  BY <1>1, <1>2, <1>3, SaveStep DEF TypeOK
<1>5. helper' \in [Msgs -> Helpers]
  <2>1. helper \in [Msgs -> Helpers]
    BY DEF TypeOK
  <2> QED BY <1>2, <2>1 DEF Helpers
<1>6. TypeOK'
  BY <1>2, <1>4, <1>5 DEF TypeOK, StoreKept, natives
<1>7. Working'
  BY <1>2, <1>4 DEF Working, StoreKept, TypeOK
<1> QED BY <1>4, <1>6, <1>7 DEF StoreKept

----------------------------------------------------------------------------
(* The invariant and its consequences.                                      *)

\* The invariant holds initially.
LEMMA InitInvariant == Init => IInv
<1> SUFFICES ASSUME Init PROVE IInv
  OBVIOUS
<1>1. mail = EmptyMail /\ disk = EmptyMail /\ EmptyMail \in Mail /\ Saved(EmptyMail) = {}
  BY DEF Init, EmptyMail, Mail, Saved
<1>2. srv = Idle /\ srv \in Servers /\ srv.pc = "idle" /\ srv.rest = {}
  BY IdleType DEF Init, Idle, Work
<1>3. /\ hook \in [Runs -> Hooks] /\ helper \in [Msgs -> Helpers]
      /\ adapter \in [Leases -> Adapters]
  BY DEF Init, Hooks, Helpers, Adapters, NoHook, NoHelper, NoAdapter
<1>4. TypeOK
  BY <1>1, <1>2, <1>3 DEF Init, TypeOK
<1>5. DiskFollows /\ WakesRecorded /\ ToldAcked
  BY <1>1 DEF Init, DiskFollows, WakesRecorded, ToldAcked
<1>6. Working
  BY <1>2 DEF Init, Working
<1> QED BY <1>4, <1>5, <1>6 DEF IInv

NoneForgotten == \A m \in Saved(mail) : Kept(mail[m], mail'[m])

\* Every step of the supervisor's own work keeps the invariant and forgets nothing.
LEMMA SupervisorSteps ==
  ASSUME IInv, Supervisor
  PROVE  IInv' /\ NoneForgotten
BY TickBeginsStep, PassStepStep, DirectAttemptStep, NextDurableJobStep,
   ReservationSavedStep, ReservationFailsStep, LaunchStep, LaunchRefusedStep,
   ReplyStep, OtherSaveStep, ReapStep
   DEF Supervisor, StoreKept, NoneForgotten

\* So does every operation of a client,
LEMMA ClientSteps ==
  ASSUME IInv, Clients
  PROVE  IInv' /\ NoneForgotten
BY SendChatStep, SendCardStep, DeliverStep, ToolCallStep, InboxStep, ReadBodiesStep,
   SetFocusStep, HumanInboxStep
   DEF Clients, StoreKept, NoneForgotten

\* every step of natives, hooks and helpers,
LEMMA NativesSteps ==
  ASSUME IInv, Natives
  PROVE  IInv' /\ NoneForgotten
BY HookStep, HookNoticeStep, AdapterSteps, ConfirmStep, PromptFromQueueStep,
   NativeSteps, TypeStep, HelperRunsStep
   DEF Natives, StoreKept, NoneForgotten

\* and a step that changes nothing.
LEMMA StutterStep ==
  ASSUME IInv, UNCHANGED vars
  PROVE  IInv' /\ NoneForgotten
<1>1. StoreSame /\ UNCHANGED <<srv, jobs>>
  BY DEF vars, server, history, StoreSame
<1>2. TypeOK'
  BY DEF IInv, TypeOK, vars, server, natives, outside, history
<1> QED BY <1>1, <1>2, OutsideStep DEF StoreKept, NoneForgotten

\* The invariant is inductive.
LEMMA NextInvariant == IInv /\ [Next]_vars => IInv' /\ NoneForgotten
BY SupervisorSteps, ClientSteps, NativesSteps, CrashStep, StutterStep
   DEF Next, NoneForgotten

\* The inductive invariant holds in every reachable state.
THEOREM Invariant == Spec => []IInv
<1>1. Init => IInv
  BY InitInvariant
<1>2. IInv /\ [Next]_vars => IInv'
  BY NextInvariant
<1> QED BY <1>1, <1>2, PTL DEF Spec

\* Every variable keeps its type: records, receipts, leases and the supervisor's
\* operation in progress are always of the forms the code can produce.
THEOREM TypeCorrect == Spec => []TypeOK
<1>1. IInv => TypeOK
  BY DEF IInv
<1> QED BY <1>1, Invariant, PTL

\* However many saves fail and however often the supervisor crashes, try_delivery
\* starts at most one queue helper for a message.
THEOREM AtMostOneWake == Spec => []WokenAtMostOnce
<1>1. IInv => WokenAtMostOnce
  BY DEF IInv, WakesRecorded, WokenAtMostOnce
<1> QED BY <1>1, Invariant, PTL

\* A helper that was ever started has its attempt on disk, so a restart never
\* finds the message pending again.
THEOREM ReservationFirst == Spec => []ReservedBeforeLaunch
<1>1. IInv => ReservedBeforeLaunch
  BY DEF IInv, WakesRecorded, ReservedBeforeLaunch
<1> QED BY <1>1, Invariant, PTL

\* An acknowledgement that was reported survives failed saves and restarts.
THEOREM AcknowledgementStays == Spec => []ReportedAckStays
<1>1. IInv => ReportedAckStays
  <2> SUFFICES ASSUME IInv, NEW m \in told
               PROVE  mail[m] # None /\ mail[m].acked /\ disk[m] # None /\ disk[m].acked
    BY DEF ReportedAckStays
  <2>1. m \in Saved(mail) /\ mail[m].acked
    BY DEF IInv, ToldAcked, TypeOK, Saved
  <2> QED BY <2>1 DEF IInv, DiskFollows, Follows, Kept, Saved
<1> QED BY <1>1, Invariant, PTL

\* No step, a crash with its restart included, forgets a message, its acknowledgement,
\* its surfacing or the outcome of its wake-up.
THEOREM MailIsKept == Spec => NothingForgotten
<1>1. IInv /\ [Next]_vars => [\A m \in Saved(mail) : Kept(mail[m], mail'[m])]_vars
  BY NextInvariant DEF NoneForgotten
<1> QED BY <1>1, Invariant, PTL DEF Spec, NothingForgotten
=============================================================================
