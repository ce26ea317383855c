---------------------------- MODULE MailRecords ----------------------------
(***************************************************************************)
(* The durable part of the mailbox: one record per message and the         *)
(* predicates the supervisor evaluates on it.  A message is named by its   *)
(* position in the saved order, 1..MaxMsg; an unsaved position holds None. *)
(* Source: src/server/delivery.rs, chat_messages.rs, coordination.rs.      *)
(***************************************************************************)
EXTENDS Naturals, FiniteSets

CONSTANTS
  Runs,         \* native runs: one process of one tab, never reused
  Home,         \* Home[r]: the workspace the run's tab lives in
  Harness,      \* Harness[r]: "codex" or "claude"
  Convs,        \* native conversations (UUIDs)
  Requests,     \* request_id values agents put on send_chat_message
  None,         \* no value
  MaxMsg,       \* bound: messages ever saved
  MaxLease      \* bound: hook notices ever prepared

ASSUME RunsAssumption ==
  /\ Harness \in [Runs -> {"codex", "claude"}]
  /\ None \notin Runs /\ None \notin Convs /\ None \notin Requests
ASSUME BoundsAssumption == MaxMsg \in Nat /\ MaxLease \in Nat

Msgs == 1..MaxMsg
Workspaces == {Home[r] : r \in Runs}

\* Message.delivery: "none" is an absent receipt, "waiting" the receipts
\* written by waiting(): deferred, waiting-for-*, target-unavailable, ...
QueueOutcomes == {"queue-prepared", "queued", "unknown"}
WakeOutcomes == QueueOutcomes \union {"queue-submitted"}
NoticeOutcomes == {"hook-prepared", "hook-emitted", "mcp-returned"}
Outcomes == {"none", "waiting"} \union WakeOutcomes \union NoticeOutcomes

Message == [
  from     : Workspaces \union {None}, \* None is the human
  to       : Workspaces,
  sender   : Convs \union {None},    \* chat.sender.conversation
  request  : Requests \union {None}, \* chat.request_id; None is card mail
  conv     : Convs \union {None},    \* chat.conversation, the bound addressee
  initial  : Runs \union {None},     \* chat.initial_run
  intent   : {"quiet", "interrupt"},
  native   : BOOLEAN,                \* native_surfaced is set
  acked    : BOOLEAN,                \* acknowledged is set
  outcome  : Outcomes,               \* delivery.outcome
  run      : Runs \union {None},     \* delivery.run
  at       : Convs \union {None},    \* delivery.conversation
  lease    : 0..MaxLease ]           \* delivery.lease

ASSUME NoneAssumption == None \notin Message

Mail == [Msgs -> Message \union {None}]
EmptyMail == [m \in Msgs |-> None]
Saved(mail) == {m \in Msgs : mail[m] # None}

\* The next message goes to the end of the saved order.
NextFree(mail, m) ==
  /\ m \in Msgs /\ mail[m] = None
  /\ \A k \in Msgs : k < m => mail[k] # None

\* The first k members of a set of messages, in saved order.
First(S, k) == {m \in S : Cardinality({n \in S : n < m}) < k}

----------------------------------------------------------------------------
\* Mutants of Pending: replaying an uncertain attempt; waking for acknowledged mail.
PendingIfUncertain(e) ==
  /\ ~e.acked /\ ~e.native
  /\ e.outcome \notin (WakeOutcomes \ {"unknown"}) \union NoticeOutcomes
PendingUntilSeen(e) ==
  ~e.native /\ e.outcome \notin WakeOutcomes \union NoticeOutcomes

\* A message nobody has been told about: no acknowledgement, not surfaced to
\* an agent, and no attempt whose outcome might already have reached one.
Pending(e) ==
  /\ ~e.acked /\ ~e.native
  /\ e.outcome \notin WakeOutcomes \union NoticeOutcomes

\* Mail bound to a conversation is visible to that conversation only.
ForConversation(e, c) == e.conv = None \/ (c # None /\ e.conv = c)

\* A handoff to the native queue that no agent is known to have seen yet.
Outstanding(e) == ~e.acked /\ ~e.native /\ e.outcome \in QueueOutcomes

\* Mutant: the retry is looked up among mail no agent has seen.
SameUnseenRequest(e, w, s, q) ==
  e.from = w /\ e.request = q /\ e.sender = s /\ ~e.native

\* The identity send_chat_message deduplicates on.
SameRequest(e, w, s, q) == e.from = w /\ e.request = q /\ e.sender = s

----------------------------------------------------------------------------
\* Updates of a message.
CardMail(w, to, i) ==
  [from |-> w, to |-> to, sender |-> None, request |-> None, conv |-> None,
   initial |-> None, intent |-> i, native |-> FALSE, acked |-> FALSE,
   outcome |-> "none", run |-> None, at |-> None, lease |-> 0]

ChatMail(w, s, q, to, c, r) ==
  [CardMail(w, to, "quiet") EXCEPT
     !.sender = s, !.request = q, !.conv = c, !.initial = r]

Receipt(e, o, r, c, l) ==
  [e EXCEPT !.outcome = o, !.run = r, !.at = c, !.lease = l]

\* finish_delivery and the submission receipt keep the attempt's identity.
Resolve(e, o) ==
  IF e.outcome = "queue-prepared" THEN [e EXCEPT !.outcome = o] ELSE e

Surface(e) == [e EXCEPT !.native = TRUE]
Acknowledge(e) == [e EXCEPT !.acked = TRUE]

\* Apply Change to the messages in S.
Amend(mail, S, Change(_)) ==
  [m \in Msgs |-> IF m \in S THEN Change(mail[m]) ELSE mail[m]]
=============================================================================
