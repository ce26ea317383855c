------------------------------ MODULE Mailbox ------------------------------
(***************************************************************************)
(* The supervisor's mailbox: agents and the human send, read and           *)
(* acknowledge messages; the single-threaded supervisor wakes at most one  *)
(* native run per handoff, through a helper process, and puts notices on   *)
(* hook and tool replies.  Every change is saved before it is reported.    *)
(* Source: src/server/delivery.rs, chat_messages.rs, context_view.rs,      *)
(* coordination.rs, reactor.rs (the save barrier).                         *)
(***************************************************************************)
EXTENDS MailRecords

CONSTANTS
  MaxJobs,      \* queue helpers in flight (4)
  ScanLimit,    \* candidates of one delivery pass (16)
  NoticeLimit,  \* ids on one notice (8)
  Activates,    \* TRUE: one save may move the mailbox to the record database
  Stimuli,      \* bound: the operations of clients and natives that occur
  MaxFaults,    \* bound: failed saves
  MaxCrash      \* bound: supervisor crashes

ASSUME LimitsAssumption ==
  /\ MaxJobs \in Nat /\ ScanLimit \in Nat \ {0} /\ NoticeLimit \in Nat
  /\ Activates \in BOOLEAN /\ MaxFaults \in Nat /\ MaxCrash \in Nat

VARIABLES
  mail,     \* the supervisor's messages, in memory
  disk,     \* the messages a restart would load
  records,  \* the record database is active
  life,     \* life[r]: "unborn", "live" or "dead"
  talk,     \* talk[r]: the conversation the run's process can be proved to own
  hook,     \* hook[r]: the last native hook observed in this epoch
  focus,    \* runs with an active do-not-disturb interval
  typed,    \* runs whose composer is not empty or whose input is undrained
  srv,      \* the operation the supervisor is in the middle of
  jobs,     \* messages whose queue helper the supervisor supervises
  cursor,   \* delivery_cursor
  helper,   \* helper[m]: the queue helper process of message m
  nqueue,   \* notices accepted by a native queue, not yet submitted
  adapter,  \* adapter[l]: the hook adapter holding notice lease l
  expired,  \* leases whose six seconds are over
  wakes,    \* history: queue helpers ever started for a message
  told,     \* history: messages whose acknowledgement was reported
  replies,  \* history: ids reported for (workspace, conversation, request_id)
  faults,   \* failed saves so far
  crashes   \* supervisor crashes so far

server == <<mail, disk, records, srv, jobs, cursor>>
natives == <<life, talk, hook, focus, typed>>
outside == <<helper, nqueue, adapter, expired>>
history == <<wakes, told, replies, faults, crashes>>
vars == <<server, natives, outside, history>>

Leases == 1..MaxLease
Events == {"SessionStart", "UserPromptSubmit", "PostToolUse",
           "PermissionRequest", "Stop"}
NoHook == [event |-> "none", conv |-> None, settled |-> FALSE]
NoHelper == [st |-> "none", run |-> None, conv |-> None]
NoAdapter == [st |-> "unused", run |-> None, ids |-> {}]
\* pc "saving": the reservation's durable jobs run, `left` more after this one;
\* touched is reactor.save_input, stray the input since the save began.
Work(pc, op, caller, m, rest, start) ==
  [pc |-> pc, op |-> op, caller |-> caller, m |-> m, rest |-> rest, start |-> start,
   run |-> None, conv |-> None, left |-> 0, touched |-> FALSE, stray |-> FALSE]
Idle == Work("idle", "none", None, 0, {}, 0)
Pass(rest, start) == Work("pass", "tick", None, 0, rest, start)

Init ==
  /\ mail = EmptyMail /\ disk = EmptyMail /\ records = FALSE
  /\ life = [r \in Runs |-> "unborn"]
  /\ talk = [r \in Runs |-> None]
  /\ hook = [r \in Runs |-> NoHook]
  /\ focus = {} /\ typed = [r \in Runs |-> FALSE]
  /\ srv = Idle /\ jobs = {} /\ cursor = 0
  /\ helper = [m \in Msgs |-> NoHelper] /\ nqueue = {}
  /\ adapter = [l \in Leases |-> NoAdapter] /\ expired = {}
  /\ wakes = [m \in Msgs |-> 0] /\ told = {} /\ replies = {}
  /\ faults = 0 /\ crashes = 0

----------------------------------------------------------------------------
(* Saving.  save_mailbox swaps the new messages in, persists them and swaps  *)
(* the old ones back on an error.  A failed save may still have replaced the *)
(* file: the rename comes before the directory's fsync.                      *)

\* Mutants: success before the file is replaced; no rollback after an error.
CommitsLater(next) == mail' = next /\ disk' \in {disk, next} /\ UNCHANGED faults
CommitFailsInPlace(next) ==
  /\ faults < MaxFaults /\ faults' = faults + 1
  /\ mail' = next /\ disk' \in {disk, next}

Commits(next) == mail' = next /\ disk' = next /\ UNCHANGED faults
CommitFails(next) ==
  /\ faults < MaxFaults /\ faults' = faults + 1
  /\ mail' = mail /\ disk' \in {disk, next}
\* Reads that change nothing write nothing.
CommitsChange(next) ==
  IF next = mail THEN UNCHANGED <<mail, disk, faults>> ELSE Commits(next)

----------------------------------------------------------------------------
(* Who may receive what.                                                     *)

LiveAt(w) == {r \in Runs : life[r] = "live" /\ Home[r] = w}
CodexAt(w) == {r \in LiveAt(w) : Harness[r] = "codex"}

\* The conversation a run is proved to be in; Claude proves it by a hook.
Proof(r) ==
  IF life[r] = "live" /\ (Harness[r] = "codex" \/ hook[r].event # "none")
  THEN talk[r] ELSE None

\* The one live run of a conversation; every live Codex run must be provable.
ConversationRecipient(w, c, r) ==
  /\ r \in CodexAt(w) /\ talk[r] = c
  /\ \A q \in CodexAt(w) : talk[q] # None /\ (talk[q] = c => q = r)

MessageRecipient(e, r) ==
  IF e.conv = None THEN LiveAt(e.to) = {r}
  ELSE ConversationRecipient(e.to, e.conv, r)

HasBoundMail(w) ==
  \E m \in Saved(mail) : mail[m].conv # None /\ (mail[m].to = w \/ mail[m].from = w)

\* Mutant: another live run of the workspace is not considered.
OwnConversation(r) == IF HasBoundMail(Home[r]) THEN Proof(r) ELSE None

\* The conversation whose bound mail a run may see; None hides all of it.
MailboxConversation(r) ==
  IF HasBoundMail(Home[r]) /\ Proof(r) # None
     /\ ConversationRecipient(Home[r], Proof(r), r)
  THEN Proof(r) ELSE None

Visible(r, c) ==
  {m \in Saved(mail) : mail[m].to = Home[r] /\ ForConversation(mail[m], c)}
Unread(S) == {m \in S : ~mail[m].acked}

----------------------------------------------------------------------------
(* Delivery: try_delivery, in three steps: the guards and the reservation,   *)
(* the save that input may interrupt, and the recheck before the launch.     *)

HookAllows(r) ==
  \/ hook[r].event = "none"
  \/ /\ hook[r].event \in {"Stop", "SessionStart"} /\ hook[r].settled
     /\ hook[r].conv = talk[r]

\* Mutant: one handoff per run, but not per conversation.
HandoffAtRun(m, r) ==
  \E k \in Saved(mail) : Outstanding(mail[k]) /\ mail[k].run = r

HandoffOutstanding(m, r) ==
  \E k \in Saved(mail) :
    /\ Outstanding(mail[k])
    /\ mail[k].run = r \/ (mail[k].to = mail[m].to /\ mail[k].at = talk[r])

CanWake(m, r) ==
  /\ Cardinality(jobs) < MaxJobs
  /\ MessageRecipient(mail[m], r)
  /\ r \notin focus /\ Harness[r] = "codex"
  /\ HookAllows(r)
  /\ talk[r] # None /\ ForConversation(mail[m], talk[r])
  /\ ~typed[r]
  /\ ~HandoffOutstanding(m, r)

Waiting(m) ==
  Amend(mail, {m}, LAMBDA e : Receipt(e, "waiting", None, None, 0))
Reserved ==
  Amend(mail, {srv.m},
        LAMBDA e : Receipt(e, "queue-prepared", srv.run, srv.conv, 0))
Finished(m, o) == Amend(mail, {m}, LAMBDA e : Resolve(e, o))

\* An operation tries to deliver message m; it ends with attach_notice.
Trying(op, r, m) == Work("direct", op, r, m, {}, 0)
Replying(op, r, m) == Work("reply", op, r, m, {}, 0)

\* Where the supervisor goes on after an attempt, or after its error.
Resume(s) ==
  CASE s.op = "tick" -> Pass(s.rest, s.start)
    [] s.op # "tick" /\ s.caller # None -> Replying(s.op, s.caller, s.m)
    [] OTHER -> Idle
ResumeError(s) == IF s.op = "tick" THEN Resume(s) ELSE Idle

Attempt(s, m) ==
  \/ /\ ~Pending(mail[m])
     /\ srv' = Resume(s) /\ UNCHANGED <<mail, disk, faults>>
  \/ /\ Pending(mail[m])
     /\ \E r \in Runs : \E more \in IF Activates /\ ~records THEN {0, 2} ELSE {0} :
          /\ CanWake(m, r)
          /\ srv' = [s EXCEPT !.pc = "saving", !.m = m, !.run = r,
                              !.conv = talk[r], !.left = more]
     /\ UNCHANGED <<mail, disk, faults>>
  \/ /\ Pending(mail[m]) /\ \A r \in Runs : ~CanWake(m, r)
     /\ \/ Commits(Waiting(m)) /\ srv' = Resume(s)
        \/ CommitFails(Waiting(m)) /\ srv' = ResumeError(s)

\* Mutant of Rank: every pass starts from the oldest message.
AbsoluteRank(m, start) == m - 1

\* A message's place in the cyclic scan that starts at the cursor.
Size == Cardinality(Saved(mail))
Rank(m, start) == (m - 1 + Size - start) % Size
Candidates(start) ==
  LET due == {m \in Saved(mail) : Pending(mail[m])}
  IN {m \in due : Cardinality({k \in due : Rank(k, start) < Rank(m, start)}) < ScanLimit}

\* delivery_tick after its 500 ms: choose the candidates of this pass.
TickBegins ==
  /\ srv.pc = "idle" /\ Saved(mail) # {} /\ Candidates(cursor % Size) # {}
  /\ srv' = Pass(Candidates(cursor % Size), cursor % Size)
  /\ UNCHANGED <<mail, disk, records, jobs, cursor, natives, outside, history>>

\* One candidate of the pass: move the cursor past it, then try it.
PassStep ==
  /\ srv.pc = "pass"
  /\ IF srv.rest = {} \/ Cardinality(jobs) >= MaxJobs
     THEN srv' = Idle /\ UNCHANGED <<mail, disk, cursor, faults>>
     ELSE \E m \in srv.rest :
            /\ \A k \in srv.rest : Rank(m, srv.start) <= Rank(k, srv.start)
            /\ cursor' = m % Size
            /\ Attempt([srv EXCEPT !.rest = @ \ {m}], m)
  /\ UNCHANGED <<records, jobs, natives, outside, wakes, told, replies, crashes>>

\* try_delivery for the message a caller just sent or named.
DirectAttempt ==
  /\ srv.pc = "direct"
  /\ Attempt(srv, srv.m)
  /\ UNCHANGED <<records, jobs, cursor, natives, outside, wakes, told, replies, crashes>>

\* Each durable job of a save starts with an empty save_input.
NextDurableJob ==
  /\ srv.pc = "saving" /\ srv.left > 0
  /\ srv' = [srv EXCEPT !.left = @ - 1, !.touched = FALSE]
  /\ records' = (srv.left = 1)
  /\ UNCHANGED <<mail, disk, jobs, cursor, natives, outside, history>>

\* Mutant: the helper starts before the reservation is on disk.
ReservationInMemory ==
  /\ srv.pc = "saving" /\ srv.left = 0
  /\ mail' = Reserved /\ UNCHANGED <<disk, faults>>
  /\ srv' = [srv EXCEPT !.pc = "launch"]
  /\ UNCHANGED <<records, jobs, cursor, natives, outside, wakes, told, replies, crashes>>

ReservationSaved ==
  /\ srv.pc = "saving" /\ srv.left = 0
  /\ Commits(Reserved)
  /\ srv' = [srv EXCEPT !.pc = "launch"]
  /\ UNCHANGED <<records, jobs, cursor, natives, outside, wakes, told, replies, crashes>>

\* An error of the reservation's save: a pass records the message as waiting.
ReservationFails ==
  /\ srv.pc = "saving" /\ srv.left = 0
  /\ \/ CommitFails(Reserved)
     \/ /\ srv.op = "tick" /\ faults < MaxFaults /\ faults' = faults + 1
        /\ mail' = Waiting(srv.m) /\ disk' = Waiting(srv.m)
  /\ srv' = ResumeError(srv)
  /\ UNCHANGED <<records, jobs, cursor, natives, outside, wakes, told, replies, crashes>>

\* Mutants: the recipient, or the input of the save, is not rechecked.
StillEmpty == ~srv.touched /\ ~typed[srv.run]
StillThere ==
  life[srv.run] = "live" /\ talk[srv.run] = srv.conv /\ ~typed[srv.run]

StillIdle ==
  /\ ~srv.touched
  /\ life[srv.run] = "live" /\ talk[srv.run] = srv.conv
  /\ ~typed[srv.run]

Launch ==
  /\ srv.pc = "launch" /\ StillIdle
  /\ jobs' = jobs \union {srv.m}
  /\ helper' = [helper EXCEPT ![srv.m] =
                  [st |-> "running", run |-> srv.run, conv |-> srv.conv]]
  /\ wakes' = [wakes EXCEPT ![srv.m] = @ + 1]
  /\ srv' = Resume(srv)
  /\ UNCHANGED <<mail, disk, records, cursor, natives, nqueue, adapter, expired,
                 told, replies, faults, crashes>>

\* The helper could not start, or the recipient changed during the save.
LaunchRefused ==
  /\ srv.pc = "launch"
  /\ LET next == Finished(srv.m, IF StillIdle THEN "unknown" ELSE "waiting")
     IN \/ Commits(next) /\ srv' = Resume(srv)
        \/ CommitFails(next) /\ srv' = ResumeError(srv)
  /\ UNCHANGED <<records, jobs, cursor, natives, outside, wakes, told, replies, crashes>>

\* delivery_tick: a helper ended, or ran for five seconds and is killed.
Reap(m) ==
  /\ srv.pc = "idle" /\ m \in jobs
  /\ jobs' = jobs \ {m}
  /\ LET next == Finished(m, IF helper[m].st = "ok" THEN "queued" ELSE "unknown")
     IN Commits(next) \/ CommitFails(next)
  /\ helper' = [helper EXCEPT ![m].st = IF @ = "running" THEN "bad" ELSE @]
  /\ UNCHANGED <<records, srv, cursor, natives, nqueue, adapter, expired,
                 wakes, told, replies, crashes>>

----------------------------------------------------------------------------
(* Operations of agents and of the human.                                    *)

\* send_chat_message from run r to the conversation run q is in.
SendChat(r, q, request) ==
  /\ srv.pc = "idle" /\ "chat" \in Stimuli /\ Proof(r) # None
  /\ \/ \E m \in Saved(mail) :    \* a retry: report the saved message again
          /\ SameRequest(mail[m], Home[r], Proof(r), request)
          /\ mail[m].to = Home[q]
          /\ \/ mail[m].initial = q
             \/ ConversationRecipient(Home[q], mail[m].conv, q)
          /\ srv' = Replying("send", r, m)
          /\ UNCHANGED <<mail, disk, faults>>
     \/ /\ \A m \in Saved(mail) :
             ~SameRequest(mail[m], Home[r], Proof(r), request)
        /\ talk[q] # None /\ ConversationRecipient(Home[q], talk[q], q)
        /\ \E m \in Msgs :
             LET new == ChatMail(Home[r], Proof(r), request, Home[q], talk[q], q)
                 next == [mail EXCEPT ![m] = new]
             IN /\ NextFree(mail, m)
                /\ \/ /\ Commits(next)
                      /\ srv' = Trying("send", r, m)
                   \/ CommitFails(next) /\ srv' = Idle
  /\ UNCHANGED <<records, jobs, cursor, natives, outside, wakes, told, replies, crashes>>

\* send_message by an agent (r) or by the human (None): card mail, no attempt.
SendCard(r, w, intent) ==
  /\ srv.pc = "idle" /\ "card" \in Stimuli
  /\ r # None => life[r] = "live"
  /\ \E m \in Msgs :
       LET new == CardMail(IF r = None THEN None ELSE Home[r], w, intent)
           next == [mail EXCEPT ![m] = new]
       IN /\ NextFree(mail, m)
          /\ \/ /\ Commits(next)
                /\ srv' = IF r = None THEN Idle ELSE Replying("card", r, m)
             \/ CommitFails(next) /\ srv' = Idle
  /\ UNCHANGED <<records, jobs, cursor, natives, outside, wakes, told, replies, crashes>>

\* deliver_message: an explicit attempt on the exact recipient run.
Deliver(r, m) ==
  /\ srv.pc = "idle" /\ "deliver" \in Stimuli
  /\ m \in Saved(mail)
  /\ r # None => /\ life[r] = "live"
                 /\ \/ m \in Visible(r, MailboxConversation(r))
                    \/ /\ mail[m].from = Home[r]
                       /\ \/ mail[m].conv = None
                          \/ /\ MailboxConversation(r) # None
                             /\ mail[m].sender = MailboxConversation(r)
  /\ \E q \in Runs : MessageRecipient(mail[m], q)
  /\ srv' = Trying("deliver", r, m)
  /\ UNCHANGED <<mail, disk, records, jobs, cursor, natives, outside, history>>

\* Any other agent operation whose reply can carry a notice.
ToolCall(r) ==
  /\ srv.pc = "idle" /\ "tool" \in Stimuli /\ life[r] = "live"
  /\ srv' = Replying("tool", r, 0)
  /\ UNCHANGED <<mail, disk, records, jobs, cursor, natives, outside, history>>

\* attach_notice, then the reply; an error replaces the reply.
Reply ==
  /\ srv.pc = "reply"
  /\ LET r == srv.caller
         due == {m \in Visible(r, MailboxConversation(r)) : Pending(mail[m])}
         ids == IF r \in focus THEN {} ELSE First(due, NoticeLimit)
         next == Amend(mail, ids,
                   LAMBDA e : Surface(Receipt(e, "mcp-returned", r, None, 0)))
         reply == [key |-> <<mail[srv.m].from, mail[srv.m].sender, mail[srv.m].request>>,
                   msg |-> srv.m]
     IN \/ /\ CommitsChange(next)
           /\ replies' = replies \union (IF srv.op = "send" THEN {reply} ELSE {})
        \/ ids # {} /\ CommitFails(next) /\ UNCHANGED replies
  /\ srv' = Idle
  /\ UNCHANGED <<records, jobs, cursor, natives, outside, wakes, told, crashes>>

\* inbox: acknowledge S and surface the page that follows `after`, of all mail or
\* of what is unread; an ACK-only call returns no page.  The human's inbox
\* surfaces nothing natively.
Inbox(r, S, after, limit, all) ==
  /\ srv.pc = "idle" /\ "inbox" \in Stimuli /\ life[r] = "live"
  /\ LET scope == Visible(r, MailboxConversation(r))
         listed == IF all THEN scope ELSE Unread(scope) \ S
         page == First({m \in listed : m > after}, limit)
         next == Amend(Amend(mail, S, Acknowledge), page, Surface)
     IN /\ S \subseteq scope /\ after \in scope \union {0}
        /\ S = {} => limit > 0
        /\ \/ CommitsChange(next) /\ told' = told \union S
           \/ next # mail /\ CommitFails(next) /\ UNCHANGED told
  /\ UNCHANGED <<records, srv, jobs, cursor, natives, outside, wakes, replies, crashes>>

HumanInbox(w, S) ==
  /\ srv.pc = "idle" /\ "human" \in Stimuli
  /\ S # {} /\ S \subseteq {m \in Saved(mail) : mail[m].to = w}
  /\ LET next == Amend(mail, S, Acknowledge)
     IN \/ CommitsChange(next) /\ told' = told \union S
        \/ next # mail /\ CommitFails(next) /\ UNCHANGED told
  /\ UNCHANGED <<records, srv, jobs, cursor, natives, outside, wakes, replies, crashes>>

\* context with detail, of unread mail, or message_status of one message:
\* bodies are surfaced before the reply.
ReadBodies(r, S) ==
  /\ srv.pc = "idle" /\ "read" \in Stimuli /\ life[r] = "live"
  /\ S # {} /\ S \subseteq Visible(r, MailboxConversation(r))
  /\ Unread(S) = S \/ Cardinality(S) = 1
  /\ LET next == Amend(mail, S, Surface)
     IN next # mail /\ (Commits(next) \/ CommitFails(next))
  /\ UNCHANGED <<records, srv, jobs, cursor, natives, outside, wakes, told, replies, crashes>>

\* set_focus: the interval is part of the mailbox, but only of this epoch.
SetFocus(r, on) ==
  /\ srv.pc = "idle" /\ "focus" \in Stimuli /\ life[r] = "live"
  /\ \/ /\ Commits(mail)
        /\ focus' = IF on THEN focus \union {r} ELSE focus \ {r}
     \/ CommitFails(mail) /\ UNCHANGED focus
  /\ UNCHANGED <<records, srv, jobs, cursor, life, talk, hook, typed, outside,
                 wakes, told, replies, crashes>>

\* The interval is over: nothing is saved.
FocusEnds(r) ==
  /\ r \in focus /\ focus' = focus \ {r}
  /\ UNCHANGED <<server, life, talk, hook, typed, outside, history>>

\* Every other save of the supervisor (tabs, layout, status) writes the mail too.
OtherSave ==
  /\ srv.pc = "idle" /\ disk # mail /\ Commits(mail)
  /\ UNCHANGED <<records, srv, jobs, cursor, natives, outside, wakes, told, replies, crashes>>

----------------------------------------------------------------------------
(* Hooks.  The adapter asks the supervisor, prints the answer, and confirms  *)
(* a notice only after it printed it.                                        *)

\* A SessionStart after a recorded turn (a sub-thread's) changes nothing.
HookSeen(r, e, c) ==
  IF Harness[r] = "codex" /\ e = "SessionStart"
     /\ hook[r].event \notin {"none", "SessionStart"}
  THEN hook
  ELSE [hook EXCEPT ![r] = [event |-> e, conv |-> c, settled |-> FALSE]]

\* Where a notice may be put: not under focus, and only on these events.
NoticeEvents(r) ==
  IF Harness[r] = "codex" THEN {"PostToolUse", "Stop"}
  ELSE {"SessionStart", "UserPromptSubmit", "PostToolUse", "Stop"}

\* Mutant: a prepared notice is repeated while its lease runs.
NoticeRepeated(r, e, c) ==
  {m \in Visible(r, c) :
     /\ ~mail[m].acked /\ ~mail[m].native
     /\ Pending(mail[m]) \/ mail[m].outcome = "hook-prepared"
     /\ e = "Stop" => mail[m].intent = "interrupt"}

\* Unseen mail without an attempt, or whose notice lease ran out unconfirmed.
NoticeDue(r, e, c) ==
  {m \in Visible(r, c) :
     /\ ~mail[m].acked /\ ~mail[m].native
     /\ \/ Pending(mail[m])
        \/ (mail[m].outcome = "hook-prepared" /\ mail[m].lease \in expired)
     /\ e = "Stop" => mail[m].intent = "interrupt"}

\* The conversation a hook of run r speaks for: Codex must prove it, Claude's
\* SessionStart may name a new one, which is saved before anything else.
HookConv(r, e, c) ==
  /\ srv.pc = "idle" /\ life[r] = "live" /\ e \in Events /\ c \in Convs
  /\ talk[r] = c \/ (Harness[r] = "claude" /\ e = "SessionStart")

\* A hook without a notice in its answer.
Hook(r, e, c) ==
  /\ "hook" \in Stimuli /\ HookConv(r, e, c)
  /\ IF talk[r] = c
     THEN UNCHANGED <<talk, mail, disk, faults>> /\ hook' = HookSeen(r, e, c)
     ELSE /\ talk' = [talk EXCEPT ![r] = c]
          /\ \/ Commits(mail) /\ hook' = HookSeen(r, e, c)
             \/ CommitFails(mail) /\ UNCHANGED hook
  /\ UNCHANGED <<records, srv, jobs, cursor, life, focus, typed, outside,
                 wakes, told, replies, crashes>>

\* A hook whose answer carries a notice under a fresh lease; the observation
\* stays when the notice cannot be saved.
HookNotice(r, e, c, l) ==
  /\ "notice" \in Stimuli /\ HookConv(r, e, c)
  /\ e \in NoticeEvents(r) /\ r \notin focus
  /\ adapter[l].st = "unused" /\ \A k \in Leases : k < l => adapter[k].st # "unused"
  /\ LET scope == IF Harness[r] = "codex" THEN MailboxConversation(r) ELSE c
         ids == First(NoticeDue(r, e, scope), NoticeLimit)
         next == Amend(mail, ids, LAMBDA x : Receipt(x, "hook-prepared", r, c, l))
     IN /\ ids # {}
        /\ \/ /\ Commits(next)
              /\ adapter' = [adapter EXCEPT ![l] = [st |-> "replied", run |-> r, ids |-> ids]]
           \/ /\ CommitFails(next)
              /\ adapter' = [adapter EXCEPT ![l] = [st |-> "gone", run |-> r, ids |-> {}]]
  /\ hook' = HookSeen(r, e, c) /\ talk' = [talk EXCEPT ![r] = c]
  /\ UNCHANGED <<records, srv, jobs, cursor, life, focus, typed, helper,
                 nqueue, expired, wakes, told, replies, crashes>>

\* The adapter writes the notice to its native, or dies before it does.
AdapterPrints(l) ==
  /\ adapter[l].st = "replied"
  /\ \E s \in {"printed", "gone"} : adapter' = [adapter EXCEPT ![l].st = s]
  /\ UNCHANGED <<server, natives, helper, nqueue, expired, history>>

\* Mutant of UnderLease: any notice prepared for the run.
UnderAnyLease(r, l) ==
  {m \in Visible(r, MailboxConversation(r)) :
     mail[m].run = r /\ mail[m].outcome = "hook-prepared"}

UnderLease(r, l) ==
  {m \in Visible(r, MailboxConversation(r)) :
     mail[m].run = r /\ mail[m].lease = l /\ mail[m].outcome = "hook-prepared"}

\* confirm_notice: the messages still under this lease have been emitted.
Confirm(l) ==
  /\ srv.pc = "idle" /\ adapter[l].st = "printed"
  /\ adapter' = [adapter EXCEPT ![l].st = "confirmed"]
  /\ LET r == adapter[l].run
         ids == UnderLease(r, l)
         next == Amend(mail, ids,
                       LAMBDA e : Surface([e EXCEPT !.outcome = "hook-emitted"]))
     IN IF life[r] = "live" /\ ids # {}
        THEN Commits(next) \/ CommitFails(next)
        ELSE UNCHANGED <<mail, disk, faults>>
  /\ UNCHANGED <<records, srv, jobs, cursor, natives, helper, nqueue, expired,
                 wakes, told, replies, crashes>>

LeaseExpires(l) ==
  /\ adapter[l].st # "unused" /\ l \notin expired
  /\ expired' = expired \union {l}
  /\ UNCHANGED <<server, natives, helper, nqueue, adapter, history>>

\* Codex takes a queued notice as its next prompt; its UserPromptSubmit hook
\* reports which notice it was, or never reaches the supervisor.
PromptFromQueue(r, n) ==
  /\ life[r] = "live" /\ Harness[r] = "codex" /\ n \in nqueue /\ talk[r] = n.conv
  /\ nqueue' = nqueue \ {n}
  /\ LET e == mail[n.msg]
         receipt == /\ e # None /\ e.to = Home[r] /\ ForConversation(e, n.conv)
                    /\ e.at = n.conv /\ e.run = n.run /\ e.outcome \in QueueOutcomes
         next == Amend(mail, {n.msg}, LAMBDA x : [x EXCEPT !.outcome = "queue-submitted"])
         seen == hook' = HookSeen(r, "UserPromptSubmit", n.conv)
     IN \/ UNCHANGED <<mail, disk, faults, hook>>      \* the hook is lost
        \/ /\ srv.pc = "idle" /\ receipt
           /\ \/ Commits(next) /\ seen
              \/ CommitFails(next) /\ UNCHANGED hook
        \/ /\ srv.pc = "idle" /\ ~receipt
           /\ seen /\ UNCHANGED <<mail, disk, faults>>
  /\ UNCHANGED <<records, srv, jobs, cursor, life, talk, focus, typed, helper,
                 adapter, expired, wakes, told, replies, crashes>>

----------------------------------------------------------------------------
(* The outside world: runs, users, helper processes and crashes.             *)

Start(r) ==
  /\ life[r] = "unborn" /\ srv.pc = "idle"
  /\ life' = [life EXCEPT ![r] = "live"]
  /\ UNCHANGED <<server, talk, hook, focus, typed, outside, history>>

Exit(r) ==
  /\ "exit" \in Stimuli /\ life[r] = "live"
  /\ life' = [life EXCEPT ![r] = "dead"]
  /\ talk' = [talk EXCEPT ![r] = None]
  /\ hook' = [hook EXCEPT ![r] = NoHook]
  /\ typed' = [typed EXCEPT ![r] = FALSE]
  /\ focus' = focus \ {r}
  /\ UNCHANGED <<server, outside, history>>

\* Codex opens a conversation or switches to another; None is an instant at
\* which ownership cannot be proved.
Switch(r, c) ==
  /\ life[r] = "live" /\ Harness[r] = "codex" /\ talk[r] # c
  /\ talk[r] = None \/ "switch" \in Stimuli
  /\ talk' = [talk EXCEPT ![r] = c]
  /\ UNCHANGED <<server, life, hook, focus, typed, outside, history>>

\* A second after a boundary hook the boundary counts as idle.
Settle(r) ==
  /\ hook[r].event \in {"Stop", "SessionStart"} /\ ~hook[r].settled
  /\ hook' = [hook EXCEPT ![r].settled = TRUE]
  /\ UNCHANGED <<server, life, talk, focus, typed, outside, history>>

\* The user's input reaches the pane; the supervisor serves it between
\* operations and during a save, and a save records that it did.  Input leaves
\* text in the composer or (Enter, deletion) an empty one.
Type(r, leaves) ==
  /\ "type" \in Stimuli /\ life[r] = "live"
  /\ srv.pc \in {"idle", "saving"}
  /\ typed' = [typed EXCEPT ![r] = leaves]
  /\ srv' = IF srv.pc = "saving" /\ srv.run = r
            THEN [srv EXCEPT !.touched = TRUE, !.stray = TRUE] ELSE srv
  /\ UNCHANGED <<mail, disk, records, jobs, cursor, life, talk, hook, focus,
                 outside, history>>

\* The helper hands the notice to the native queue, and ends well only if it
\* did; a helper of a crashed supervisor goes on.
HelperRuns(m) ==
  /\ helper[m].st = "running"
  /\ LET n == [msg |-> m, run |-> helper[m].run, conv |-> helper[m].conv]
     IN \/ nqueue' = nqueue \union {n} /\ helper' = [helper EXCEPT ![m].st = "ok"]
        \/ nqueue' \in {nqueue, nqueue \union {n}} /\ helper' = [helper EXCEPT ![m].st = "bad"]
  /\ UNCHANGED <<server, natives, adapter, expired, history>>

\* The supervisor dies; its runs lose their terminals.  A restart loads the
\* disk under a new epoch: hooks, focus and jobs of the old one mean nothing.
Crash ==
  /\ crashes < MaxCrash /\ crashes' = crashes + 1
  /\ mail' = disk
  /\ life' = [r \in Runs |-> IF life[r] = "live" THEN "dead" ELSE life[r]]
  /\ talk' = [r \in Runs |-> None] /\ hook' = [r \in Runs |-> NoHook]
  /\ typed' = [r \in Runs |-> FALSE] /\ focus' = {}
  /\ srv' = Idle /\ jobs' = {} /\ cursor' = 0
  /\ UNCHANGED <<disk, records, outside, wakes, told, replies, faults>>

----------------------------------------------------------------------------
PageLimits == {0, 1, 8}
Intents == {"quiet"} \union ({"interrupt"} \intersect Stimuli)

Supervisor ==
  \/ TickBegins \/ PassStep \/ DirectAttempt
  \/ NextDurableJob \/ ReservationSaved \/ ReservationFails
  \/ Launch \/ LaunchRefused \/ Reply \/ OtherSave
  \/ \E m \in Msgs : Reap(m)

Clients ==
  \/ \E r, q \in Runs, x \in Requests : SendChat(r, q, x)
  \/ \E r \in Runs \union {None} :
       \/ \E w \in Workspaces, i \in Intents : SendCard(r, w, i)
       \/ \E m \in Msgs : Deliver(r, m)
  \/ \E r \in Runs :
       \/ ToolCall(r)
       \/ \E S \in SUBSET Msgs :
            \/ \E after \in 0..MaxMsg, limit \in PageLimits, all \in BOOLEAN :
                 Inbox(r, S, after, limit, all)
            \/ ReadBodies(r, S)
       \/ \E on \in BOOLEAN : SetFocus(r, on)
  \/ \E w \in Workspaces, S \in SUBSET Msgs : HumanInbox(w, S)

Natives ==
  \/ \E r \in Runs, e \in Events, c \in Convs :
       \/ Hook(r, e, c)
       \/ \E l \in Leases : HookNotice(r, e, c, l)
  \/ \E l \in Leases : AdapterPrints(l) \/ Confirm(l) \/ LeaseExpires(l)
  \/ \E r \in Runs :
       \/ \E n \in nqueue : PromptFromQueue(r, n)
       \/ \E c \in Convs \union {None} : Switch(r, c)
       \/ Start(r) \/ Exit(r) \/ Settle(r) \/ FocusEnds(r)
       \/ \E leaves \in BOOLEAN : Type(r, leaves)
  \/ \E m \in Msgs : HelperRuns(m)

Next == Supervisor \/ Clients \/ Natives \/ Crash
Spec == Init /\ [][Next]_vars

\* run_loop drains after every request, so delivery_tick is reached again and
\* again however many requests arrive; what it has begun it finishes.
Fairness ==
  /\ SF_vars(TickBegins) /\ WF_vars(PassStep) /\ WF_vars(DirectAttempt)
  /\ WF_vars(NextDurableJob) /\ WF_vars(ReservationSaved)
  /\ WF_vars(Launch) /\ WF_vars(Reply)
  /\ \A m \in Msgs : SF_vars(Reap(m))
FairSpec == Spec /\ Fairness

----------------------------------------------------------------------------
(* Properties.                                                               *)

Servers == [
  pc : {"idle", "pass", "direct", "saving", "launch", "reply"},
  op : {"none", "tick", "send", "deliver", "card", "tool"},
  caller : Runs \union {None}, m : 0..MaxMsg, run : Runs \union {None},
  conv : Convs \union {None}, rest : SUBSET Msgs, start : Nat, left : 0..2,
  touched : BOOLEAN, stray : BOOLEAN ]
Hooks == [event : Events \union {"none"}, conv : Convs \union {None}, settled : BOOLEAN]
Helpers == [st : {"none", "running", "ok", "bad"},
            run : Runs \union {None}, conv : Convs \union {None}]
Adapters == [st : {"unused", "replied", "printed", "confirmed", "gone"},
             run : Runs \union {None}, ids : SUBSET Msgs]
Notices == [msg : Msgs, run : Runs \union {None}, conv : Convs \union {None}]
Replies == [key : (Workspaces \union {None}) \X (Convs \union {None})
                    \X (Requests \union {None}),
            msg : Msgs]

\* Every variable keeps its type.
TypeOK ==
  /\ mail \in Mail /\ disk \in Mail /\ records \in BOOLEAN
  /\ life \in [Runs -> {"unborn", "live", "dead"}]
  /\ talk \in [Runs -> Convs \union {None}]
  /\ hook \in [Runs -> Hooks]
  /\ focus \subseteq Runs /\ typed \in [Runs -> BOOLEAN]
  /\ srv \in Servers /\ jobs \subseteq Msgs /\ cursor \in Nat
  /\ helper \in [Msgs -> Helpers]
  /\ nqueue \subseteq Notices
  /\ adapter \in [Leases -> Adapters]
  /\ expired \subseteq Leases
  /\ wakes \in [Msgs -> Nat] /\ told \subseteq Msgs /\ replies \subseteq Replies
  /\ faults \in Nat /\ crashes \in Nat

\* No message ever starts two queue helpers, whatever saves fail and however
\* often the supervisor crashes: an uncertain attempt is never replayed.
WokenAtMostOnce == \A m \in Msgs : wakes[m] <= 1

\* By the time a helper starts, the reservation is on disk, and it stays there
\* as an attempt: what a restart loads never makes the message pending again.
ReservedBeforeLaunch ==
  \A m \in Msgs : wakes[m] > 0 =>
    disk[m] # None /\ disk[m].outcome \in WakeOutcomes

\* Two unseen handoffs never share a run or a recipient conversation, neither in
\* memory nor in what a restart loads.
OneHandoffAtATime ==
  \A store \in {mail, disk} : \A m, k \in Saved(store) :
    (m # k /\ Outstanding(store[m]) /\ Outstanding(store[k])) =>
      /\ store[m].run # store[k].run
      /\ ~(store[m].to = store[k].to /\ store[m].at = store[k].at)

\* An acknowledgement reported to its caller is in memory and on disk for good.
ReportedAckStays ==
  \A m \in told : /\ mail[m] # None /\ mail[m].acked
                  /\ disk[m] # None /\ disk[m].acked

RequestKey(store, m) == <<store[m].from, store[m].sender, store[m].request>>

\* One message per (workspace, sender conversation, request_id) on disk, and every
\* reply for that request named it: a retry after a lost reply sends nothing twice.
OneMessagePerRequest ==
  /\ \A m, k \in Saved(disk) :
       (m # k /\ disk[m].request # None) => RequestKey(disk, m) # RequestKey(disk, k)
  /\ \A x \in replies : disk[x.msg] # None /\ x.key = RequestKey(disk, x.msg)

\* hook-emitted is recorded only for a notice its adapter did print.
EmittedWasPrinted ==
  \A m \in Saved(mail) : mail[m].outcome = "hook-emitted" =>
    \E l \in Leases : /\ mail[m].lease = l
                      /\ adapter[l].st \in {"printed", "confirmed"}
                      /\ m \in adapter[l].ids

\* A message is on a second hook notice only after the first one's lease is over.
OneNoticeHolder ==
  \A k, l \in Leases : (k < l /\ adapter[k].ids \intersect adapter[l].ids # {}) =>
    k \in expired

Kept(old, new) ==
  /\ new # None
  /\ old.acked => new.acked
  /\ old.native => new.native
  /\ old.outcome \in WakeOutcomes \ {"queue-prepared"} => new.outcome \in WakeOutcomes

\* A saved message, its acknowledgement, its surfacing and the outcome of its wake-up
\* are never forgotten by a step of the system, a crash and restart included.
NothingForgotten ==
  [][\A m \in Saved(mail) : Kept(mail[m], mail'[m])]_vars

Launched(m) == wakes'[m] > wakes[m]

\* A queue helper is started only for unhandled mail and only towards a live run of
\* the addressed workspace that is then in the bound conversation.
WakeReachesBoundChat ==
  [][\A m \in Msgs : Launched(m) =>
       \E r \in Runs : /\ helper'[m].run = r /\ helper'[m].conv = talk[r]
                       /\ r \in CodexAt(mail[m].to)
                       /\ ForConversation(mail[m], talk[r])
                       /\ ~mail[m].acked /\ ~mail[m].native]_vars

\* No queue helper is started for a run whose user typed since the reservation
\* began to be saved, or whose composer is not empty.
NoLaunchOverInput ==
  [][\A m \in Msgs : Launched(m) => ~srv.stray /\ ~typed[helper'[m].run]]_vars

\* Mail bound to a conversation is surfaced natively only while one run, and only
\* one, of the addressed workspace is proved to be in that conversation.
BoundMailStaysInItsChat ==
  [][\A m \in Saved(mail) :
       (mail'[m].native /\ ~mail[m].native /\ mail[m].conv # None /\ crashes' = crashes) =>
         \E r \in CodexAt(mail[m].to) :
           /\ talk[r] = mail[m].conv
           /\ \A q \in CodexAt(mail[m].to) \ {r} : talk[q] \notin {None, talk[r]}]_vars

\* A message a recipient could be woken for, all other conditions lasting, is
\* eventually attempted (or read): no other mail starves it.
Wakeable(m) ==
  /\ mail[m] # None
  /\ \E r \in Runs :
       /\ MessageRecipient(mail[m], r) /\ Harness[r] = "codex" /\ r \notin focus
       /\ HookAllows(r) /\ talk[r] # None /\ ~typed[r]
       /\ ~HandoffOutstanding(m, r)
WakeableIsAttempted ==
  \A m \in Msgs : <>[](Wakeable(m) /\ crashes = MaxCrash) =>
                  []<>(mail[m] # None /\ ~Pending(mail[m]))

----------------------------------------------------------------------------
\* The mailbox implements its promise: what memory holds is what was promised.
Marked(P(_)) == {m \in Saved(mail) : P(mail[m])}
Promise == INSTANCE MailPromise WITH
  Size  <- MaxMsg,
  saved <- Cardinality(Saved(mail)),
  seen  <- Marked(LAMBDA e : e.native),
  acked <- Marked(LAMBDA e : e.acked),
  told  <- told,
  woken <- {m \in Msgs : wakes[m] > 0}
PromiseKept == Promise!Spec
=============================================================================
