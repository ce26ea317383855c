------------------------------ MODULE Transfer ------------------------------
(***************************************************************************)
(* File transfers: each has a worker thread with a job channel and a       *)
(* result channel of one slot.  The supervisor validates the origin pane   *)
(* and may cancel; the worker publishes the file after it claimed its      *)
(* commit under the gate that the supervisor holds for a whole turn.       *)
(* Source: src/server/transfers.rs, server.rs (command, drain),            *)
(* server/attachments.rs, remote_files.rs (Sink).                          *)
(***************************************************************************)
EXTENDS Naturals, FiniteSets

CONSTANTS
  Transfers,  \* tokens of transfers
  Kinds,      \* of "upload", "attach", "download"
  Slots,      \* workers at most, pending or cleaning up
  Places,     \* what the origin of a transfer may find selected
  MaxChanges  \* bound: changes of the selected pane

ASSUME TransferAssumption ==
  /\ Kinds \subseteq {"upload", "attach", "download"} /\ Places # {}
  /\ Slots \in Nat /\ MaxChanges \in Nat

VARIABLES
  here,       \* the selected pane, with its session, run and revision
  gate,       \* the supervisor is in a turn and holds the gate
  tr,         \* tr[t]: the supervisor's side of a transfer
  wk,         \* wk[t]: the worker thread
  job, out,   \* job[t], out[t]: the slot of each channel
  stop,       \* stop[t]: the flag cancelled
  committing, \* committing[t]: the commit is claimed
  partial,    \* partial[t]: the staging file exists
  published,  \* published[t]: the destination exists
  pasted,     \* history: pasted[t]: the path was typed into the chat
  left,       \* history: left[t]: the origin was left since the transfer began
  changes

server == <<here, gate, tr, pasted, left, changes>>
thread == <<wk, committing, partial, published>>
channels == <<job, out, stop>>
vars == <<server, thread, channels>>

\* A transfer that leaves has been answered; the turn goes on to retire it.
Idle == [st |-> "none", kind |-> "upload", origin |-> CHOOSE p \in Places : TRUE, busy |-> FALSE]
States == {"none", "pending", "leaving", "retired"}
Replies == {"data", "prepared", "finished", "error"}
Pcs == {"none", "opening", "opened", "reply", "recv", "chunk", "prepare", "commit", "publish", "ended"}

Init ==
  /\ here \in Places /\ gate = FALSE /\ changes = 0
  /\ tr = [t \in Transfers |-> Idle]
  /\ wk = [t \in Transfers |-> [pc |-> "none", result |-> "none"]]
  /\ job = [t \in Transfers |-> "none"] /\ out = [t \in Transfers |-> "none"]
  /\ stop = [t \in Transfers |-> FALSE] /\ committing = [t \in Transfers |-> FALSE]
  /\ partial = [t \in Transfers |-> FALSE] /\ published = [t \in Transfers |-> FALSE]
  /\ pasted = [t \in Transfers |-> FALSE] /\ left = [t \in Transfers |-> FALSE]

TypeOK ==
  /\ here \in Places /\ gate \in BOOLEAN /\ changes \in 0 .. MaxChanges
  /\ tr \in [Transfers -> [st : States, kind : Kinds \union {"upload"}, origin : Places, busy : BOOLEAN]]
  /\ wk \in [Transfers -> [pc : Pcs, result : Replies \union {"none"}]]
  /\ job \in [Transfers -> {"none", "chunk", "prepare", "commit"}]
  /\ out \in [Transfers -> Replies \union {"none"}]
  /\ stop \in [Transfers -> BOOLEAN] /\ committing \in [Transfers -> BOOLEAN]
  /\ partial \in [Transfers -> BOOLEAN] /\ published \in [Transfers -> BOOLEAN]
  /\ pasted \in [Transfers -> BOOLEAN] /\ left \in [Transfers -> BOOLEAN]

Valid(t) == tr[t].origin = here
Runs(t) == wk[t].pc \notin {"none", "ended"}
Occupied ==
  {t \in Transfers : tr[t].st \in {"pending", "leaving"} \/ (tr[t].st = "retired" /\ Runs(t))}

----------------------------------------------------------------------------
(* The supervisor.  A command or a drain takes the gate, does its work, and   *)
(* retires what is stale before it gives the gate back.                      *)

TurnBegins == gate = FALSE /\ gate' = TRUE
Leaves(t) == tr' = [tr EXCEPT ![t].st = "leaving"]

Begin(t, kind) ==
  /\ TurnBegins
  /\ tr[t].st = "none" /\ Cardinality(Occupied) < Slots
  /\ tr' = [tr EXCEPT ![t] = [st |-> "pending", kind |-> kind, origin |-> here, busy |-> TRUE]]
  /\ wk' = [wk EXCEPT ![t].pc = "opening"]
  /\ UNCHANGED <<here, changes, pasted, left, committing, partial, published, channels>>

\* A command, or a program's end, changes the selection, its session or its revision.
Change ==
  /\ TurnBegins /\ changes < MaxChanges /\ changes' = changes + 1
  /\ here' \in Places \ {here}
  /\ left' = [t \in Transfers |-> left[t] \/ (tr[t].st = "pending" /\ tr[t].origin # here')]
  /\ UNCHANGED <<tr, pasted, thread, channels>>

\* The next job, once the last one was answered.
Give(t, what) ==
  /\ TurnBegins /\ tr[t].st = "pending" /\ ~tr[t].busy
  /\ IF Runs(t) THEN /\ job' = [job EXCEPT ![t] = what]
                     /\ tr' = [tr EXCEPT ![t].busy = TRUE]
                ELSE Leaves(t) /\ UNCHANGED job
  /\ UNCHANGED <<here, changes, pasted, left, out, stop, thread>>

\* file-poll: what the worker sent decides.
TakesReply(t, reply) ==
  /\ TurnBegins /\ tr[t].st = "pending" /\ tr[t].busy /\ out[t] = reply
  /\ out' = [out EXCEPT ![t] = "none"]

PollData(t) ==
  /\ TakesReply(t, "data") /\ tr' = [tr EXCEPT ![t].busy = FALSE]
  /\ UNCHANGED <<here, changes, pasted, left, job, stop, thread>>

PollPrepared(t) ==
  /\ TakesReply(t, "prepared")
  /\ IF Runs(t) THEN job' = [job EXCEPT ![t] = "commit"] /\ UNCHANGED tr
                ELSE Leaves(t) /\ UNCHANGED job
  /\ UNCHANGED <<here, changes, pasted, left, stop, thread>>

\* An attachment's path is typed into its chat, unless the input queue is full.
PollFinished(t) ==
  /\ TakesReply(t, "finished") /\ Leaves(t)
  /\ \/ /\ tr[t].kind = "attach" /\ Valid(t)
        /\ pasted' = [pasted EXCEPT ![t] = TRUE]
     \/ UNCHANGED pasted
  /\ UNCHANGED <<here, changes, left, job, stop, thread>>

PollFails(t) ==
  /\ TurnBegins /\ tr[t].st = "pending" /\ tr[t].busy
  /\ out[t] = "error" \/ (out[t] = "none" /\ ~Runs(t))
  /\ out' = [out EXCEPT ![t] = "none"] /\ Leaves(t)
  /\ UNCHANGED <<here, changes, pasted, left, job, stop, thread>>

\* file-cancel: the answer says whether the commit was claimed.
Cancel(t) ==
  /\ TurnBegins /\ tr[t].st = "pending" /\ Leaves(t)
  /\ UNCHANGED <<here, changes, pasted, left, channels, thread>>

\* Mutant: a transfer is looked at only when its client asks.
NeverStale(t) == FALSE

Stale(t) == tr[t].st = "pending" /\ ~Valid(t)

\* retire drops both ends of the supervisor's side and sets the flag; idle transfers
\* may be retired too.
Retire(R) ==
  /\ tr' = [t \in Transfers |-> IF t \in R THEN [tr[t] EXCEPT !.st = "retired"] ELSE tr[t]]
  /\ stop' = [t \in Transfers |-> stop[t] \/ t \in R]
  /\ job' = [t \in Transfers |-> IF t \in R THEN "none" ELSE job[t]]
  /\ out' = [t \in Transfers |-> IF t \in R THEN "none" ELSE out[t]]

Pending == {t \in Transfers : tr[t].st = "pending"}

TurnEnds ==
  /\ gate /\ gate' = FALSE
  /\ \E idle \in SUBSET Pending :
       Retire({t \in Transfers : tr[t].st = "leaving" \/ Stale(t)} \union idle)
  /\ UNCHANGED <<here, changes, pasted, left, thread>>

\* Mutant: the process is replaced beside the workers it has just cancelled.
RetiredOnly == \A t \in Transfers : tr[t].st = "retired" => ~Runs(t)

AllEnded == \A t \in Transfers : ~Runs(t)

\* refresh::replace, between turns and without the gate: it cancels every transfer ...
CancelForRefresh ==
  /\ ~gate /\ Pending # {} /\ Retire(Pending)
  /\ UNCHANGED <<here, gate, changes, pasted, left, thread>>

\* ... and replaces the process, its threads with it, when every worker has ended.
Exec ==
  /\ ~gate /\ AllEnded /\ \E t \in Transfers : tr[t].st = "retired" \/ Runs(t)
  /\ wk' = [t \in Transfers |-> [pc |-> "none", result |-> "none"]]
  /\ tr' = [t \in Transfers |-> Idle] /\ stop' = [t \in Transfers |-> FALSE]
  /\ job' = [t \in Transfers |-> "none"] /\ out' = [t \in Transfers |-> "none"]
  /\ committing' = [t \in Transfers |-> FALSE] /\ pasted' = [t \in Transfers |-> FALSE]
  /\ left' = [t \in Transfers |-> FALSE] /\ published' = [t \in Transfers |-> FALSE]
  /\ UNCHANGED <<here, gate, changes, partial>>

----------------------------------------------------------------------------
(* A worker.  Dropping its Sink removes the staging file.                    *)

EndsThread(t) ==
  /\ wk' = [wk EXCEPT ![t].pc = "ended"] /\ partial' = [partial EXCEPT ![t] = FALSE]

GoesTo(t, pc, result) ==
  wk' = [wk EXCEPT ![t] = [pc |-> pc, result |-> result]] /\ UNCHANGED partial

Open(t) ==
  /\ wk[t].pc = "opening"
  /\ \/ /\ wk' = [wk EXCEPT ![t] = [pc |-> "opened", result |-> "data"]]
        /\ partial' = [partial EXCEPT ![t] = tr[t].kind # "download"]
     \/ GoesTo(t, "reply", "error")
  /\ UNCHANGED <<server, committing, published, channels>>

Opened(t) ==
  /\ wk[t].pc = "opened"
  /\ IF stop[t] THEN EndsThread(t) ELSE GoesTo(t, "reply", "data")
  /\ UNCHANGED <<server, committing, published, channels>>

\* Nobody receives any more: send and recv fail once the supervisor's ends are dropped.
Dropped(t) == tr[t].st = "retired"

\* Mutant: the supervisor's ends of a retired worker's channels are kept.
KeptOpen(t) == FALSE

Disconnected(t) == Dropped(t)

SendReply(t) ==
  /\ wk[t].pc = "reply"
  /\ \/ /\ ~Disconnected(t) /\ out[t] = "none"
        /\ out' = [out EXCEPT ![t] = wk[t].result]
        /\ IF wk[t].result \in {"finished", "error"} THEN EndsThread(t)
                                                     ELSE GoesTo(t, "recv", "none")
     \/ /\ Disconnected(t) /\ EndsThread(t) /\ UNCHANGED out
  /\ UNCHANGED <<server, committing, published, job, stop>>

Recv(t) ==
  /\ wk[t].pc = "recv"
  /\ \/ /\ job[t] # "none" /\ job' = [job EXCEPT ![t] = "none"]
        /\ IF stop[t] THEN EndsThread(t) ELSE GoesTo(t, job[t], "none")
     \/ /\ job[t] = "none" /\ Disconnected(t) /\ EndsThread(t) /\ UNCHANGED job
  /\ UNCHANGED <<server, committing, published, out, stop>>

Done == [chunk |-> "data", prepare |-> "prepared"]

\* The file system answers; the flag is looked at before the reply is sent.
Work(t) ==
  /\ wk[t].pc \in {"chunk", "prepare"}
  /\ \E result \in {"error", IF wk[t].pc = "prepare" /\ tr[t].kind = "download"
                                THEN "finished" ELSE Done[wk[t].pc]} :
       IF stop[t] THEN EndsThread(t) ELSE GoesTo(t, "reply", result)
  /\ UNCHANGED <<server, committing, published, channels>>

\* Mutant: the commit is claimed without the gate.
AnyTime == TRUE

GateFree == ~gate

Claim(t) ==
  /\ wk[t].pc = "commit" /\ GateFree
  /\ IF stop[t] THEN EndsThread(t) /\ UNCHANGED committing
     ELSE GoesTo(t, "publish", "none") /\ committing' = [committing EXCEPT ![t] = TRUE]
  /\ UNCHANGED <<server, published, channels>>

\* Linking the destination may fail; when removing the staging file fails after it, the
\* answer is an error too and dropping the Sink tries again.
Publish(t) ==
  /\ wk[t].pc = "publish"
  /\ \E linked \in BOOLEAN, result \in {"finished", "error"} :
       /\ result = "finished" => linked
       /\ published' = [published EXCEPT ![t] = linked]
       /\ wk' = [wk EXCEPT ![t] = [pc |-> "reply", result |-> result]]
  /\ partial' = [partial EXCEPT ![t] = FALSE]
  /\ UNCHANGED <<server, committing, channels>>

Worker(t) ==
  \/ Open(t) \/ Opened(t) \/ SendReply(t) \/ Recv(t) \/ Work(t) \/ Claim(t) \/ Publish(t)

Next ==
  \/ \E t \in Transfers :
       \/ \E kind \in Kinds : Begin(t, kind)
       \/ \E what \in {"chunk", "prepare"} : Give(t, what)
       \/ PollData(t) \/ PollPrepared(t) \/ PollFinished(t) \/ PollFails(t) \/ Cancel(t)
       \/ Worker(t)
  \/ Change \/ TurnEnds \/ CancelForRefresh \/ Exec

\* Turns end, the file system answers, and a worker that waits for the gate gets it.
Fairness ==
  /\ WF_vars(TurnEnds)
  /\ \A t \in Transfers : WF_vars(Worker(t)) /\ SF_vars(Claim(t))

Spec == Init /\ [][Next]_vars /\ Fairness

----------------------------------------------------------------------------
(* Properties.                                                               *)

\* A worker claims its commit only while its transfer is pending and its origin is
\* selected: after an answer "cancelled", or once the pane changed, nothing is published.
ClaimedInOrigin ==
  [][\A t \in Transfers : (committing'[t] /\ ~committing[t]) => (tr[t].st = "pending" /\ Valid(t))]_vars

\* A path is typed only after its file was published, and never once its origin was
\* left, though the same pane may be selected again.
PasteFollowsOrigin == \A t \in Transfers : pasted[t] => (published[t] /\ ~left[t])

\* A staging file has a worker that will remove or publish it; a refresh leaves none.
NoOrphanStaging == \A t \in Transfers : partial[t] => Runs(t)

\* A worker whose transfer is over ends, wherever it was: in a system call, at a full
\* channel, at an empty one, or waiting for the gate.  Its slot is free then.
EveryWorkerEnds == \A t \in Transfers : tr[t].st = "retired" ~> ~Runs(t)
=============================================================================
