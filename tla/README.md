# flere: TLA+ models

Flere is a terminal workspace for coding agents: one supervisor process owns the tabs (pseudo
terminals), the agents' native processes (Codex, Claude), the mail between workspaces, and a durable
record of all of it; frontends, hook adapters, worker hosts and an installer talk to it over a local
socket. This directory holds TLA+ models of its core, the TLC configurations that check them, and
proofs checked by TLAPS. Paths below are relative to `src/` of the repository
(`server/delivery.rs` is `src/src/server/delivery.rs`).

    tlc -workers 2 -config MCMailboxWake.cfg MCMailbox     # one run
    tlapm Mailbox_proofs.tla                               # the proofs

## 1. Inventory

### The parts, their state and their operations

| part | state it keeps | operations | what makes it correct |
|---|---|---|---|
| Mailbox delivery (`server/delivery.rs`) | receipts, leases, hooks, focus intervals, cursor, helper jobs | a delivery pass, an attempt, a hook, a notice, its confirmation, a helper's end | nobody is woken twice, or into a conversation or composer they did not expect; nothing is lost |
| Chat messages (`server/chat_messages.rs`) | messages bound to a native conversation | `send_chat_message`, recipients, who may see bound mail | one message per request; bound mail is shown to its conversation alone |
| Coordination (`server/coordination.rs`) | messages, decisions, checkpoints | `send_message`, decide, checkpoint | saved before reported |
| Inbox views (`server/context_view.rs`) | surfaced and acknowledged marks | read a page, acknowledge | a reported acknowledgement is durable |
| Hook adapter (`inbox_hook.rs`) | none; one process per native hook | ask, print, confirm | only what was printed is confirmed |
| Reactor (`server/reactor.rs`, `server/clients.rs`) | clients, PTYs, the input admitted during a save | service input while a durable job runs | input goes on during a save and the save's user learns of it |
| Worker dispatch (`server/dispatch.rs`, `native.rs`) | dispatches, their phase, run, epoch | prepare, start, cancel, report, host events, assignment | one worker per workspace, one start per dispatch |
| Record store (`record_store/`) | SQLite databases with a witness of the last commit | commit, reconcile, recover, import | a store whose commit is uncertain is not written again before it is reconciled |
| Activation (`server/storage.rs`) | manifest naming the active databases | stage, fence, publish | one authority at a time; a failure leaves the old one |
| State file (`workspace.rs`) | `state.json` | write temporary, rename, fsync | old or new, never a mixture |
| Refresh and update (`server/refresh.rs`, `install/activation.rs`) | last refresh notice, epoch | same-PID exec; an updater that watches it | the installed package is reverted only after a definite rejection |
| Package store (`install/store.rs`, `install/plan.rs`) | journal, receipt, plans | prepare, install, recover, restore, rollback | a crash leaves the old or the new package; a plan is carried out once |
| Coordinated update (`companion/src/coordinated.rs`, `src/ui/update.rs`) | a modal, worker threads, one call in flight, a retained plan | prepare, approve, install, restart, apply, acknowledge | what is approved is what was shown; both halves are updated or the plan says which is not |
| Close (`server/close.rs`, `close/`) | a request and a reply file for the program of a tab | probe, commit, cancel | nothing typed is lost; no process ends that was not verified |
| Transfers (`server/transfers.rs`, `attachments.rs`) | workers, their channels, cancellation, tickets | begin, commit, cancel | a cancelled transfer commits nothing; a worker that nobody waits for ends |
| Preferences (`server/preferences.rs`) | a pending value, a writer thread | set, poll, flush, retry | the last value is written; a failure is retried only on request |
| Editor cache (`editor/cache.rs`) | versions, pins | pin, collect | a pinned version is not collected |
| Restoration (`server/restore.rs`) | one attempt per durable tab | restore | no tab is restored twice |
| Terminal, UI, wire, OS, git, MCP, the rest of the companion, scripts | grids, frames | parsing, rendering, I/O | out of scope (pure I/O or sequential parsing) |

`PROJECT.json` lists every component with its source files and its status.

### How they interact

The supervisor is single-threaded: `run_loop` (`server.rs:1926`) polls its descriptors, serves what
is ready, then drains scoped requests and runs `delivery_tick`. A request is served to its end, with
one exception: during a durable job the reactor (`reactor.rs`) goes on serving terminal input and
frames. Processes run beside it and can die at any moment: native agents, worker hosts, the
*queue helper* that puts a notice in a Codex queue, the *hook adapter* that a native hook starts, the
programs in its tabs, which answer close requests through files, and *updaters*. Each is linked to
the supervisor by a message it may fail to send. Inside it, transfer threads share a lock (the gate)
and two channels each with the loop. A companion on the user's machine reaches a frontend of the
supervisor over SSH. Everything the supervisor
answers for is saved before it answers; `save_mailbox` swaps the new messages in, saves them and
swaps the old ones back on an error.

### Hard behaviour

* **save barrier**: the recipient's run, conversation and composer are checked, then a save runs
  during which the user may type, the agent may switch conversation or exit;
* **uncertain saves**: the rename precedes the directory's fsync, so a save that reported an error may
  be what a restart loads;
* **uncertain handoffs**: a crash, or a lost result, between reserving, starting the helper and
  recording its outcome;
* **late adapters**: a notice's lease ends, its messages go on a second notice, and then the first
  adapter confirms;
* **retries** after a lost reply, with the first message meanwhile read or its recipient gone;
* **uncertain launches**: a crash, or a failed save, between a worker's reservation, its host and the
  record of it; hosts that die, reports that get lost, workers that outlive the supervisor;
* **starvation**: a pass looks at sixteen candidates and four helpers run at a time;
* **unknown commits**: a database commit that reported an error may have happened, and what is read
  back may not survive a power loss;
* **interrupted installations**: an updater dies between any two writes, the supervisor fails or
  refuses the refresh, and the reply that says so is lost;
* **asynchronous consent**: a close that was withdrawn while the program decides to exit; an Enter
  that was typed on one screen and is read on the next; a pane that changes while a file is sent.

`PROJECT.json` lists each of these as a hazard at its line, with the properties that would catch it.

## 2. Plan

In the order of how much of the system's own logic they carry:

1. `MailRecords`, `Mailbox`, `MailPromise`, `Mailbox_proofs`, `MailboxSaves_proofs`: delivery, chat
   messages, inbox; each safety property and the refinement proved (done).
2. `Dispatch`, `DispatchPromise`, `Dispatch_proofs`: reservation of a worker, its host's events,
   failed saves and restarts; each property and the refinement proved (done).
3. `Storage`, `RecordsPromise`, `Storage_proofs`: the state file, its activation into a database,
   witnessed commits and their reconciliation, process deaths and power losses; each safety property
   and the refinement proved (done).
4. `Update`, `Update_proofs`: prepared plans, the installation lock, the journal and the judgement of
   a refresh, the direct commands `install`, `update` and its `--rollback` (done).
5. `Transfer`, `CloseTab` and their proofs: the claim of a commit against cancellation; consent of a
   program to be closed (done).
6. `Coordinated`, `Coordinated_proofs`: the companion's update across its own restart and its
   frontend's replacement; each safety property proved (done).
7. `Tabs`: restoration from the saved layout (`server/restore.rs`) with the editor cache, whose pins
   bridge a layout that is not saved yet.
8. `Preferences`, the limits of the hook ledger, decisions and checkpoints.
9. An abstract specification of `Update` as `MailPromise` is one of the mailbox. Every invariant and
   action property that a passing run checks is a theorem already; only the four liveness properties
   are not, because liveness and ENABLED are outside the prover's reach.

Modules are parameterised by CONSTANTS with named assumptions, have one action per operation, and
use no RECURSIVE operator, so that each can be proved about as well as checked.

## 3. The mailbox

### Modules

* `MailRecords`: the saved message, and the predicates and updates of it (`Pending`, `Outstanding`,
  `ForConversation`, `SameRequest`, `Receipt`, `Resolve`).
* `Mailbox`: the supervisor, its clients, native runs, hooks, helpers and crashes.
* `MailPromise`: what users may rely on; `Mailbox` refines it (`PromiseKept`).
* `MCMailbox`: constants for TLC. `Mailbox_proofs` and, built on it, `MailboxSaves_proofs`: theorems.

### State and code

| variable | code |
|---|---|
| `mail`, `disk` | `Coordination.messages` in memory; what a restart would load |
| `srv` | where the supervisor is in `try_delivery`, `delivery_tick` or `command_inner` |
| `jobs`, `helper` | `delivery_jobs`; the helper processes, which outlive a crash |
| `cursor` | `delivery_cursor` |
| `life`, `talk`, `typed` | native processes: alive, the conversation `/proc` proves, the composer |
| `hook`, `focus` | `hooks` and `focus` entries of the live epoch |
| `adapter`, `expired` | hook adapters and their leases, numbered in order |
| `records` | the record database is active |
| `wakes`, `told`, `replies` | history only: what was started and reported |

An operation that the supervisor finishes without serving anyone else is one action. `try_delivery`
is three: `Attempt` evaluates its guards, the save is `NextDurableJob` and `ReservationSaved` (or
`ReservationFails`), and `Launch` or `LaunchRefused` is the recheck after it. `srv.pc = "saving"`
is the only place where natives, and `Type` above all, interleave with an unfinished operation in
the code; the model also lets them run between an operation's other steps, where they are in fact
independent processes. `srv.touched` is `reactor.save_input`, which every durable job clears;
`srv.stray` is the same without the clearing, kept only to state a property.

### Abstractions

* A message is its position in the saved order. Bodies, ids, times and sizes are left out.
* The receipts `deferred`, `activation-required`, `target-unavailable`, `waiting-*` are one outcome,
  `waiting`: each leaves the message pending and only their wording differs. The code skips a save
  that changes neither outcome nor detail; the model may repeat it.
* A process's conversation and composer, which the code reads from `/proc` and the terminal grid, are
  `talk` and `typed`; they change at any time. Hooks are configured. `Settle` is the one second of
  quiet the code waits for after a boundary hook; `Interrupt` behaves as `Stop`, hooks such as
  PreToolUse as `UserPromptSubmit`.
* The epoch is implied: a crash ends every run.
* `Crash` is the supervisor's process dying; the disk keeps what was written. Power loss belongs to
  `Storage`.
* Left out: human previews, mail addressed to the human, archived workspaces, failures of the audit
  log, argument validation, retries with another body (errors without an effect), the limits of the
  hook ledger (see the hazards).
* The helper's native command and the adapter's stdout are external.

### Runs

Every run bounds messages, leases, failed saves and crashes, and `Stimuli` names the operations
that occur, so each run explores one question completely. `CHECK_DEADLOCK FALSE`: bounds run out and
every run may have exited.

| run | instance | what it checks |
|---|---|---|
| `Wake` | two runs that share a workspace with a third's mail, 2 messages, 2 jobs, one failed save, one crash; symmetric in runs | `WokenAtMostOnce`, `ReservedBeforeLaunch`, `OneHandoffAtATime`, `OneMessagePerRequest` |
| `Race` | two runs of one workspace, two conversations, one message, no failures; typing, switching, exits | `WakeReachesBoundChat`, `NoLaunchOverInput`, `BoundMailStaysInItsChat` |
| `Notice` | a Claude and a Codex run, two leases, a failed save, a crash | `EmittedWasPrinted`, `OneNoticeHolder`, `ReportedAckStays`, `NothingForgotten`, `PromiseKept` |
| `Fair` | two messages, one candidate per scan, one job, under `FairSpec` | `WakeableIsAttempted` |
| `Activation` | one run, one message, the save that activates the record database | `NoLaunchOverInput`, which is violated |

**Why these bounds.** Repeated waking, overlapping handoffs and duplicate requests need two messages and
two runs; a third would repeat one of the two roles. Races around one save need one message, a
sender, a second run of the workspace and a second conversation. A lease's ghost needs two leases
and one message. One failed save and one crash, at any step, give every combination of memory and
disk (a failure leaves either). Starvation needs one message ahead of another and a scan
shorter than the queue. The limits `MaxJobs` (4), `ScanLimit` (16) and `NoticeLimit` (8) are
constants, set low enough to be reached.

**Fairness.** `run_loop` drains after each poll and reaches `delivery_tick` on every iteration whatever
the requests (`server.rs:1926-1935`, `1892`), and it finishes what it started: weak fairness of each
step of an operation in progress. `TickBegins` and `Reap` are enabled only between operations, so
they are strongly fair. Nothing is assumed of agents, users, helpers or adapters: a helper that
never ends is killed after five seconds, which `Reap` includes. Saves do not fail for ever, a
consequence of `MaxFaults`. `Fair` has no typing: a user who types during each save
rightly keeps the agent from being woken.

**The finding.** `with_durable_job` clears `save_input` at each job (`reactor.rs:388`). An ordinary save
runs one job; the save that moves the records to the database runs three (`storage.rs:183, 201,
212`). What the user types in the first two is forgotten, so the recheck of `try_delivery`
(`delivery.rs:970`) can start a helper although the user typed, against the comment of
`reactor.rs:353`. `Activation` exhibits it; `Race` shows that the property holds otherwise.

### Proofs (`Mailbox_proofs`, `MailboxSaves_proofs`)

| theorem | for all constants |
|---|---|
| `Invariant` | `Spec => []IInv` |
| `TypeCorrect` | `Spec => []TypeOK` |
| `AtMostOneWake` | `Spec => []WokenAtMostOnce` |
| `ReservationFirst` | `Spec => []ReservedBeforeLaunch` |
| `AcknowledgementStays` | `Spec => []ReportedAckStays` |
| `MailIsKept` | `Spec => NothingForgotten` |

They rest on the assumptions of `MailRecords` and `Mailbox` only (the harness of each run, `None`
outside the other sets, natural bounds). The invariant:

    IInv == TypeOK /\ DiskFollows /\ WakesRecorded /\ ToldAcked /\ Working

`WokenAtMostOnce` is not inductive: a step may start a helper for any message that `srv` has
reserved. `WakesRecorded` says that a woken message has a wake-up outcome both in memory and on
disk, hence is not pending; `Working` says that what the supervisor is about to launch is a message
with a saved reservation and no earlier wake-up; `DiskFollows` relates the disk, which a failed save may leave
one change ahead of memory, to memory: neither holds less than the other of what matters. With them a
crash, which replaces memory by the disk, preserves `WakesRecorded` and `ToldAcked`.

`MailboxSaves_proofs` goes on from there to what every save preserves:

| theorem | for all constants |
|---|---|
| `SavesSound` | `Spec => []SInv` |
| `HandoffsApart` | `Spec => []OneHandoffAtATime` |
| `RequestsOnce` | `Spec => []OneMessagePerRequest` |
| `EmissionsPrinted` | `Spec => []EmittedWasPrinted` |
| `NoticesApart` | `Spec => []OneNoticeHolder` |
| `WakesReachTheirChat` | `Spec => WakeReachesBoundChat` |
| `InputIsRespected` | `~Activates` implies `Spec => NoLaunchOverInput` |
| `BoundMailStays` | `Spec => BoundMailStaysInItsChat` |
| `PromiseHolds` | `Spec => PromiseKept`: `Mailbox` implements `MailPromise` |

    SInv == IInv /\ Stores /\ Attempting

`Stores` says one thing, `Sound`, of two stores: memory and what a restart would load. A store is sound
when its messages are saved in order, no two answer one request, no two unseen handoffs share a run or a
conversation, and its notices agree with the adapters: an emitted one was printed, a running lease still
holds its messages unless they were seen. None of it is inductive for memory alone, since a crash
replaces memory by the disk; and it does not carry over to the disk from `DiskFollows`, which lets the
disk hold any change that keeps what was promised. What carries it is the shape of a save: each version
that an action hands to `save` is `Modest`, it adds one message at the next position, or replaces
messages by versions without a new handoff or notice (`Amends`). Three actions are exceptions and have
lemmas of their own: the reservation, which makes a handoff, `HookNotice`, which makes a notice under a
new lease, and `Confirm`, which ends one. `Ahead` (a restart finds at most one message more than memory
holds, which nobody has seen) is what makes a crash a `Save` of the abstract mailbox, or a stutter.

`Attempting` is what the guards of `try_delivery` leave for the steps after the save: no handoff of the
same run or conversation is outstanding while the reservation is saved, and the message is unseen, for
that run's workspace and conversation until the launch. While a durable job runs no other request is
served, so both survive; that the run itself is alive, and still in the conversation, they do not say,
because it may not be: the recheck of `Launch` finds out, and the two action properties of `Race` follow
from `Attempting` and that recheck. `InputIsRespected` needs `~Activates`, as the finding above shows.

`PromiseHolds` maps each step to `Save` (one more message), `Handle` (more is seen, acknowledged or
reported), `Wake(m)` (only `Launch` starts a helper) or a stutter. The abstract counter of messages is
the cardinality of the saved positions; that positions saved in order are `1..n` is shown by taking the
least position that is not saved, with the library's theorem on well-founded relations.

Model-checked only: `WakeableIsAttempted` (liveness and ENABLED are outside the prover's reach), and
`NoLaunchOverInput` with `Activates`, which is violated.

## 4. Worker dispatch

A coordinator prepares an assignment for a workspace (`prepare_worker`) and starts it
(`start_worker`). The supervisor reserves the start durably, opens a tab with a *host* process, and
saves that it did. The host spawns the native worker, reports `started`, waits, reports `exited` (or
`failed`), and turns its tab into a shell. The worker reads its assignment (`get_context`) and
acknowledges it (`ack_assignment`).

### Modules

* `Dispatch`: the supervisor's records in memory and on disk, the hosts, their workers and tabs.
* `DispatchPromise`: dispatches are refused or launched, once, and run alone in their workspace.
* `MCDispatch`: constants for TLC. `Dispatch_proofs`: theorems.

### State and code

| variable | code |
|---|---|
| `ds`, `diskDs` | `coordination.dispatches` in memory; what a restart would load |
| `chats`, `diskChats` | workspaces whose `meta.conversations` is not empty, likewise |
| `epoch` | the supervisor's epoch |
| `srv` | where the supervisor is in `start_worker`: before the spawn, or before the second save |
| `runs` | runs given out; a run is its number, for the session and the nonce of the code |
| `tab` | the tab of a run: its workspace, its dispatch, whether it still hosts a native process, whether it exists |
| `host`, `child` | the host process (`native.rs`, `host`) and the native process it spawned |
| `spawns`, `refused`, `replies`, `acker` | history only: what was started and reported |

`Commits` and `CommitFails` are `save_dispatches`: a failed save restores the memory and may or may not
have replaced the file (`workspace.rs`, `atomic_write`). Every operation is one action, except
`start_worker`, which is `StartWorker` (recheck and reservation), `Spawn` (`write_spec` and
`spawn_native`) or `SpawnFails`, and `Hosted` (the second save), because a crash and the host's own
steps can come between them. The host is one process and waits for each reply, so its reports are
not reordered, but each can be refused or lost (`let _ =` in `native.rs`).

### Abstractions

* A dispatch is its position in the saved order; assignment, request text, argv and times are left
  out. A coordinator and its `request_id` are one key.
* The recheck of `start_worker` is `NoNativeWork` and the epoch; directory, inode, branch, issue, base
  and argv are left out, as is the authority of the caller. A refused operation changes nothing and
  is no action.
* `HumanStart` stands for every native process nobody dispatched: a manual start, a resume, a
  restored tab. `Observe` is a conversation the supervisor discovers in a native tab.
* A refresh saves everything and loads it again under the same epoch: `OtherSave`. A restart is
  `Crash`, at any step, with a new epoch; tabs are gone, hosts die with their terminals, and each
  worker may survive. What it loads is what is on disk.
* Left out: the audit log's failures, tab capacity, and the views of record mode.

### The run

`Dispatch`: two requests (symmetric) for one workspace, two runs, two failed saves and a crash, all
interleavings of the supervisor, the hosts, the workers and a human. It checks
`StartedOnce`, `OneWorkerPerWorkspace`, `RefusedStaysUnlaunched`, `OneDispatchPerRequest`,
`AcknowledgedByItsWorker`, `PhaseNeverReturns` and `DispatchPromiseKept`. Every property is about two
dispatches of one workspace, two runs of it, or one dispatch twice; two failed saves let a failed
reservation be followed by a failed repetition or record; one crash separates what was loaded from
what was saved. The run with three runs has no errors either (4.4 million states, too
long to keep); the theorems cover every number. `CHECK_DEADLOCK FALSE`: bounds run out.

There is no liveness property: a dispatch whose outcome is unknown holds its workspace for ever, by
design (`DESIGN.md`, "An uncertain reservation survives restart and prevents automatic
replacement"), and hosts and workers may do nothing.

### Proofs (`Dispatch_proofs`)

| theorem | for all constants |
|---|---|
| `Invariant` | `Spec => []IInv` |
| `TypeCorrect` | `Spec => []TypeOK` |
| `NeverStartedTwice` | `Spec => []StartedOnce` |
| `WorkersNeverMeet` | `Spec => []OneWorkerPerWorkspace` |
| `RefusalStands` | `Spec => []RefusedStaysUnlaunched` |
| `RequestsAreIdempotent` | `Spec => []OneDispatchPerRequest` |
| `AckIsTheWorkers` | `Spec => []AcknowledgedByItsWorker` |
| `PhasesOnlyAdvance` | `Spec => PhaseNeverReturns` |
| `PromiseIsKept` | `Spec => DispatchPromiseKept` |

They assume only that `None` is no workspace, key or dispatch and that the bounds are natural
numbers. The invariant says the same (`Good`) of the store in memory and of the store on disk, because a
crash may replace one by the other: no two dispatches hold a workspace, share a request or a run;
the dispatch of each worker, or of a host that has still to report, is in a launching phase, names
that run and holds the tab's workspace; launches, refusals, replies and acknowledgements are
recorded. `Advances` says that the disk is never behind the memory, which makes
`PhaseNeverReturns` hold across a crash. `Starting` says that between reservation and spawn both
stores agree and nothing runs in the workspace. `Held` counts hosts that have still to report, not
workers alone: without them an `exited` report could come after the dispatch was over.
`Saves` proves once, for any change of one dispatch, that a save keeps all this whether it succeeds
or fails; each action's lemma gives it the change the action makes. The refinement maps launches to
`spawns`, and a workspace's running dispatches to those of its workers; only `Spawn` launches, only a
reported refusal refuses, and every other step ends workers or stutters.

## 5. Saved state and its activation

`persist` (`server.rs`) saves the supervisor's state: into one JSON file while its image fits 8 MiB;
the first oversized save *activates* a database: it imports the file as it was read, commits the new
image there, and replaces the file by a manifest that names the database. From then on a save is a
*witnessed commit* (`record_store/witness.rs`): a transaction that also writes a witness row; when
COMMIT reports an error, the database is opened again, searched for the witness, and a further commit
makes what was found durable. A save whose outcome stays unknown takes `Storage` out of service.

### State and code (`Storage`)

| variable | code |
|---|---|
| `file`, `fileMay` | `workspaces.v2.json`: what a process reads; what a power loss may leave |
| `db` | each database directory: `found`, what the next open may find, and `may`, what a power loss may leave |
| `up`, `mem` | the process, and the records it answers from |
| `serving`, `unresolved` | the database of its `Storage`; `Storage.unresolved` |
| `save` | the save under way and the step it is at |
| `report` | what each client was last told |
| `exposed` | history: a manifest was loaded that a power loss could still undo |

`atomic_write` is `Rename` and `DirectorySynced`, or `WriteFails` at either step; `publish_marker` and
`fence_marker` are the same for a manifest, then `FenceMarker` or `FenceFails`. `import_json` and
`stage` are `Import`; `commit` is `Commit` with its four ends `Committed`, `CommitUnchanged`,
`CommitUncertain`, `OutcomeLost`; `reconcile` is `Reopen` and `Barrier`. `Crash` keeps what processes
see, `PowerLoss` picks one of `may`.

### Abstractions

* An operation adds one record and saved state is a set of records; each is asked again until it is
  reported saved. Rows, queries, retention and the read-only views are left out.
* Changes of the file by outsiders are not modelled, so a load reads the newest content of it.
* A later save that syncs the directory makes an earlier unsynced one durable. Hence a failure in JSON
  mode (`failed`) may resurface after a restart, by design, and a retry then finds its record
  (`found`); a failure in database mode (`rejected`) may not. So may any other write in the directory,
  of `ui.json` for instance, which the preferences' thread or the frontend makes: `OthersSync`.
* `exposed`: `load` (`storage.rs:65`) does not sync the manifest it reads. If the process died between
  the rename of the manifest and the directory's fsync, a later power loss could bring the JSON file
  back after records were saved in the database. The invariants exclude these histories; the hazard
  list names the line.

### Run and proofs

`Storage`: three operations (symmetric) of which one fits, two databases, three errors, three deaths.
One record before activation, one that activates, one after it; two preparations let a first one fail
and leave its directory; three errors let a commit fail, its reconciliation fail, and the marker's
write fail. It checks `SavedSurvives`, `FailureStands`, `RecordsMatchMemory`, and that `Storage`
implements `RecordsPromise` (`RecordsKept`). There is no liveness: storage out of service stays so
until a restart, by design.

| theorem (`Storage_proofs`) | for all constants |
|---|---|
| `Invariant`, `TypeCorrect` | `Spec => []IInv`, `Spec => []TypeOK` |
| `WhatIsSavedSurvives` | `Spec => []SavedSurvives` |
| `RejectionIsFinal` | `Spec => []FailureStands` |
| `MemoryIsTheDatabase` | `Spec => []RecordsMatchMemory` |
| `RecordsStay` | `Spec => RecordsKept`: `Storage` implements `RecordsPromise` |

    IInv == TypeOK /\ Working /\ Disk /\ Current /\ Prepared /\ Matches /\ Safe /\ Rejected

`SavedSurvives` speaks of what a power loss may leave now; it is kept because a database in preparation
holds at least `mem` in each of its futures (`Prepared`), the file is ahead of memory by one failed
save at most (`Current`), so the image that the import reads loses nothing, and a database in service
differs from `mem` by the one record being saved (`Matches`). `Disk` says that all manifests the file
may hold name the same database.

`RecordsPromise` has two variables. `kept` is what the supervisor, if it runs, answers from and every
restart would bring up (`Durable`); memory has a part in it because another file's sync can make an
image durable whose save was reported failed, and the next save writes the file from memory again.
`open` is what some restart would bring up besides (`Doubtful`). A step of the program may *attempt*
one record that was in neither set, or *settle*: move records from `open` to `kept` or out, and lose
nothing that was kept. No history is excepted here. The proof compares the states that the disk may
be left in (`Futures`) before and after a step: a rename and a commit add one, that of memory with
the record being saved (`OneMoreFuture`); every other step leaves some of them, at least one
(`FewerFutures`), and memory goes on, or is what a new process found in one of them (`MemoryGoesOn`).

## 6. Update

`flere update` retains packages and prepares a *plan*: the wanted package and the identity of the
running supervisor. A helper applies it: it locks the plan, marks it as being applied, installs the
package under the installation lock, asks the supervisor to replace itself, and judges the outcome
from two separate requests, the identity and the last refresh notice. After a definite rejection
it restores the previous package. A direct command does the same without a plan: `flere install`
asks no supervisor, `flere update` the one that runs, if any, and `flere update --rollback` installs
the package that the receipt keeps.

### State and code (`Update`)

| variable | code |
|---|---|
| `command` | `~/.local/bin/flere`: a package, nothing, or a file that is no package |
| `receipt`, `pending` | the installation receipt; the journal of a replacement (`store.rs:48`) |
| `txn` | the holder of the installation lock, and where it is in `recover`, `status`, `replace` |
| `plan` | retained plans: `prepared`, `applying`, `done`; a `command` has one of its own, which stands for what it wants and is no file |
| `upd` | a helper or a direct command: where it is in `execute` and `activate`, what it read, the attempt it made |
| `sup` | the supervisor: alive, epoch, the package it runs, the refresh it has accepted, its last notice |
| `attempts`; `was`, `tries` | attempts named so far; history |

Every write that a death may separate from the next is its own action: `Journal`, `Check`, `Place`,
`WriteReceipt`, `Clear`, `Recover`, `Unjournal`. `TurnOver` says that a refresh is carried out at
the end of the very turn that accepted it, so no other request is answered in between; asking
(`Ask`), the identity (`Watch`) and the notice (`SeesApplied`, `SeesFailed`) are separate turns, between
which other clients may refresh, the notice may be overwritten (`OtherNotice`), and the supervisor may
stop and start with another epoch.

### Abstractions

* An attempt is a number, for the random token of the code. `Stamp` is the build metadata, the only
  part of a package that a supervisor's identity shows.
* Where a package comes from is left out: an installation of the package that is there already either
  keeps its attempt or names a new one (`Joins`). So are the flags `--if-missing` and `--adopt`: a direct
  command may refuse whatever one of them would refuse (`Refusable`).
* Left out: verification of packages, plan expiry, ownership checks of the command, and the comparison
  of the tabs before and after (a further reason to judge `rejected = FALSE`).
* `MaxDeaths` bounds the deaths and I/O errors of updaters, `MaxMishaps` outsiders, foreign refreshes and
  restarts together.

### Runs and proofs

`Update`: two updaters (symmetric), a plan and a direct command, two packages with their own stamps, three
attempts, two deaths and one mishap. Two helpers may take one plan, or a helper a plan while the command
installs, updates or rolls back, which is what the locks are for; three attempts are an installation,
another's and a restoration; two deaths are one inside the recovery from the other. It checks
`Recoverable`, `PreviousIsReal`, `PlanInstalledOnce`, `RevertsOnlyRejected`.

`UpdateSameMetadata`: one helper whose package shares its stamp with the one that runs. `activate` takes an
error reply for a definite rejection, but the supervisor answers an accepted refresh with an error
when the layout cannot be saved after it (`server.rs:765`); nothing then tells the packages apart, and
the previous package is put back under a supervisor that runs the new one, against the comment of
`restore_rejected` (`store.rs:640`). The run violates `NoDowngradeAfterSuccess`.

| theorem (`Update_proofs`) | for all constants |
|---|---|
| `Invariant`, `TypeCorrect` | `Spec => []IInv`, `Spec => []TypeOK` |
| `DiskIsRecoverable` | `Spec => []Recoverable` |
| `PreviousIsTrue` | `Spec => []PreviousIsReal` |
| `InstalledOnce` | `Spec => []PlanInstalledOnce` |
| `OnlyRejectedReverted` | `Spec => []RevertsOnlyRejected` |

    IInv == TypeOK /\ Locked /\ Progress /\ Found /\ Previous /\ Attested /\ Applying /\ Origin

`Recoverable` is kept at each write because `Progress` ties the lock's holder to the journal and the
command, and `Found` says the same of a journal nobody holds. `PreviousIsReal` needs `Previous`: what
a journal would record if it were finished, and the receipt if it were dropped, are both true.
`RevertsOnlyRejected` needs `Attested`: attempts are named once, so a receipt that carries one's own
attempt names one's own package; and `Origin`: the supervisor runs what its last refresh asked for.

## 7. File transfers

Each transfer has a worker thread and two channels of one slot. The supervisor holds the gate during
a turn; a worker needs it for the moment in which it claims its commit and is told whether it was
cancelled. After each turn, transfers whose pane is no longer selected are retired.

### State and code (`Transfer`)

| variable | code |
|---|---|
| `here`, `changes` | the selected pane with its session, run and revision; bound |
| `gate` | the mutex `gate`, held from a turn's begin to its end |
| `tr` | the entry of `transfers`: pending, leaving in this turn, retired; `busy` as in the code |
| `wk` | the worker thread: where it is in `worker`, and the result it has to send |
| `job`, `out` | the slots of the two channels |
| `stop`, `committing` | the atomics `cancelled` and `committing` |
| `partial`, `published` | the staging file, the destination |
| `pasted`, `left` | history: the path was typed into the chat; the origin was left |

`Begin`, `Change`, `Give`, the `Poll` actions and `Cancel` begin a turn and take the gate; `TurnEnds` is
`expire_file_transfers` and its release. `CancelForRefresh` and `Exec` are the part of `refresh::replace` that
waits for workers.

### Abstractions

* One change of the selection per turn; validity of a transfer is "its origin is selected".
* A job is given only to a worker that is not busy, so `try_send` never finds the slot full.
* Removing the staging file, when a Sink is dropped, succeeds. A dying supervisor leaves staging files
  behind, as the code does; the model has no crash.
* Slots bound the transfers that occupy one; with two transfers the limit does not bind.
* Clipboard images and their tickets, and what a download reads, are left out.

### Run and proofs

`Transfer`: two transfers, attachments or downloads, two places, two changes of the selection, so that
a pane may be left and come back. It checks `PasteFollowsOrigin`, `NoOrphanStaging`, `ClaimedInOrigin`
and `EveryWorkerEnds`. Fairness: turns end (`WF` of `TurnEnds`), workers run and the file system answers
(`WF` of `Worker`), and a worker that waits for the gate gets it (`SF` of `Claim`: turns leave gaps, as
the loop waits in `poll` without the gate).

| theorem (`Transfer_proofs`) | for all constants |
|---|---|
| `Invariant`, `TypeCorrect` | `Spec => []IInv`, `Spec => []TypeOK` |
| `StagingHasWorker` | `Spec => []NoOrphanStaging` |
| `PastedAtHome` | `Spec => []PasteFollowsOrigin` |
| `ClaimedAtHome` | `Spec => ClaimedInOrigin` |

The invariant adds `Booked` (between turns no pending transfer is stale, a retired one has its flag
set) and `Answered` (a result `finished` was sent by a worker that published). `EveryWorkerEnds` is
model-checked only, being liveness.

## 8. Closing a tab

The supervisor never signals a program. It writes a *probe* into the tab's request file; the program's
own hook (bash, zsh, Vim, Neovim) judges whether it could exit without loss and answers in a reply
file; the supervisor verifies the children named there and writes a *commit*; the program judges again,
looks once more whether the request is still there, and exits.

### State and code (`CloseTab`)

| variable | code |
|---|---|
| `pend`, `checks` | the entry of `close_pending`; the last token |
| `queue`, `keys`, `since` | `tab.input`; keys accepted; history: those accepted since the commit |
| `request`, `wake`, `reply` | the two files and the pipe that wakes a shell |
| `prog`, `unread`, `dirty`, `jobs`, `last` | the program: its hook, keys it has not read, unsaved work, its children, the last token an editor took |
| `ended` | history: children that ran when the program exited |

`Tick` is `close_tick`; `Input`, `LiteralPaste`, `Cancel`, `Check` the commands; `ShellWakes`, `EditorTimer`,
`Look`, `Exit`, `RefusesToQuit` the hooks.

### Abstractions

* One tab. Programs are two kinds: a shell that answers between keys and an editor that answers from
  a timer; Vim's hook differs from Neovim's in the list of children it reports only.
* A shell lists all its jobs; disowned ones outlive it. The verification of the process tree is atomic.
* Deadlines and expiry are flags set at any moment in their order.
* The last look tests that a request is there, as the hooks do, not that it is the same one; hence
  "unless the tab was asked to close again" in `WithdrawnStays`. Keys accepted after the commit was
  published may be lost, as the code accepts.
* `keys` are what the supervisor accepted, `unread` what the program has not read. Neovim's `getchar(1)`
  cannot see keys that its TUI process still holds; the hook's condition, modelled as `unread = 0`,
  takes these for read.
* An iteration of `run_loop` reaches `close_tick` when `drain_scoped` does not return early. A record
  storage that stays unavailable for ever (`server.rs:1829`) is left out by the fairness of `Tick`.

### Run and proofs

`CloseTab`: a shell or an editor, two checks, two keys, a helper and another child; two checks make a
withdrawn and a repeated close overlap. It checks `NothingTypedIsLost`, `OnlyHelpersEnd`, `WithdrawnStays`
and `EveryCheckDecides`, the last under fairness of time and of the tick alone: nothing is assumed of
the program or the user.

| theorem (`CloseTab_proofs`) | for all constants |
|---|---|
| `Invariant`, `TypeCorrect` | `Spec => []IInv`, `Spec => []TypeOK` |
| `TypedIsKept` | `Spec => []NothingTypedIsLost` |
| `HelpersOnly` | `Spec => []OnlyHelpersEnd` |
| `WithdrawnHolds` | `Spec => WithdrawnStays` |

The invariant adds `Entry` and `Asked` (a request belongs to the last check, a commit to an active entry
whose queue was empty) and `Going` (a program on its way out has nothing unsaved and owes only keys
accepted after the commit). `EveryCheckDecides` is model-checked only.

## 9. Coordinated update

The companion runs on the user's machine and shows a remote frontend over SSH. Its update prepares
packages for both sides in worker threads, which call the remote frontend through one channel and one
call in flight; on approval it installs its own package, restarts into it, has the core apply its plan,
and waits for the replaced frontend's acknowledgement. The retained plan says how far it got.

### State and code (`Coordinated`)

| variable | code |
|---|---|
| `proc` | the companion process: up, starting or off, the package it runs, the attempt to acknowledge, the plan to resume |
| `flow`, `key` | the modal `Flow` and its phase; an Enter typed and not yet read |
| `link` | `owner_capable`, `connected`, `update_pending` |
| `workers`, `chan`, `slot` | worker threads, the request channel, the call in flight |
| `file`, `local` | retained plans; the companion's own receipt |
| `front`, `up`, `down` | the remote frontend and the packets of the connection |
| `core` | remote plans begun and applied |
| `approved` | history: plans applied by Enter, with the plan on screen when it was typed |
| `seen` | history: the receipt that the check of an acknowledgement last approved |

A worker's call is `Request` (`ensure_current`, the channel), `Dequeue` (`tick`), `Serve` and `Answer` (the
frontend and its helper), `Read`, and `Receive`, each of which may come after the flow that started it
was closed: `valid` is the comparison of generations.

The installation lock is held inside `install_prepared_guarded` and inside `verify_applied` only; the saves
of the plan that follow are made without it, and are steps of their own. So `apply` is `Install`, `Record`,
`Verify` and `Begin`, and the acknowledgement is `ReadAck` (the check) and `SaveOutcome` (the save); another
window may install, or the companion end, between any two. `packet` does not return in between, so the
phases `verified` and `unverified` stop the other steps of the event loop (`Turns`), not the workers. Each
save may fail, before or after it replaced the file.

### Abstractions

* Only Enter is delayed between typing and reading; Escape, `a` and `r` act when read. The code stamps
  a key when its input thread reads it (`received`), which the model takes for typing: a key that waits in the
  terminal for that thread counts as typed when the thread reads it. The parsing of
  packets, bytes and pastes is left out; a call is one packet.
* "Nothing newer" is an error that the user closes. Read-only calls are one step. The companion's own
  store is `Installed` and a receipt: its journal is like the one `Update` models. An installation of the
  installed package keeps its attempt or, from another source, gets a new one.
* A lock that another window holds is an error at any time. A second call or activation, or another
  attempt's acknowledgement, ends the connection.
* Restart is `exec`, as on Unix; the Windows launcher is left out. The 1830 s timeout of a call is not
  needed, since the remote helper is killed after 1800 s. The helper of a call that nobody waits for
  any more may still apply its plan (`Orphaned`).
* Any number of the frontend's draws and outputs count as the one that is awaited.

### Run and proofs

`Coordinated`: two packages, two plans, two workers, two preparations and one mishap, at any step: a
replaced frontend, an installation by another window, or the end of the companion; 700 thousand states.
(Two mishaps, 3 million states, show no violation of the safety properties either.) It checks `ApprovedAsShown`, `CoreFollowsCompanion`, `AppliedMeansAll` and `EveryFlowSettles`. Fairness:
the event loop turns, workers run, the frontend serves, and its helpers answer, because they are killed
otherwise; nothing is assumed of users.

`AppliedMeansAll` is about what the code knows when it calls a plan applied: the core applied it, this process
runs its package, and the check of the acknowledgement found it installed by the plan's own attempt
(`seen`). Since the lock is free again before the save, another window's package may be installed by then;
no property claims otherwise. The property adds that a plan
that is applied or partial never changes again, although workers of closed flows may still be on their
way to a save.

`EveryFlowSettles` excepts `Stranded`: when the frontend is replaced between its first output
and its capability, `connected` is cleared and no timer runs (`coordinated.rs:919, 1020`), so the resumed
update stays at "applying" until the user quits.

| theorem (`Coordinated_proofs`) | for all constants |
|---|---|
| `Invariant`, `TypeCorrect` | `Spec => []IInv`, `Spec => []TypeOK` |
| `Approval` | `Spec => []ApprovedAsShown` |
| `CoreSecond` | `Spec => CoreFollowsCompanion` |
| `OneWorker` | `Spec => []Second` |
| `Completion` | `Spec => AppliedMeansAll` |

    IInv == TypeOK /\ Shown /\ Agreed /\ Alone /\ (\A w \in Workers : Duty(w)) /\ Calling /\ Acked
    Second == (\A k \in Plans : Solo(k)) /\ Confirmed

`ApprovedAsShown` rests on `Shown`: a fresh Enter has seen the plan under review, because whatever
changes the screen makes the key stale. `CoreFollowsCompanion` looks at the worker a call is sent for, and
that call passes through a channel while the flow may be closed, the companion restarted and another
plan prepared; `Duty` says what a worker's place in its program stands for (an approved plan, installed
once it is verified, running once it is to be applied) and that a worker which is still valid is the one
the flow waits for. It is kept by the workers that are stale too: a plan never loses its approval, its
package or its attempt (`Steady`). `AppliedMeansAll` rests on `Acked`: whatever acknowledgement is owed
or under way is of a plan that the core applied, and the core never takes an application back. That the
check is still right when its outcome is saved, and that nothing is saved after, is `Second`: `Solo(k)`
says that one worker at most acts on plan `k`, none while the flow has it (review, wait, check) or a worker
brings it there, and nobody once it is applied or partial; so `Confirmed`, what the check found, stays until
`SaveOutcome`. A worker acts on a plan only from `StartsApply` on, which takes it from a flow that has it
alone, or from a restart, after which there are no workers. Each
action has a lemma of its own; readers of packets share `ReadingKeeps`, the steps of the modal
`RestKeeps`. `EveryFlowSettles` is model-checked only.

## 10. Not modelled

* Tab restoration and the editor cache: next in the plan, see section 2.
* The limits of the hook ledger (`delivery.rs:427`), decisions and checkpoints, the preferences' writer:
  smaller state machines of the supervisor, in the plan.
* The terminal emulator, the user interface, parsing of git and GitHub output, MCP schemas, wire
  framing: sequential code without interleavings, large in lines and small in protocol, which its unit
  tests cover and which a transliteration into TLA+ would only repeat.
* SSH, ports, previews, package archives, operating system calls, scripts and packaging: pure I/O.
