----------------------------- MODULE Coordinated -----------------------------
(***************************************************************************)
(* A coordinated update.  The companion, the program on the user's own     *)
(* machine that talks to a remote frontend over SSH, updates itself and    *)
(* the remote core: worker threads prepare both packages and apply them,   *)
(* calling the remote frontend over the one connection; the companion      *)
(* installs its own package first, restarts into it, applies the core from *)
(* there, and is done when the replaced frontend acknowledges.  A retained *)
(* plan says how far it got.  Frontends are replaced, other windows        *)
(* install, and the companion ends, at any time.                           *)
(* Source: companion/src/coordinated.rs, update.rs, main.rs (the event     *)
(* loop), src/ui/update.rs and src/install/plan.rs (the other side).       *)
(***************************************************************************)
EXTENDS Naturals, Sequences, FiniteSets

CONSTANTS
  Packages, Old,  \* companion packages, and the one installed and running at first
  MaxPlan,        \* bound: plans retained
  MaxWorker,      \* bound: worker threads alive
  MaxStart,       \* bound: preparations started
  MaxMishaps,     \* bound: frontends replaced by others, installations by others and
                  \* ends of the companion, all together
  None

ASSUME CoordinatedAssumption ==
  /\ Old \in Packages /\ None \notin Packages \union Nat
  /\ MaxPlan \in Nat /\ MaxWorker \in Nat /\ MaxStart \in Nat /\ MaxMishaps \in Nat

Plans == 1..MaxPlan
Workers == 1..MaxWorker

VARIABLES
  proc,      \* the companion process
  flow,      \* the modal that owns an update, if one is open
  link,      \* what is known of this connection: owner_capable, connected, update_pending
  workers,   \* worker threads; valid: the generation is still theirs
  chan,      \* the worker whose request is in the channel, or 0
  slot,      \* the worker whose call awaits its reply, or 0
  key,       \* an Enter typed and not yet read
  file,      \* file[k]: the retained plan k
  local,     \* the companion installation's receipt
  front,     \* the remote frontend of this connection
  up, down,  \* packets from and to the frontend
  core,      \* remote plans begun and applied
  approved,  \* history: plans applied by Enter, and the plan on screen when it was typed
  seen,      \* history: the receipt that the check of an acknowledgement last approved
  started, mishaps

past == <<approved, seen, started>>
ui == <<flow, key, past>>
threads == <<workers, chan, slot>>
wire == <<front, up, down>>
vars == <<proc, link, ui, threads, wire, file, local, core, mishaps>>

NoFlow == [phase |-> "none", plan |-> None, job |-> 0, custom |-> FALSE]
Idle == [pc |-> "idle", io |-> "run", plan |-> None, base |-> 0,
         valid |-> FALSE, ans |-> "none"]
NoLink == [cap |-> FALSE, connected |-> FALSE, pending |-> FALSE]
Frontend(ack) == [greeted |-> FALSE, drew |-> FALSE, busy |-> None, act |-> None, ack |-> ack]
Packet(t, k, ok) == [t |-> t, k |-> k, ok |-> ok]

Greeted(ack) == [Frontend(ack) EXCEPT !.greeted = TRUE]
Probe == Packet("probe", None, "none")

Init ==
  /\ proc = [st |-> "up", pkg |-> Old, ack |-> 0, resume |-> None]
  /\ flow = NoFlow /\ link = NoLink /\ key = None /\ approved = {} /\ started = 0 /\ mishaps = 0
  /\ workers = [w \in Workers |-> Idle] /\ chan = 0 /\ slot = 0
  /\ file = [k \in Plans |-> [phase |-> "none", pkg |-> None, base |-> 0, attempt |-> 0]]
  /\ local = [attempt |-> 1, pkg |-> Old] /\ seen = local
  /\ front = Greeted(None) /\ up = <<>> /\ down = <<Probe>>
  /\ core = [begun |-> {}, applied |-> {}]

Up == proc.st = "up"

\* The event loop takes its next step; between the check of an acknowledgement and the
\* save that follows it, it is inside packet.
Turns == Up /\ flow.phase \notin {"verified", "unverified"}

----------------------------------------------------------------------------
(* Small pieces of the handlers.                                             *)

\* The frontend discards what reaches it before the reply to its own HELLO.
Sent(p) == IF front.greeted THEN Append(down, p) ELSE down

\* The generation moves on: no worker may call or advance the flow any more.
Invalidated(keep) ==
  [w \in Workers |->
     IF workers[w].pc = "done" /\ w # keep THEN Idle ELSE [workers[w] EXCEPT !.valid = FALSE]]

\* What was typed before the modal was last drawn does nothing.
Redrawn == IF key = None THEN None ELSE [key EXCEPT !.fresh = FALSE]

Free(ws) == {w \in Workers : ws[w].pc = "idle"}
Spawned(ws, w, pc, k) ==
  [ws EXCEPT ![w] = [Idle EXCEPT !.pc = pc, !.plan = k, !.valid = TRUE]]
Lowest(S) == CHOOSE w \in S : \A v \in S : w <= v

Fails == flow' = [flow EXCEPT !.phase = "failed", !.job = 0]

\* Mutant: a package with the same build stamp is taken for the candidate.
AnyPackage(k) == TRUE

\* running_candidate: the process runs the very executable of the plan's package.
RunsCandidate(k) == proc.pkg = file[k].pkg

\* Mutant: the running process is enough.
OnlyRuns(k) == RunsCandidate(k)

\* verify_applied: the installed attempt and package are the plan's, and run.
Verified(k) ==
  /\ local.attempt = file[k].attempt /\ local.pkg = file[k].pkg
  /\ RunsCandidate(k)

----------------------------------------------------------------------------
(* The process: it ends, starts, and restarts into an installed package.     *)

\* The helper of a call that nobody waits for any more may still apply its plan.
Orphaned ==
  LET k == front.busy.k
  IN \/ core' = core
     \/ /\ front.busy # None /\ front.busy.ok = "apply" /\ k \notin core.begun
        /\ core' \in {[core EXCEPT !.begun = @ \union {k}],
                      [begun |-> core.begun \union {k}, applied |-> core.applied \union {k}]}

Leaves(p) ==
  /\ proc' = p /\ flow' = NoFlow /\ link' = NoLink /\ key' = None
  /\ workers' = [w \in Workers |-> Idle] /\ chan' = 0 /\ slot' = 0
  /\ front' = Frontend(None) /\ up' = <<>> /\ down' = <<>>
  /\ Orphaned

Off == [st |-> "off", pkg |-> None, ack |-> 0, resume |-> None]

Mishap == mishaps < MaxMishaps /\ mishaps' = mishaps + 1

Dies ==
  /\ proc.st # "off" /\ Mishap /\ Leaves(Off) /\ UNCHANGED <<file, local, past>>

Start ==
  /\ proc.st = "off"
  /\ proc' = [st |-> "starting", pkg |-> local.pkg, ack |-> 0, resume |-> None]
  /\ UNCHANGED <<link, ui, threads, wire, file, local, core, mishaps>>

\* resume: the plan must be this restart's, and installed, and running.
Resumable(k) ==
  /\ file[k].phase \in {"companion_installed", "applying_core", "awaiting_frontend"}
  /\ Verified(k)

Connect ==
  /\ proc.st = "starting"
  /\ \/ /\ proc.resume # None => Resumable(proc.resume)
        /\ proc' = [proc EXCEPT !.st = "up"]
        /\ link' = [NoLink EXCEPT !.pending = (proc.ack # 0)]
        /\ flow' = IF proc.resume = None THEN NoFlow
                   ELSE [NoFlow EXCEPT !.phase = "applying", !.plan = proc.resume, !.custom = TRUE]
        /\ front' = Greeted(None) /\ up' = <<>> /\ down' = <<Probe>>
        /\ UNCHANGED <<key, threads, core>>
     \/ Leaves(Off)
  /\ UNCHANGED <<file, local, past, mishaps>>

\* request_restart and finish_restart: the attempt must still be the installed one.
Restart(k) ==
  Leaves(IF local.attempt = file[k].attempt
           THEN [st |-> "starting", pkg |-> local.pkg, ack |-> local.attempt, resume |-> k]
           ELSE Off)

\* An installation is a new attempt; the installed package from the same source keeps its own.
Installed(p) ==
  {[attempt |-> local.attempt + 1, pkg |-> p]} \union (IF local.pkg = p THEN {local} ELSE {})

OtherInstalls ==
  /\ Mishap /\ \E p \in Packages : local' \in Installed(p) \ {local}
  /\ UNCHANGED <<proc, link, ui, threads, wire, file, core>>

----------------------------------------------------------------------------
(* Opening, keys and cancellation.                                           *)

StartsLatest(ws) ==
  /\ Free(ws) # {}
  /\ workers' = Spawned(ws, Lowest(Free(ws)), "owners", None)
  /\ flow' = [phase |-> "preparing", plan |-> None, job |-> Lowest(Free(ws)), custom |-> FALSE]

Starts == started < MaxStart /\ started' = started + 1
rest == <<proc, link, chan, slot, wire, file, local, core, seen, mishaps>>

Offer ==
  /\ Up /\ flow = NoFlow /\ link.cap /\ Starts
  /\ StartsLatest(Invalidated(0)) /\ key' = Redrawn
  /\ UNCHANGED <<rest, approved>>

Retry ==
  /\ Up /\ flow.phase = "failed" /\ Starts
  /\ StartsLatest(Invalidated(0)) /\ key' = Redrawn
  /\ UNCHANGED <<rest, approved>>

Close == flow' = NoFlow /\ workers' = Invalidated(0)

Escape ==
  /\ Up /\ flow.phase \in {"form", "review", "failed", "preparing"}
  /\ Close /\ key' = Redrawn /\ UNCHANGED <<rest, past>>

Advanced ==
  /\ Up /\ ~flow.custom /\ flow.phase \in {"preparing", "review", "failed"}
  /\ flow' = [NoFlow EXCEPT !.phase = "form", !.custom = TRUE]
  /\ workers' = Invalidated(0) /\ key' = Redrawn /\ UNCHANGED <<rest, past>>

\* Enter is typed, and read at some later time, when it may find another screen.
Enter ==
  /\ Up /\ flow # NoFlow /\ key = None
  /\ key' = [fresh |-> TRUE, saw |-> IF flow.phase = "review" THEN flow.plan ELSE None]
  /\ UNCHANGED <<rest, flow, past, workers>>

\* Mutant: a key acts on whatever is on the screen when it is read.
AnyKey == TRUE

Fresh == key.fresh

StartsApply(k) ==
  /\ Free(workers) # {}
  /\ workers' = Spawned(workers, Lowest(Free(workers)), IF file[k].attempt = 0 THEN "plan" ELSE "verify", k)
  /\ flow' = [flow EXCEPT !.job = Lowest(Free(workers)), !.phase = "applying"]

Approve ==
  /\ flow.phase = "review" /\ StartsApply(flow.plan)
  /\ approved' = approved \union {[plan |-> flow.plan, saw |-> key.saw]}
  /\ UNCHANGED started

Submit ==
  /\ flow.phase = "form" /\ Starts /\ Free(workers) # {}
  /\ workers' = Spawned(workers, Lowest(Free(workers)), "owners", None)
  /\ flow' = [flow EXCEPT !.phase = "preparing", !.job = Lowest(Free(workers))]
  /\ UNCHANGED approved

ReadEnter ==
  /\ Turns /\ key # None /\ key' = None
  /\ \/ Fresh /\ (Approve \/ Submit)
     \/ Fresh /\ flow.phase = "failed" /\ Close /\ UNCHANGED past
     \/ /\ ~Fresh \/ flow.phase \notin {"review", "form", "failed"}
        /\ UNCHANGED <<flow, workers, past>>
  /\ UNCHANGED rest

----------------------------------------------------------------------------
(* A call: ensure_current, the channel, the wire, the reply, ensure_current.  *)

Calls == {"owners", "prepare", "plan", "apply"}
companion == <<proc, link, key, past, wire, core, mishaps>>

Ends(w, pc, ans, k) ==
  workers' = [workers EXCEPT ![w] = IF flow.job = w
                THEN [Idle EXCEPT !.pc = "done", !.ans = ans, !.plan = k, !.valid = workers[w].valid]
                ELSE Idle]

Errs(w) == Ends(w, "done", "error", workers[w].plan)

\* The companion's own package is prepared, or installed, before the remote call.
Request(w) ==
  /\ workers[w].pc \in Calls /\ workers[w].io = "run"
  /\ \/ /\ workers[w].valid /\ chan = 0 /\ chan' = w
        /\ workers' = [workers EXCEPT ![w].io = "queued",
                          ![w].base = IF workers[w].pc = "prepare" THEN local.attempt ELSE 0]
        /\ UNCHANGED file
     \/ /\ ~workers[w].valid \/ workers[w].pc # "apply"
        /\ Errs(w) /\ UNCHANGED <<chan, file>>
  /\ UNCHANGED <<companion, flow, slot, local>>

\* tick: one call at a time goes out, if its generation is still the current one.
Dequeue ==
  /\ Turns /\ slot = 0 /\ chan # 0 /\ chan' = 0
  /\ IF workers[chan].valid /\ link.cap
       THEN /\ slot' = chan /\ workers' = [workers EXCEPT ![chan].io = "waiting"]
            /\ down' = Sent(Packet("call", workers[chan].plan, workers[chan].pc))
       ELSE /\ workers' = [workers EXCEPT ![chan].io = "got", ![chan].ans = "no"]
            /\ UNCHANGED <<slot, down>>
  /\ UNCHANGED <<proc, link, ui, front, up, file, local, core, mishaps>>

\* The plan is saved before each step that depends on it.  A save that fails may have
\* replaced the file already.
Saves(k, phase) == file' = [file EXCEPT ![k].phase = phase]
FailsToSave(k, phase) == Saves(k, phase) \/ UNCHANGED file

Unused == {k \in Plans : file[k].phase = "none"}

Proceeds(w) ==
  LET me == workers[w]
      k == me.plan
      goes(pc) == workers' = [workers EXCEPT ![w] = [Idle EXCEPT !.pc = pc, !.plan = k, !.valid = TRUE]]
  IN \/ /\ me.pc = "owners" /\ me.ans = "yes" /\ UNCHANGED file
        /\ (goes("prepare") \/ Errs(w))          \* nothing newer, or a release that does not match
     \/ /\ me.pc = "prepare" /\ me.ans = "yes"
        /\ \/ Errs(w) /\ UNCHANGED file          \* the packages do not fit each other
           \/ /\ Unused # {}
              /\ \E p \in Packages : file' = [file EXCEPT ![Lowest(Unused)] =
                   [phase |-> "prepared", pkg |-> p, base |-> me.base, attempt |-> 0]]
              /\ Ends(w, "done", "prepared", Lowest(Unused))
     \/ me.pc = "plan" /\ me.ans = "yes" /\ goes("install") /\ UNCHANGED file
     \/ me.pc = "apply" /\ me.ans = "yes" /\ Saves(k, "awaiting_frontend") /\ Ends(w, "done", "activate", k)
     \/ me.pc = "apply" /\ me.ans = "yes" /\ FailsToSave(k, "awaiting_frontend") /\ Errs(w)
     \/ me.pc = "apply" /\ me.ans = "not" /\ FailsToSave(k, "partial") /\ Errs(w)
     \/ me.ans = "no" /\ Errs(w) /\ UNCHANGED file

Receive(w) ==
  /\ workers[w].io = "got"
  /\ IF workers[w].valid THEN Proceeds(w) ELSE Errs(w) /\ UNCHANGED file
  /\ UNCHANGED <<companion, flow, chan, slot, local>>

Baseline(w) == local.attempt = file[workers[w].plan].base

\* install_prepared_guarded, under the installation lock; the worker keeps the attempt.
Install(w) ==
  /\ workers[w].pc = "install"
  /\ \/ /\ workers[w].valid /\ Baseline(w)
        /\ local' \in Installed(file[workers[w].plan].pkg)
        /\ workers' = [workers EXCEPT ![w].pc = "record", ![w].base = local'.attempt]
     \/ Errs(w) /\ UNCHANGED local   \* another window holds the lock, or changed it
  /\ UNCHANGED <<companion, flow, chan, slot, file>>

\* The attempt is saved when the lock is free again: others may have installed since.
Record(w) ==
  LET k == workers[w].plan
      recorded == [file EXCEPT ![k].attempt = workers[w].base, ![k].phase = "companion_installed"]
  IN /\ workers[w].pc = "record"
     /\ \/ /\ file' = recorded
           /\ IF RunsCandidate(k)
                THEN workers' = [workers EXCEPT ![w].pc = "verify"]
                ELSE Ends(w, "done", "restart", k)
        \/ Errs(w) /\ file' \in {file, recorded}
     /\ UNCHANGED <<companion, flow, chan, slot, local>>

Verify(w) ==
  /\ workers[w].pc = "verify"
  /\ \/ Verified(workers[w].plan) /\ workers' = [workers EXCEPT ![w].pc = "begin"]
     \/ Errs(w)
  /\ UNCHANGED <<companion, flow, chan, slot, file, local>>

Begin(w) ==
  LET k == workers[w].plan
  IN /\ workers[w].pc = "begin"
     /\ \/ Saves(k, "applying_core") /\ workers' = [workers EXCEPT ![w].pc = "apply"]
        \/ FailsToSave(k, "applying_core") /\ Errs(w)
     /\ UNCHANGED <<companion, flow, chan, slot, local>>

\* tick takes the worker's outcome.
Outcome ==
  LET w == flow.job
      k == workers[w].plan
      redraws == key' = Redrawn /\ workers' = [workers EXCEPT ![w] = Idle]
  IN /\ Up /\ flow.job # 0 /\ workers[w].pc = "done"
     /\ \/ /\ workers[w].ans = "prepared" /\ redraws
           /\ flow' = [flow EXCEPT !.phase = "review", !.plan = k, !.job = 0]
           /\ UNCHANGED <<proc, link, chan, slot, wire, core>>
        \/ /\ workers[w].ans = "activate" /\ redraws
           /\ flow' = [flow EXCEPT !.phase = "waiting", !.plan = k, !.job = 0]
           /\ down' = Sent(Packet("activate", k, "none"))
           /\ UNCHANGED <<proc, link, chan, slot, front, up, core>>
        \/ /\ workers[w].ans = "error" /\ redraws
           /\ IF flow.phase = "preparing" /\ flow.custom
                THEN flow' = [flow EXCEPT !.phase = "form", !.job = 0] ELSE Fails
           /\ UNCHANGED <<proc, link, chan, slot, wire, core>>
        \/ workers[w].ans = "restart" /\ Restart(k)
     /\ UNCHANGED <<file, local, past, mishaps>>

----------------------------------------------------------------------------
(* Packets from the frontend, and the two timers.                            *)

\* A resumed update goes on when the new connection is acknowledged and can call.
Resumes == flow.phase = "applying" /\ flow.job = 0

Ready(l) ==
  IF l.connected /\ l.cap /\ Resumes THEN StartsApply(flow.plan) ELSE UNCHANGED <<flow, workers>>

\* connected (update.rs) records that the installed attempt came up.
Acknowledges == local.attempt = proc.ack /\ local.pkg = proc.pkg

ReadOutput ==
  /\ \/ /\ link.pending /\ Acknowledges
        /\ link' = [link EXCEPT !.pending = FALSE, !.connected = TRUE]
        /\ Ready(link') /\ UNCHANGED key
     \/ /\ link.pending
        /\ link' = [link EXCEPT !.pending = FALSE]
        /\ workers' = Invalidated(0) /\ key' = Redrawn
        /\ IF flow = NoFlow THEN UNCHANGED flow ELSE Fails
  /\ UNCHANGED <<proc, chan, slot, down, file, core, seen>>

ReadCapability ==
  /\ link' = [link EXCEPT !.cap = TRUE]
  /\ Ready(link')
  /\ UNCHANGED <<proc, chan, slot, down, key, file, core, seen>>

ReadResult(ok) ==
  /\ slot # 0 /\ slot' = 0
  /\ workers' = [workers EXCEPT ![slot].io = "got", ![slot].ans = IF workers[slot].valid THEN ok ELSE "no"]
  /\ UNCHANGED <<proc, link, flow, key, chan, down, file, core, seen>>

\* The new frontend's acknowledgement has the companion verified, under the installation
\* lock; another attempt's is an error that ends the companion.
ReadAck(k) ==
  /\ \/ flow.phase # "waiting" /\ UNCHANGED <<flow, seen>>
     \/ /\ flow.phase = "waiting" /\ k = flow.plan
        /\ \/ /\ Verified(k) /\ seen' = local
              /\ flow' = [flow EXCEPT !.phase = "verified"]
           \/ flow' = [flow EXCEPT !.phase = "unverified"] /\ UNCHANGED seen
  /\ UNCHANGED <<proc, link, threads, key, down, file, core>>

\* The outcome is saved after the lock was released: another window may have installed
\* since.  A failed save ends the companion.
SaveOutcome ==
  LET k == flow.plan
      phase == IF flow.phase = "verified" THEN "applied" ELSE "partial"
  IN /\ Up /\ ~Turns
     /\ \/ /\ Saves(k, phase) /\ key' = Redrawn /\ workers' = Invalidated(0)
           /\ IF flow.phase = "verified" THEN flow' = NoFlow ELSE Fails
           /\ UNCHANGED <<proc, link, chan, slot, wire, core>>
        \/ FailsToSave(k, phase) /\ Leaves(Off)
     /\ UNCHANGED <<local, past, mishaps>>

\* Mutant: the call in flight is left to its reply, which no longer comes.
StillWaits == slot

\* The call in flight is answered with an error, and the slot is free.
Dropped == 0

\* A frontend that was replaced says hello again.
ReadHello(later) ==
  LET ended == flow.phase \in {"form", "preparing", "review"}
  IN
  /\ link' = [link EXCEPT !.cap = FALSE, !.connected = FALSE]
  /\ workers' = [w \in Workers |->
       IF w = slot /\ Dropped # slot THEN [workers[w] EXCEPT !.valid = FALSE, !.io = "got", !.ans = "no"]
       ELSE Invalidated(IF ended THEN 0 ELSE flow.job)[w]]
  /\ slot' = Dropped /\ UNCHANGED <<proc, chan, file, core, seen>>
  /\ IF ended THEN Fails /\ key' = Redrawn
     ELSE UNCHANGED <<flow, key>>
  /\ down' = IF \E i \in DOMAIN later : later[i].t = "hello" THEN <<>> ELSE <<Probe>>

Read ==
  LET p == Head(up)
      later == Tail(up)
      answered == p.t = "hello" /\ ~ \E i \in DOMAIN later : later[i].t = "hello"
      foreign == p.t = "ack" /\ flow.phase = "waiting" /\ p.k # flow.plan
  IN /\ Turns /\ up # <<>>
     /\ \/ foreign /\ Leaves(Off) /\ UNCHANGED <<file, seen>>
        \/ /\ ~foreign /\ up' = later /\ front' = [front EXCEPT !.greeted = @ \/ answered]
           /\ \/ p.t = "output" /\ ReadOutput
              \/ p.t = "cap" /\ ReadCapability
              \/ p.t = "result" /\ ReadResult(p.ok)
              \/ p.t = "ack" /\ ReadAck(p.k)
              \/ p.t = "hello" /\ ReadHello(later)
     /\ UNCHANGED <<local, approved, started, mishaps>>

\* Three seconds without the capability; ninety without the acknowledgement.
TimesOut ==
  /\ Up /\ Fails
  /\ \/ link.connected /\ ~link.cap /\ Resumes /\ workers' = Invalidated(0)
     \/ flow.phase = "waiting" /\ UNCHANGED workers
  /\ key' = Redrawn
  /\ UNCHANGED <<proc, link, past, chan, slot, wire, file, local, core, mishaps>>

----------------------------------------------------------------------------
(* The remote frontend and the helper that executes a call.  Of its output,   *)
(* only what the companion waits for matters.                                *)

remote == <<proc, link, ui, threads, file, local, mishaps>>

Serve ==
  LET p == Head(down)
  IN /\ front.greeted /\ down # <<>> /\ down' = Tail(down)
     /\ \/ p.t = "probe" /\ up' = Append(up, Packet("cap", None, "none")) /\ UNCHANGED front
        \/ /\ p.t = "call" /\ front.busy = None
           /\ front' = [front EXCEPT !.busy = p] /\ UNCHANGED up
        \/ /\ p.t = "activate" /\ front.act = None
           /\ front' = [front EXCEPT !.act = p.k] /\ UNCHANGED up
     /\ UNCHANGED <<remote, core>>

\* One call and one activation at a time: the frontend ends over a second, and the
\* connection with it.
Refuses ==
  /\ front.greeted /\ down # <<>>
  /\ \/ Head(down).t = "call" /\ front.busy # None
     \/ Head(down).t = "activate" /\ front.act # None
  /\ Leaves(Off) /\ UNCHANGED <<file, local, past, mishaps>>

Draw ==
  /\ Up /\ link.pending /\ front.greeted /\ ~front.drew
  /\ front' = [front EXCEPT !.drew = TRUE] /\ up' = Append(up, Packet("output", None, "none"))
  /\ UNCHANGED <<remote, down, core>>

\* update-apply-v1: a plan is begun once, and one that was carried out returns its receipt.
Applies(k, ok) ==
  \/ ok = "no" /\ UNCHANGED core
  \/ /\ k \notin core.begun /\ ok \in {"not", "no"} /\ core' = [core EXCEPT !.begun = @ \union {k}]
  \/ /\ ok = "yes" /\ (k \notin core.begun \/ k \in core.applied)
     /\ core' = [begun |-> core.begun \union {k}, applied |-> core.applied \union {k}]

Answer ==
  LET what == front.busy.ok
      k == front.busy.k
  IN /\ front.busy # None
     /\ front' = [front EXCEPT !.busy = None]
     /\ \E ok \in {"yes", "not", "no"} :
          /\ up' = Append(up, Packet("result", None, ok))
          /\ \/ what = "apply" /\ Applies(k, ok)
             \/ what = "plan" /\ ok # "not" /\ (ok = "yes" => k \notin core.begun) /\ UNCHANGED core
             \/ what \in {"owners", "prepare"} /\ ok # "not" /\ UNCHANGED core
     /\ UNCHANGED <<remote, down>>

\* The frontend is replaced: by whoever refreshes it, or for the attempt it verified.
Replaced(ack) ==
  /\ front' = Frontend(ack) /\ up' = Append(up, Packet("hello", None, "none")) /\ down' = <<>>
  /\ Orphaned

Refresh ==
  /\ Up /\ front.greeted /\ Mishap /\ Replaced(None)
  /\ UNCHANGED <<proc, link, ui, threads, file, local>>

Activate ==
  /\ front.act # None /\ front.greeted
  /\ \/ front.act \in core.applied /\ Replaced(front.act)
     \/ front' = [front EXCEPT !.act = None] /\ UNCHANGED <<up, down, core>>
  /\ UNCHANGED remote

Acknowledge ==
  /\ front.ack # None /\ front.greeted
  /\ front' = [front EXCEPT !.ack = None]
  /\ up' \in {up, Append(up, Packet("ack", front.ack, "none"))}
  /\ UNCHANGED <<remote, down, core>>

----------------------------------------------------------------------------

Worker(w) ==
  Request(w) \/ Receive(w) \/ Install(w) \/ Record(w) \/ Verify(w) \/ Begin(w)

Next ==
  \/ Dies \/ Start \/ Connect \/ OtherInstalls
  \/ Offer \/ Retry \/ Escape \/ Advanced \/ Enter \/ ReadEnter
  \/ Dequeue \/ Outcome \/ Read \/ SaveOutcome \/ TimesOut \/ \E w \in Workers : Worker(w)
  \/ Serve \/ Refuses \/ Draw \/ Answer \/ Refresh \/ Activate \/ Acknowledge

Spec == Init /\ [][Next]_vars

\* The event loop turns, workers run, and the remote frontend serves what it was sent:
\* its helpers are killed after thirty minutes.  Users and other windows may do nothing.
Fairness ==
  /\ WF_vars(Dequeue) /\ WF_vars(Outcome) /\ WF_vars(Read) /\ WF_vars(TimesOut)
  /\ WF_vars(SaveOutcome)
  /\ \A w \in Workers : WF_vars(Worker(w))
  /\ WF_vars(Serve) /\ WF_vars(Draw) /\ WF_vars(Answer)

FairSpec == Spec /\ Fairness

----------------------------------------------------------------------------
(* Properties.                                                               *)

Flag == BOOLEAN
Phases == {"none", "form", "preparing", "review", "applying", "waiting",
           "verified", "unverified", "failed"}
Process == [st : {"off", "starting", "up"}, pkg : Packages \union {None}, ack : Nat,
            resume : Plans \union {None}]
Flow == [phase : Phases, plan : Plans \union {None}, job : 0..MaxWorker, custom : Flag]
Link == [cap : Flag, connected : Flag, pending : Flag]
Thread == [pc : Calls \union {"idle", "install", "record", "verify", "begin", "done"},
           io : {"run", "queued", "waiting", "got"}, plan : Plans \union {None}, base : Nat,
           valid : Flag,
           ans : {"none", "yes", "not", "no", "error", "prepared", "activate", "restart"}]
Key == [fresh : Flag, saw : Plans \union {None}]
Retained == [phase : {"none", "prepared", "companion_installed", "applying_core",
                      "awaiting_frontend", "applied", "partial"},
             pkg : Packages \union {None}, base : Nat, attempt : Nat]
Call == [t : {"call"}, k : Plans \union {None}, ok : {"owners", "prepare"}]
          \union [t : {"call"}, k : Plans, ok : {"plan", "apply"}]
Downward == {Probe} \union Call \union [t : {"activate"}, k : Plans, ok : {"none"}]
Upward == [t : {"hello", "output", "cap"}, k : {None}, ok : {"none"}]
            \union [t : {"result"}, k : {None}, ok : {"yes", "not", "no"}]
            \union [t : {"ack"}, k : Plans, ok : {"none"}]
Remote == [greeted : Flag, drew : Flag, busy : Call \union {None},
           act : Plans \union {None}, ack : Plans \union {None}]

\* Every variable has its type: a call that acts on a plan, an activation and an
\* acknowledgement name one (the requests and packets of coordinated.rs).
TypeOK ==
  /\ proc \in Process /\ flow \in Flow /\ link \in Link
  /\ workers \in [Workers -> Thread] /\ chan \in 0..MaxWorker /\ slot \in 0..MaxWorker
  /\ key \in Key \union {None} /\ file \in [Plans -> Retained]
  /\ local \in [attempt : Nat, pkg : Packages] /\ front \in Remote
  /\ up \in Seq(Upward) /\ down \in Seq(Downward)
  /\ core \in [begun : SUBSET Plans, applied : SUBSET Plans]
  /\ approved \in SUBSET [plan : Plans, saw : Plans \union {None}]
  /\ seen \in [attempt : Nat, pkg : Packages]
  /\ started \in 0..MaxStart /\ mishaps \in 0..MaxMishaps

\* The remote core is asked to apply a plan only by a companion that already runs the
\* plan's package, for a plan the user approved, while that plan's flow is open and
\* waits for exactly this worker (apply, ensure_current and the dequeue in tick).
CoreFollowsCompanion ==
  [][(slot' \notin {0, slot} /\ workers[slot'].pc = "apply") =>
       LET k == workers[slot'].plan
       IN /\ proc.pkg = file[k].pkg /\ file[k].attempt # 0
          /\ \E a \in approved : a.plan = k
          /\ flow.phase = "applying" /\ flow.job = slot' /\ flow.plan = k]_vars

\* A plan is called applied only when the core applied it, the plan's companion runs, and
\* the check of the acknowledgement found it installed, with the plan's own attempt; what
\* another window installed since the check is not known.  Once the plan is applied or
\* partial, no worker of an earlier generation saves it in another phase (packet,
\* verify_applied, apply).
AppliedMeansAll ==
  [][\A k \in Plans :
       /\ (file[k].phase # "applied" /\ file'[k].phase = "applied") =>
            /\ k \in core.applied /\ proc.pkg = file[k].pkg
            /\ seen.attempt = file[k].attempt /\ seen.pkg = file[k].pkg
       /\ file[k].phase \in {"applied", "partial"} => file'[k] = file[k]]_vars

\* What Enter approves is what was on the screen when Enter was typed (displayed and
\* received in input): not a plan that was prepared in the meantime.
ApprovedAsShown == \A a \in approved : a.saw = a.plan

Busy == Up /\ flow.phase \in {"preparing", "applying", "waiting", "verified", "unverified"}

\* A resumed update whose frontend was replaced after its first output and before it
\* said what it can do: nothing acknowledges the new connection, and no timer runs.
Stranded == Up /\ Resumes /\ ~link.pending /\ ~link.connected

\* Every preparation, application and wait ends, whatever becomes of the connection: the
\* user cannot close the modal meanwhile (tick, refreshed).
EveryFlowSettles == Busy ~> (~Busy \/ Stranded)
=============================================================================
