-------------------------- MODULE Coordinated_proofs --------------------------
(***************************************************************************)
(* Proofs about Coordinated: what Enter approves, when the remote core may *)
(* be asked to apply a plan, and what a plan called applied means, for all *)
(* values of its constants.                                                *)
(***************************************************************************)
EXTENDS Coordinated, WellFoundedInduction, TLAPS

Acting == {"plan", "install", "record", "verify", "begin", "apply"}

\* A plan that was saved; one that a user approved.
Saved(k) == k \in Plans /\ file[k].phase # "none"
Approved(k) == k \in Plans /\ \E a \in approved : a.plan = k

\* A fresh Enter has seen the plan under review.
Shown ==
  /\ flow.phase = "review" => Saved(flow.plan)
  /\ (key # None /\ flow.phase = "review") => (key.fresh => key.saw = flow.plan)

\* A saved plan names a package, what was approved is saved and was shown; a restart, an
\* application and a wait go on with an approved plan only.
Agreed ==
  /\ \A k \in Plans : file[k].phase # "none" => file[k].pkg \in Packages
  /\ \A a \in approved : a.saw = a.plan /\ Saved(a.plan)
  /\ proc.resume # None => Approved(proc.resume)
  /\ flow.phase \in {"applying", "waiting", "verified", "unverified"} => Approved(flow.plan)
  /\ flow.phase \notin {"preparing", "applying"} => flow.job = 0

\* Only a companion that is up has a modal and workers; one that runs has a package.
Alone ==
  /\ ~Up => flow = NoFlow /\ chan = 0 /\ slot = 0 /\ workers = [w \in Workers |-> Idle]
  /\ proc.st # "off" => proc.pkg \in Packages
  /\ local.attempt >= 1

\* A worker whose generation is current is the flow's; one that acts on a plan acts on
\* an approved one, which is installed once it is verified, and runs from then on.
Duty(w) ==
  LET me == workers[w]
  IN /\ me.io # "run" => me.pc \in Calls
     /\ me.valid => flow.job = w /\ me.pc # "idle"
     /\ me.valid /\ me.pc \in {"owners", "prepare"} => flow.phase = "preparing"
     /\ me.valid /\ me.pc \in Acting => flow.phase = "applying" /\ flow.plan = me.plan
     /\ me.pc \in Acting => Approved(me.plan)
     /\ me.pc = "record" => me.base # 0
     /\ me.pc \in {"verify", "begin", "apply"} => file[me.plan].attempt # 0
     /\ me.pc \in {"begin", "apply"} => proc.pkg = file[me.plan].pkg
     /\ me.pc = "done" => /\ flow.job = w /\ me.ans \in {"error", "prepared", "activate", "restart"}
                          /\ me.ans = "prepared" => Saved(me.plan)
                          /\ me.ans \in {"activate", "restart"} => Approved(me.plan)

\* The channel and the slot hold workers that wait for a call.
Calling ==
  /\ chan # 0 => workers[chan].pc \in Calls /\ workers[chan].io = "queued"
  /\ slot # 0 => workers[slot].pc \in Calls /\ workers[slot].io = "waiting"

\* An acknowledgement is owed, and sent, for a plan the core applied only.
Acked ==
  /\ front.ack # None => front.ack \in core.applied
  /\ up \in Seq({p \in Upward : p.t = "ack" => p.k \in core.applied})

IInv == TypeOK /\ Shown /\ Agreed /\ Alone /\ (\A w \in Workers : Duty(w)) /\ Calling /\ Acked

----------------------------------------------------------------------------
(* Operators of the model.                                                   *)

Less == {ss \in Nat \X Nat : ss[1] < ss[2]}

\* A set of numbers has a least one.
LEMMA LowestIn == ASSUME NEW S \in SUBSET Nat, S # {} PROVE Lowest(S) \in S
<1>1. IsWellFoundedOn(Less, Nat)
  BY NatLessThanWellFounded, Zenon DEF OpToRel, Less
<1>2. PICK x \in S : \A y \in S : ~ (<<y, x>> \in Less)
  BY <1>1, WFMin
<1>3. \A y \in S : x <= y
  <2> TAKE y \in S
  <2>1. x \in Nat /\ y \in Nat /\ <<y, x>> \notin Less
    BY <1>2
  <2>2. <<y, x>> \in Nat \X Nat /\ <<y, x>>[1] = y /\ <<y, x>>[2] = x
    BY <2>1
  <2>3. ~ (y < x)
    BY <2>1, <2>2, Zenon DEF Less
  <2> QED BY <2>1, <2>3, SMT
<1> QED BY <1>3 DEF Lowest

Answers == {"none", "yes", "not", "no", "error", "prepared", "activate", "restart"}
Pcs == Calls \union {"idle", "install", "record", "verify", "begin", "done"}

\* The records that the handlers write are threads, and what each holds.
LEMMA Threads ==
  ASSUME NEW b \in Flag, NEW pc \in Pcs, NEW k \in Plans \union {None}, NEW a \in Answers
  PROVE  /\ Idle \in Thread
         /\ [Idle EXCEPT !.pc = pc, !.plan = k, !.valid = b] \in Thread
         /\ [Idle EXCEPT !.pc = pc, !.ans = a, !.plan = k, !.valid = b] \in Thread
<1>1. Idle \in Thread
  BY Zenon DEF Idle, Thread, Flag
<1>2. \A me \in Thread : [me EXCEPT !.pc = pc, !.plan = k, !.valid = b] \in Thread
  BY Zenon DEF Thread, Pcs
<1>3. \A me \in Thread : [me EXCEPT !.pc = pc, !.ans = a, !.plan = k, !.valid = b] \in Thread
  BY Zenon DEF Thread, Pcs, Answers
<1> QED BY <1>1, <1>2, <1>3

\* The updates of one field or two that Receive, Verify and the answers make keep a thread a thread.
LEMMA ThreadUpdates ==
  ASSUME NEW me \in Thread, NEW pc \in Pcs, NEW a \in Answers, NEW n \in Nat,
         NEW i \in {"run", "queued", "waiting", "got"}
  PROVE  /\ [me EXCEPT !.valid = FALSE] \in Thread
         /\ [me EXCEPT !.pc = pc] \in Thread
         /\ [me EXCEPT !.pc = pc, !.base = n] \in Thread
         /\ [me EXCEPT !.io = i] \in Thread
         /\ [me EXCEPT !.io = i, !.base = n] \in Thread
         /\ [me EXCEPT !.io = i, !.ans = a] \in Thread
         /\ [me EXCEPT !.valid = FALSE, !.io = i, !.ans = a] \in Thread
<1>1. FALSE \in Flag
  BY Zenon DEF Flag
<1>2. [me EXCEPT !.valid = FALSE] \in Thread
  BY <1>1, Zenon DEF Thread
<1>3. [me EXCEPT !.pc = pc] \in Thread
  BY Zenon DEF Thread, Pcs
<1>4. [me EXCEPT !.io = i] \in Thread /\ [me EXCEPT !.pc = pc, !.base = n] \in Thread
  <2>1. [me EXCEPT !.io = i] \in Thread
    BY Zenon DEF Thread
  <2>2. [me EXCEPT !.pc = pc, !.base = n] \in Thread
    BY Zenon DEF Thread, Pcs
  <2> QED BY <2>1, <2>2
<1>5. [me EXCEPT !.io = i, !.base = n] \in Thread
  BY Zenon DEF Thread
<1>6. [me EXCEPT !.io = i, !.ans = a] \in Thread
  BY Zenon DEF Thread, Answers
<1>7. [me EXCEPT !.valid = FALSE, !.io = i, !.ans = a] \in Thread
  BY <1>1, Zenon DEF Thread, Answers
<1> QED BY <1>2, <1>3, <1>4, <1>5, <1>6, <1>7

\* A thread that is made invalid, or ends, keeps what it was about.
Withdrawn(x, me) ==
  /\ x \in Thread /\ ~x.valid
  /\ \/ x = Idle
     \/ x.pc = me.pc /\ x.plan = me.plan /\ x.ans = me.ans /\ x.io = me.io /\ x.base = me.base

\* Invalidated(keep) marks the other workers stale and changes nothing else of them.
LEMMA InvalidatedIs ==
  ASSUME TypeOK, NEW keep
  PROVE  /\ Invalidated(keep) \in [Workers -> Thread]
         /\ \A w \in Workers : /\ Withdrawn(Invalidated(keep)[w], workers[w])
                               /\ Invalidated(keep)[w].pc = "done" => w = keep
                               /\ workers[w].pc # "done" => Invalidated(keep)[w].pc = workers[w].pc
                                                            /\ Invalidated(keep)[w].io = workers[w].io
<1>1. workers \in [Workers -> Thread]
  BY DEF TypeOK
<1>2. Idle \in Thread /\ Idle.pc = "idle" /\ ~Idle.valid
  <2>1. Idle \in Thread
    BY Zenon DEF Idle, Thread, Flag
  <2> QED BY <2>1 DEF Idle
<1>3. ASSUME NEW w \in Workers
      PROVE  /\ Invalidated(keep)[w] \in Thread
             /\ Withdrawn(Invalidated(keep)[w], workers[w])
             /\ Invalidated(keep)[w].pc = "done" => w = keep
             /\ workers[w].pc # "done" => Invalidated(keep)[w].pc = workers[w].pc
                                          /\ Invalidated(keep)[w].io = workers[w].io
  <2> DEFINE me == workers[w]
             x == [me EXCEPT !.valid = FALSE]
  <2>1. me \in Thread
    BY <1>1
  <2>2. x \in Thread
    BY <2>1, ThreadUpdates DEF Pcs, Answers
  <2>3. ~x.valid /\ x.pc = me.pc /\ x.plan = me.plan /\ x.ans = me.ans /\ x.io = me.io
        /\ x.base = me.base
    BY <2>1, SMT DEF Thread
  <2>4. Invalidated(keep)[w] = IF me.pc = "done" /\ w # keep THEN Idle ELSE x
    BY DEF Invalidated
  <2> HIDE DEF x, me
  <2>5. Withdrawn(Idle, me) /\ Withdrawn(x, me)
    BY <1>2, <2>2, <2>3 DEF Withdrawn
  <2>6. CASE me.pc = "done" /\ w # keep
    <3>1. Invalidated(keep)[w] = Idle
      BY <2>4, <2>6
    <3> QED BY <1>2, <2>5, <2>6, <3>1 DEF me
  <2>7. CASE ~ (me.pc = "done" /\ w # keep)
    <3>1. Invalidated(keep)[w] = x
      BY <2>4, <2>7
    <3> QED BY <2>2, <2>3, <2>5, <2>7, <3>1 DEF me
  <2> QED BY <2>6, <2>7
<1>4. Invalidated(keep) \in [Workers -> Thread]
  BY <1>3 DEF Invalidated
<1> QED BY <1>3, <1>4

\* An idle worker takes the new work.
LEMMA SpawnedIs ==
  ASSUME NEW ws \in [Workers -> Thread], Free(ws) # {}, NEW pc \in Pcs, NEW k \in Plans \union {None}
  PROVE  /\ Lowest(Free(ws)) \in Workers /\ ws[Lowest(Free(ws))].pc = "idle"
         /\ Spawned(ws, Lowest(Free(ws)), pc, k) \in [Workers -> Thread]
         /\ Spawned(ws, Lowest(Free(ws)), pc, k)[Lowest(Free(ws))].pc = pc
         /\ Spawned(ws, Lowest(Free(ws)), pc, k)[Lowest(Free(ws))].plan = k
         /\ Spawned(ws, Lowest(Free(ws)), pc, k)[Lowest(Free(ws))].io = "run"
         /\ \A v \in Workers \ {Lowest(Free(ws))} : Spawned(ws, Lowest(Free(ws)), pc, k)[v] = ws[v]
<1>1. PICK w : w = Lowest(Free(ws))
  OBVIOUS
<1>2. w \in Free(ws)
  <2>1. Free(ws) \in SUBSET Nat
    BY CoordinatedAssumption DEF Free, Workers
  <2> QED BY <1>1, <2>1, LowestIn
<1>3. w \in Workers /\ ws[w].pc = "idle"
  BY <1>2 DEF Free
<1>4. PICK x : x = [Idle EXCEPT !.pc = pc, !.plan = k, !.valid = TRUE]
  OBVIOUS
<1>5. x \in Thread
  <2>1. TRUE \in Flag /\ "none" \in Answers
    BY Zenon DEF Flag, Answers
  <2> QED BY <1>4, <2>1, Threads
<1>6. x.pc = pc /\ x.plan = k /\ x.io = "run"
  BY <1>4, SMT DEF Idle
<1>7. Spawned(ws, w, pc, k) = [ws EXCEPT ![w] = x]
  BY <1>4 DEF Spawned
<1>8. /\ Spawned(ws, w, pc, k) \in [Workers -> Thread]
      /\ Spawned(ws, w, pc, k)[w] = x
      /\ \A v \in Workers \ {w} : Spawned(ws, w, pc, k)[v] = ws[v]
  BY <1>3, <1>5, <1>7, Zenon
<1> QED BY <1>1, <1>3, <1>6, <1>8

\* What becomes of a worker that ends: it is done if the flow waits for it.
LEMMA EndsIs ==
  ASSUME TypeOK, NEW w \in Workers, NEW a \in Answers, NEW k \in Plans \union {None},
         Ends(w, "done", a, k)
  PROVE  /\ workers' \in [Workers -> Thread]
         /\ \A v \in Workers \ {w} : workers'[v] = workers[v]
         /\ \/ /\ flow.job = w /\ workers'[w].pc = "done" /\ workers'[w].ans = a
               /\ workers'[w].plan = k /\ workers'[w].valid = workers[w].valid
               /\ workers'[w].io = "run"
            \/ flow.job # w /\ workers'[w] = Idle
<1>1. workers \in [Workers -> Thread] /\ workers[w].valid \in Flag
  BY DEF TypeOK, Thread
<1>2. PICK b : b = workers[w].valid
  OBVIOUS
<1>3. PICK x : x = [Idle EXCEPT !.pc = "done", !.ans = a, !.plan = k, !.valid = b]
  OBVIOUS
<1>4. x \in Thread /\ Idle \in Thread
  BY <1>1, <1>2, <1>3, Threads DEF Pcs
<1>5. x.pc = "done" /\ x.ans = a /\ x.plan = k /\ x.valid = b /\ x.io = "run"
  BY <1>3, SMT DEF Idle
<1>6. workers' = [workers EXCEPT ![w] = IF flow.job = w THEN x ELSE Idle]
  BY <1>2, <1>3 DEF Ends
<1>7. CASE flow.job = w
  <2>1. workers' = [workers EXCEPT ![w] = x]
    BY <1>6, <1>7
  <2>2. workers' \in [Workers -> Thread] /\ workers'[w] = x /\ \A v \in Workers \ {w} : workers'[v] = workers[v]
    BY <1>1, <1>4, <2>1, Zenon
  <2> QED BY <1>2, <1>5, <1>7, <2>2
<1>8. CASE flow.job # w
  <2>1. workers' = [workers EXCEPT ![w] = Idle]
    BY <1>6, <1>8
  <2>2. workers' \in [Workers -> Thread] /\ workers'[w] = Idle /\ \A v \in Workers \ {w} : workers'[v] = workers[v]
    BY <1>1, <1>4, <2>1, Zenon
  <2> QED BY <1>8, <2>2
<1> QED BY <1>7, <1>8

----------------------------------------------------------------------------
(* What a step leaves alone.                                                 *)

\* A saved plan stays with its package and its attempt, and a new one has a package; the
\* approvals stay as well, and the process runs what it ran.
Lasting ==
  /\ \A k \in Plans : file[k].phase # "none" =>
       /\ file'[k].phase # "none" /\ file'[k].pkg = file[k].pkg
       /\ file[k].attempt # 0 => file'[k].attempt # 0
  /\ \A k \in Plans : file[k].phase = "none" /\ file'[k].phase # "none" => file'[k].pkg \in Packages

Steady == approved \subseteq approved' /\ proc'.pkg = proc.pkg /\ Lasting

\* A step that keeps the plans and the approvals keeps what is saved and what is approved.
LEMMA SteadyPlans ==
  ASSUME Steady, NEW k
  PROVE  (Saved(k) => Saved(k)') /\ (Approved(k) => Approved(k)')
BY DEF Steady, Lasting, Saved, Approved

\* The steps that touch neither plans, approvals nor the package are such steps.
LEMMA UnchangedSteady ==
  ASSUME UNCHANGED <<approved, file>>, proc'.pkg = proc.pkg
  PROVE  Steady
BY DEF Steady, Lasting

\* A worker that goes on with what it did keeps its duty, unless it is valid and the
\* flow has changed.
LEMMA DutyStays ==
  ASSUME NEW w \in Workers, Agreed, Steady, Duty(w),
         workers'[w].pc = workers[w].pc, workers'[w].plan = workers[w].plan,
         workers'[w].io = workers[w].io \/ workers[w].pc \in Calls,
         workers'[w].base = workers[w].base \/ workers[w].pc \in Calls,
         workers[w].pc = "done" => workers'[w].ans = workers[w].ans /\ flow'.job = w,
         workers'[w].valid => /\ workers[w].valid /\ flow'.job = flow.job
                              /\ flow'.phase = flow.phase /\ flow'.plan = flow.plan
  PROVE  Duty(w)'
<1>1. PICK me : me = workers[w]
  OBVIOUS
<1>2. PICK x : x = workers'[w]
  OBVIOUS
<1>3. /\ Saved(me.plan) => Saved(me.plan)'
      /\ Approved(me.plan) => Approved(me.plan)' /\ Saved(me.plan)
      /\ Saved(me.plan) => /\ file'[me.plan].pkg = file[me.plan].pkg
                           /\ file[me.plan].attempt # 0 => file'[me.plan].attempt # 0
  <2>1. Approved(me.plan) => Saved(me.plan)
    BY DEF Agreed, Approved
  <2> QED BY <2>1, SteadyPlans DEF Saved, Steady, Lasting
<1>4. proc'.pkg = proc.pkg
  BY DEF Steady, Lasting
<1>5. /\ x.pc = me.pc /\ x.plan = me.plan /\ (me.pc = "done" => x.ans = me.ans /\ flow'.job = w)
      /\ x.io = me.io \/ me.pc \in Calls
      /\ x.base = me.base \/ me.pc \in Calls
  BY <1>1, <1>2
<1>6. x.valid => /\ me.valid /\ flow'.job = flow.job
                 /\ flow'.phase = flow.phase /\ flow'.plan = flow.plan
  BY <1>1, <1>2
<1> HIDE DEF Saved, Approved, Agreed, Steady, Lasting
<1> QED BY <1>1, <1>2, <1>3, <1>4, <1>5, <1>6 DEF Duty, Acting, Calls

\* An idle worker owes nothing.
LEMMA DutyIdle ==
  ASSUME NEW w \in Workers, workers'[w] = Idle
  PROVE  Duty(w)'
BY DEF Duty, Idle, Acting

\* Plans that the core applied stay applied.
CoreGrows ==
  core' \in [begun : SUBSET Plans, applied : SUBSET Plans] /\ core.applied \subseteq core'.applied

Sendable(C) == {p \in Upward : p.t = "ack" => p.k \in C.applied}

\* What the core may have sent stays sendable: a core never takes an application back.
LEMMA SendableStays ==
  ASSUME NEW s \in Seq(Sendable(core)), core.applied \subseteq core'.applied
  PROVE  s \in Seq(Sendable(core'))
<1>1. Sendable(core) \subseteq Sendable(core')
  BY DEF Sendable
<1> HIDE DEF Sendable
<1> QED BY <1>1, SMT

\* A helper that nobody waits for only adds to what the core applied.
LEMMA OrphanedGrows == ASSUME TypeOK, Orphaned PROVE CoreGrows
<1>1. core \in [begun : SUBSET Plans, applied : SUBSET Plans] /\ front \in Remote
  BY DEF TypeOK
<1>2. CASE core' = core
  BY <1>1, <1>2 DEF CoreGrows
<1>3. CASE core' # core
  <2>1. front.busy # None /\ front.busy.ok = "apply"
    BY <1>3 DEF Orphaned
  <2>2. front.busy.k \in Plans
    BY <1>1, <2>1, SMT DEF Remote, Call
  <2>3. core' \in {[core EXCEPT !.begun = @ \union {front.busy.k}],
                   [begun |-> core.begun \union {front.busy.k}, applied |-> core.applied \union {front.busy.k}]}
    BY <1>3 DEF Orphaned
  <2> QED BY <1>1, <2>2, <2>3 DEF CoreGrows
<1> QED BY <1>2, <1>3

\* The records of a new connection.
LEMMA Records ==
  /\ NoFlow \in Flow /\ NoFlow.phase = "none" /\ NoFlow.job = 0 /\ NoFlow.plan = None
  /\ NoLink \in Link /\ Idle \in Thread /\ Off \in Process /\ Off.st = "off" /\ Off.resume = None
  /\ Probe \in Downward /\ \A b \in Flag : [NoLink EXCEPT !.pending = b] \in Link
  /\ \A a \in Plans \union {None} : /\ Frontend(a) \in Remote /\ Frontend(a).ack = a
                                    /\ Greeted(a) \in Remote /\ Greeted(a).ack = a
<1>1. FALSE \in Flag /\ TRUE \in Flag /\ 0 \in 0..MaxWorker
  BY CoordinatedAssumption DEF Flag
<1>2. NoFlow \in Flow /\ NoFlow.phase = "none" /\ NoFlow.job = 0 /\ NoFlow.plan = None
  <2>1. NoFlow \in Flow
    BY <1>1, Zenon DEF NoFlow, Flow, Phases
  <2> QED BY <2>1, SMT DEF NoFlow
<1>3. NoLink \in Link
  BY <1>1, Zenon DEF NoLink, Link
<1>4. Idle \in Thread
  BY <1>1, Zenon DEF Idle, Thread
<1>5. Off \in Process /\ Off.st = "off" /\ Off.resume = None
  BY SMT DEF Off, Process
<1>6. Probe \in Downward
  BY DEF Downward
<1>7. \A b \in Flag : [NoLink EXCEPT !.pending = b] \in Link
  BY <1>1, <1>3, Zenon DEF Link
<1>8. ASSUME NEW a \in Plans \union {None}
      PROVE  Frontend(a) \in Remote /\ Frontend(a).ack = a /\ Greeted(a) \in Remote /\ Greeted(a).ack = a
  <2>1. Frontend(a) \in Remote
    BY <1>1, Zenon DEF Frontend, Remote
  <2>2. \A f \in Remote : [f EXCEPT !.greeted = TRUE] \in Remote
    BY <1>1, Zenon DEF Remote
  <2>3. Frontend(a).ack = a /\ Greeted(a).ack = a
    BY SMT DEF Frontend, Greeted
  <2> QED BY <2>1, <2>2, <2>3 DEF Greeted
<1> QED BY <1>2, <1>3, <1>4, <1>5, <1>6, <1>7, <1>8

\* The flows that the handlers write.
IsFlow(f, ph, k, j) == f \in Flow /\ f.phase = ph /\ f.plan = k /\ f.job = j

\* The flows that the handlers write, field by field.
LEMMA Flows ==
  ASSUME NEW ph \in Phases, NEW k \in Plans \union {None}, NEW j \in 0..MaxWorker
  PROVE  /\ \A c \in Flag : IsFlow([phase |-> ph, plan |-> k, job |-> j, custom |-> c], ph, k, j)
         /\ \A f \in Flow : /\ IsFlow([f EXCEPT !.phase = ph, !.plan = k, !.job = j], ph, k, j)
                            /\ IsFlow([f EXCEPT !.phase = ph, !.job = j], ph, f.plan, j)
                            /\ IsFlow([f EXCEPT !.job = j, !.phase = ph], ph, f.plan, j)
<1>1. ASSUME NEW c \in Flag
      PROVE  IsFlow([phase |-> ph, plan |-> k, job |-> j, custom |-> c], ph, k, j)
  <2>1. [phase |-> ph, plan |-> k, job |-> j, custom |-> c] \in Flow
    BY Zenon DEF Flow
  <2> QED BY <2>1, SMT DEF IsFlow
<1>2. ASSUME NEW f \in Flow
      PROVE  IsFlow([f EXCEPT !.phase = ph, !.plan = k, !.job = j], ph, k, j)
  BY Zenon DEF Flow, IsFlow
<1>3. ASSUME NEW f \in Flow
      PROVE  IsFlow([f EXCEPT !.phase = ph, !.job = j], ph, f.plan, j)
  BY Zenon DEF Flow, IsFlow
<1>4. ASSUME NEW f \in Flow
      PROVE  IsFlow([f EXCEPT !.job = j, !.phase = ph], ph, f.plan, j)
  BY Zenon DEF Flow, IsFlow
<1> QED BY <1>1, <1>2, <1>3, <1>4

\* The initial state.
LEMMA InitHolds == ASSUME Init PROVE IInv
<1> USE CoordinatedAssumption
<1>1. TypeOK
  <2>1. /\ proc \in Process /\ flow \in Flow /\ link \in Link
        /\ workers \in [Workers -> Thread] /\ chan \in 0..MaxWorker /\ slot \in 0..MaxWorker
        /\ key \in Key \union {None}
    BY Records, SMT DEF Init, Process
  <2>2. file \in [Plans -> Retained]
    <3>1. [phase |-> "none", pkg |-> None, base |-> 0, attempt |-> 0] \in Retained
      BY SMT DEF Retained
    <3> QED BY <3>1, Zenon DEF Init
  <2>3. local \in [attempt : Nat, pkg : Packages] /\ front \in Remote
    BY Records, SMT DEF Init
  <2>4. up \in Seq(Upward) /\ down \in Seq(Downward)
    <3>1. up = <<>> /\ down = <<Probe>> /\ Probe \in Downward
      BY Records DEF Init
    <3> QED BY <3>1
  <2>5. /\ core \in [begun : SUBSET Plans, applied : SUBSET Plans] /\ approved = {}
        /\ started \in 0..MaxStart /\ mishaps \in 0..MaxMishaps
        /\ seen \in [attempt : Nat, pkg : Packages]
    BY SMT DEF Init
  <2> QED BY <2>1, <2>2, <2>3, <2>4, <2>5 DEF TypeOK
<1>2. Shown /\ Agreed /\ Alone /\ Calling
  BY Records, SMT DEF Init, Shown, Agreed, Alone, Calling, Up
<1>3. \A w \in Workers : Duty(w)
  BY SMT DEF Init, Duty, Idle, Acting
<1>4. Acked
  BY Records, SMT DEF Init, Acked
<1> QED BY <1>1, <1>2, <1>3, <1>4 DEF IInv

\* The companion ends, restarts or loses its connection.
LEMMA LeavesKeeps ==
  ASSUME IInv, NEW p \in Process, Leaves(p), p.st # "up", UNCHANGED <<local, past>>,
         p.st # "off" => p.pkg \in Packages, p.resume # None => Approved(p.resume),
         file' \in [Plans -> Retained], Lasting, mishaps' \in 0..MaxMishaps
  PROVE  IInv'
<1> USE DEF IInv
<1>1. TypeOK'
  <2>1. CoreGrows
    BY OrphanedGrows DEF Leaves
  <2>2. /\ proc' \in Process /\ flow' \in Flow /\ link' \in Link
        /\ workers' \in [Workers -> Thread] /\ chan' \in 0..MaxWorker /\ slot' \in 0..MaxWorker
        /\ key' \in Key \union {None} /\ front' \in Remote
    BY Records, CoordinatedAssumption, SMT DEF Leaves
  <2>3. up' \in Seq(Upward) /\ down' \in Seq(Downward)
    BY SMT DEF Leaves
  <2> QED BY <2>1, <2>2, <2>3 DEF TypeOK, CoreGrows, past
<1>2. Shown' /\ Calling'
  BY Records, SMT DEF Leaves, Shown, Calling
<1>3. Agreed'
  <2>1. \A k : Approved(k) => Approved(k)'
    BY DEF Approved, past
  <2>2. \A a \in approved : a.saw = a.plan /\ Saved(a.plan)'
    BY DEF Agreed, Saved, Lasting
  <2>3. \A k \in Plans : file'[k].phase # "none" => file'[k].pkg \in Packages
    BY DEF Agreed, Lasting
  <2> QED BY <2>1, <2>2, <2>3, Records DEF Leaves, Agreed, past
<1>4. Alone'
  BY Records, SMT DEF Leaves, Alone, Up
<1>5. \A w \in Workers : Duty(w)'
  <2>1. \A w \in Workers : workers'[w] = Idle
    BY DEF Leaves
  <2> QED BY <2>1, DutyIdle
<1>6. Acked'
  BY Records, SMT DEF Leaves, Acked
<1> QED BY <1>1, <1>2, <1>3, <1>4, <1>5, <1>6

\* Plans that are not touched last.
LEMMA UnchangedLasting == ASSUME TypeOK, UNCHANGED file PROVE file' \in [Plans -> Retained] /\ Lasting
BY DEF TypeOK, Lasting

\* The companion ends: its modal, channel, slot and workers go with it, the plans stay.
LEMMA DiesKeeps == ASSUME IInv, Dies PROVE IInv'
<1>1. mishaps' \in 0..MaxMishaps
  BY CoordinatedAssumption, SMT DEF IInv, TypeOK, Dies, Mishap
<1>2. Off \in Process /\ Off.st = "off" /\ Off.resume = None
  BY Records
<1> QED BY <1>1, <1>2, LeavesKeeps, UnchangedLasting DEF Dies, IInv

\* Workers and the channel while there is no modal, when nothing runs.
LEMMA IdleKeeps ==
  ASSUME \A w \in Workers : workers'[w] = Idle, chan' = 0, slot' = 0
  PROVE  (\A w \in Workers : Duty(w)') /\ Calling'
BY DutyIdle DEF Calling

\* A companion that is started anew resumes no plan.
LEMMA StartKeeps == ASSUME IInv, Start PROVE IInv'
<1> USE DEF IInv, Start, ui, threads, wire, past
<1>1. proc'.st = "starting" /\ proc' \in Process /\ proc'.pkg \in Packages /\ proc'.resume = None
  BY SMT DEF TypeOK, Process
<1>2. TypeOK'
  BY <1>1 DEF TypeOK
<1>3. Shown' /\ Agreed' /\ Acked'
  BY <1>1 DEF Shown, Agreed, Acked, Saved, Approved
<1>4. flow = NoFlow /\ chan = 0 /\ slot = 0 /\ workers = [w \in Workers |-> Idle]
  BY DEF Alone, Up
<1>5. Alone' /\ (\A w \in Workers : Duty(w)') /\ Calling'
  BY <1>1, <1>4, IdleKeeps DEF Alone
<1> QED BY <1>2, <1>3, <1>5

\* A restarted companion resumes the plan it restarted for, which was approved.
LEMMA ConnectKeeps == ASSUME IInv, Connect PROVE IInv'
<1> USE DEF IInv
<1>1. CASE Leaves(Off)
  <2>1. Off \in Process /\ Off.st = "off" /\ Off.resume = None
    BY Records
  <2>2. UNCHANGED <<file, local, past>> /\ mishaps' \in 0..MaxMishaps
    BY DEF Connect, TypeOK
  <2> QED BY <1>1, <2>1, <2>2, LeavesKeeps, UnchangedLasting
<1>2. CASE ~Leaves(Off)
  <2>1. /\ proc.st = "starting" /\ proc' = [proc EXCEPT !.st = "up"]
        /\ link' = [NoLink EXCEPT !.pending = (proc.ack # 0)]
        /\ flow' = IF proc.resume = None THEN NoFlow
                   ELSE [NoFlow EXCEPT !.phase = "applying", !.plan = proc.resume, !.custom = TRUE]
        /\ front' = Greeted(None) /\ up' = <<>> /\ down' = <<Probe>>
        /\ UNCHANGED <<key, workers, chan, slot, core, file, local, approved, seen, started, mishaps>>
    BY <1>2 DEF Connect, threads, past
  <2>2. proc' \in Process /\ proc'.pkg = proc.pkg /\ proc'.resume = proc.resume /\ proc'.st = "up"
    <3>1. \A q \in Process : /\ [q EXCEPT !.st = "up"] \in Process
                              /\ [q EXCEPT !.st = "up"].pkg = q.pkg
                              /\ [q EXCEPT !.st = "up"].resume = q.resume
                              /\ [q EXCEPT !.st = "up"].st = "up"
      BY SMT DEF Process
    <3>2. proc \in Process
      BY DEF TypeOK
    <3> QED BY <2>1, <3>1, <3>2
  <2>3. flow = NoFlow /\ chan = 0 /\ slot = 0 /\ workers = [w \in Workers |-> Idle]
    BY <2>1 DEF Alone, Up
  <2>4. /\ flow' \in Flow /\ flow'.job = 0 /\ flow'.phase \in {"none", "applying"}
        /\ flow'.phase = "applying" => flow'.plan = proc.resume /\ proc.resume # None
    <3>1. TRUE \in Flag /\ proc.resume \in Plans \union {None}
      BY DEF Flag, TypeOK, Process
    <3>2. \A f \in Flow, k \in Plans \union {None} :
             [f EXCEPT !.phase = "applying", !.plan = k, !.custom = TRUE] \in Flow
      BY <3>1, Zenon DEF Flow, Phases
    <3>3. CASE proc.resume = None
      BY <2>1, <3>3, Records
    <3>4. CASE proc.resume # None
      <4>1. flow' = [NoFlow EXCEPT !.phase = "applying", !.plan = proc.resume, !.custom = TRUE]
        BY <2>1, <3>4
      <4>2. flow' \in Flow
        BY <3>1, <3>2, <4>1, Records
      <4>3. flow'.job = 0 /\ flow'.phase = "applying" /\ flow'.plan = proc.resume
        BY <4>1, SMT DEF NoFlow
      <4> QED BY <3>4, <4>2, <4>3
    <3> QED BY <3>3, <3>4
  <2>5. link' \in Link
    <3>1. (proc.ack # 0) \in Flag
      BY Zenon DEF Flag
    <3> QED BY <2>1, <3>1, Records
  <2>6. front' \in Remote /\ front'.ack = None /\ up' \in Seq(Upward) /\ down' \in Seq(Downward)
    <3>1. Probe \in Downward /\ Greeted(None) \in Remote /\ Greeted(None).ack = None
      BY Records
    <3> QED BY <2>1, <3>1
  <2>7. TypeOK'
    BY <2>1, <2>2, <2>4, <2>5, <2>6 DEF TypeOK
  <2>8. Shown' /\ Agreed'
    BY <2>1, <2>2, <2>4 DEF Shown, Agreed, Saved, Approved
  <2>9. Alone' /\ (\A w \in Workers : Duty(w)') /\ Calling'
    BY <2>1, <2>2, <2>3, IdleKeeps DEF Alone, Up
  <2>10. Acked'
    BY <2>1, <2>6, SMT DEF Acked
  <2> QED BY <2>7, <2>8, <2>9, <2>10
<1> QED BY <1>1, <1>2

\* An installation leaves a receipt with an attempt.
LEMMA InstalledIs ==
  ASSUME TypeOK, Alone, NEW p \in Packages, NEW r \in Installed(p)
  PROVE  r \in [attempt : Nat, pkg : Packages] /\ r.attempt >= 1
<1>1. local \in [attempt : Nat, pkg : Packages] /\ local.attempt >= 1
  BY DEF TypeOK, Alone
<1>2. CASE r = local
  BY <1>1, <1>2
<1>3. CASE r = [attempt |-> local.attempt + 1, pkg |-> p]
  BY <1>1, <1>3, SMT
<1> QED BY <1>2, <1>3 DEF Installed

\* Another companion installs a package: the plans are not touched.
LEMMA OtherInstallsKeeps == ASSUME IInv, OtherInstalls PROVE IInv'
<1> USE DEF IInv, OtherInstalls, ui, threads, wire, past
<1>1. local' \in [attempt : Nat, pkg : Packages] /\ local'.attempt >= 1 /\ mishaps' \in 0..MaxMishaps
  <2>1. mishaps' \in 0..MaxMishaps
    BY CoordinatedAssumption, SMT DEF TypeOK, Mishap
  <2>2. PICK p \in Packages : local' \in Installed(p)
    OBVIOUS
  <2> QED BY <2>1, <2>2, InstalledIs
<1>2. TypeOK'
  BY <1>1 DEF TypeOK
<1>3. Shown' /\ Agreed' /\ Calling' /\ Acked' /\ Alone'
  BY <1>1 DEF Shown, Agreed, Calling, Acked, Alone, Saved, Approved, Up
<1>4. \A w \in Workers : Duty(w)'
  BY DEF Duty, Approved, Saved
<1> QED BY <1>2, <1>3, <1>4

----------------------------------------------------------------------------
(* The user.                                                                 *)

\* After a redraw no key is fresh.
LEMMA RedrawnIs ==
  ASSUME TypeOK
  PROVE  Redrawn \in Key \union {None} /\ (Redrawn # None => ~Redrawn.fresh)
<1>1. \A q \in Key : [q EXCEPT !.fresh = FALSE] \in Key /\ ~[q EXCEPT !.fresh = FALSE].fresh
  <2>1. FALSE \in Flag
    BY Zenon DEF Flag
  <2>2. \A q \in Key : [q EXCEPT !.fresh = FALSE] \in Key
    BY <2>1, Zenon DEF Key
  <2>3. \A q \in Key : ~[q EXCEPT !.fresh = FALSE].fresh
    BY Zenon DEF Key
  <2> QED BY <2>2, <2>3
<1>2. key \in Key \union {None}
  BY DEF TypeOK
<1> QED BY <1>1, <1>2 DEF Redrawn

\* A call in the channel or on its way stays there.
LEMMA CallingStays ==
  ASSUME TypeOK, Calling, UNCHANGED <<chan, slot>>,
         \A w \in Workers : workers[w].pc \in Calls /\ workers[w].io \in {"queued", "waiting"}
                              => workers'[w].pc = workers[w].pc /\ workers'[w].io = workers[w].io
  PROVE  Calling'
<1>1. (chan # 0 => chan \in Workers) /\ (slot # 0 => slot \in Workers)
  BY CoordinatedAssumption, SMT DEF TypeOK, Workers
<1> QED BY <1>1 DEF Calling

\* A step of the modal and its workers leaves everything else alone, except that it may
\* send something.
LEMMA SendsKeeps ==
  ASSUME IInv, Up, UNCHANGED <<proc, link, chan, slot, front, up, file, local, core, seen, mishaps>>,
         down' \in Seq(Downward), flow' \in Flow, key' \in Key \union {None},
         workers' \in [Workers -> Thread], started' \in 0..MaxStart,
         approved' \in SUBSET [plan : Plans, saw : Plans \union {None}],
         Shown', Agreed', \A w \in Workers : Duty(w)',
         \A w \in Workers : workers[w].pc \in Calls /\ workers[w].io \in {"queued", "waiting"}
                              => workers'[w].pc = workers[w].pc /\ workers'[w].io = workers[w].io
  PROVE  IInv'
<1> USE DEF IInv
<1>1. TypeOK'
  BY DEF TypeOK
<1>2. Alone' /\ Acked'
  BY DEF Alone, Acked, Up
<1>3. Calling'
  BY CallingStays
<1> QED BY <1>1, <1>2, <1>3

\* A step of the modal or of a worker that leaves the plans, the process and the connection alone.
LEMMA RestKeeps ==
  ASSUME IInv, Up, UNCHANGED rest, flow' \in Flow, key' \in Key \union {None},
         workers' \in [Workers -> Thread], started' \in 0..MaxStart,
         approved' \in SUBSET [plan : Plans, saw : Plans \union {None}],
         Shown', Agreed', \A w \in Workers : Duty(w)',
         \A w \in Workers : workers[w].pc \in Calls /\ workers[w].io \in {"queued", "waiting"}
                              => workers'[w].pc = workers[w].pc /\ workers'[w].io = workers[w].io
  PROVE  IInv'
<1>1. UNCHANGED <<proc, link, chan, slot, front, up, file, local, core, seen, mishaps>> /\ down' \in Seq(Downward)
  BY DEF rest, wire, IInv, TypeOK
<1> QED BY <1>1, SendsKeeps

\* A new preparation starts, and nothing older is valid.
LEMMA LatestKeeps ==
  ASSUME IInv, Up, StartsLatest(Invalidated(0)), key' = Redrawn, Starts, UNCHANGED <<rest, approved>>
  PROVE  IInv'
<1> USE DEF IInv
<1>1. PICK ws : ws = Invalidated(0)
  OBVIOUS
<1>2. /\ ws \in [Workers -> Thread]
      /\ \A w \in Workers : /\ Withdrawn(ws[w], workers[w]) /\ (ws[w].pc = "done" => w = 0)
                            /\ workers[w].pc # "done" => ws[w].pc = workers[w].pc /\ ws[w].io = workers[w].io
  BY <1>1, InvalidatedIs
<1>3. Free(ws) # {}
  BY <1>1 DEF StartsLatest
<1>4. PICK n : n = Lowest(Free(ws))
  OBVIOUS
<1>5. /\ n \in Workers /\ ws[n].pc = "idle"
      /\ workers' \in [Workers -> Thread]
      /\ workers'[n].pc = "owners" /\ \A v \in Workers \ {n} : workers'[v] = ws[v]
  <2>1. workers' = Spawned(ws, n, "owners", None)
    BY <1>1, <1>4 DEF StartsLatest
  <2>2. "owners" \in Pcs
    BY DEF Pcs, Calls
  <2> QED BY <1>2, <1>3, <1>4, <2>1, <2>2, SpawnedIs
<1>6. flow' = [phase |-> "preparing", plan |-> None, job |-> n, custom |-> FALSE]
  BY <1>1, <1>4 DEF StartsLatest
<1>7. flow' \in Flow /\ flow'.phase = "preparing" /\ flow'.job = n
  <2>1. FALSE \in Flag /\ n \in 0..MaxWorker
    BY <1>5, CoordinatedAssumption, SMT DEF Flag, Workers
  <2>2. "preparing" \in Phases /\ None \in Plans \union {None}
    BY Zenon DEF Phases
  <2> QED BY <1>6, <2>1, <2>2, Flows DEF IsFlow
<1>8. key' \in Key \union {None} /\ started' \in 0..MaxStart
  BY RedrawnIs, CoordinatedAssumption, SMT DEF TypeOK, Starts
<1>9. Shown' /\ Agreed'
  BY <1>7 DEF Shown, Agreed, Approved, Saved, rest
<1>10. Steady
  BY UnchangedSteady DEF rest
<1>11. ASSUME NEW w \in Workers PROVE Duty(w)'
  <2>1. CASE w = n
    BY <1>5, <1>7, <2>1 DEF Duty, Acting, Calls
  <2>2. CASE w # n
    <3>1. workers'[w] = ws[w] /\ ws[w].pc # "done"
      BY <1>2, <1>5, <2>2, CoordinatedAssumption, SMT DEF Workers
    <3>2. CASE ws[w] = Idle
      BY <3>1, <3>2, DutyIdle
    <3>3. CASE ws[w] # Idle
      BY <1>2, <1>10, <3>1, <3>3, DutyStays DEF Withdrawn
    <3> QED BY <3>2, <3>3
  <2> QED BY <2>1, <2>2
<1>12. \A w \in Workers : workers[w].pc \in Calls /\ workers[w].io \in {"queued", "waiting"}
                            => workers'[w].pc = workers[w].pc /\ workers'[w].io = workers[w].io
  BY <1>2, <1>5 DEF Calls
<1> QED BY <1>5, <1>7, <1>8, <1>9, <1>11, <1>12, RestKeeps DEF TypeOK, rest

\* Opening the modal starts a worker and shows no plan yet.
LEMMA OfferKeeps == ASSUME IInv, Offer PROVE IInv'
BY LatestKeeps DEF Offer

\* Trying again starts a new worker; the one of the old generation is stale.
LEMMA RetryKeeps == ASSUME IInv, Retry PROVE IInv'
BY LatestKeeps DEF Retry

\* The generation moves on: every worker is withdrawn, and only one that the flow waits
\* for stays.
LEMMA WithdrawnDuties ==
  ASSUME TypeOK, Agreed, Steady, NEW keep, keep = 0 \/ flow'.job = keep,
         \A w \in Workers : Duty(w), workers' = Invalidated(keep)
  PROVE  /\ workers' \in [Workers -> Thread]
         /\ \A w \in Workers : /\ Duty(w)'
                               /\ workers[w].pc \in Calls => workers'[w].pc = workers[w].pc
                                                             /\ workers'[w].io = workers[w].io
<1>1. /\ workers' \in [Workers -> Thread]
      /\ \A w \in Workers : /\ Withdrawn(workers'[w], workers[w]) /\ (workers'[w].pc = "done" => w = keep)
                            /\ workers[w].pc # "done" => workers'[w].pc = workers[w].pc /\ workers'[w].io = workers[w].io
  BY InvalidatedIs
<1>2. ASSUME NEW w \in Workers PROVE Duty(w)'
  <2>1. CASE workers'[w] = Idle
    BY <2>1, DutyIdle
  <2>2. CASE workers'[w] # Idle
    <3>1. workers'[w].pc = "done" => flow'.job = w
      <4>1. w # 0
        BY CoordinatedAssumption, SMT DEF Workers
      <4> QED BY <1>1, <4>1
    <3> QED BY <1>1, <2>2, <3>1, DutyStays DEF Withdrawn
  <2> QED BY <2>1, <2>2
<1> QED BY <1>1, <1>2 DEF Calls

\* Closing or leaving the modal makes every worker stale.
LEMMA ClosedKeeps ==
  ASSUME IInv, Up, workers' = Invalidated(0), flow' \in Flow, flow'.job = 0,
         flow'.phase \in {"none", "form", "failed"}, key' \in Key \union {None}, UNCHANGED <<rest, past>>
  PROVE  IInv'
<1> USE DEF IInv
<1>1. Steady
  BY UnchangedSteady DEF rest, past
<1>2. /\ workers' \in [Workers -> Thread]
      /\ \A w \in Workers : /\ Duty(w)'
                            /\ workers[w].pc \in Calls => workers'[w].pc = workers[w].pc
                                                          /\ workers'[w].io = workers[w].io
  BY <1>1, WithdrawnDuties
<1>3. Shown' /\ Agreed'
  BY DEF Shown, Agreed, Approved, Saved, rest, past
<1> QED BY <1>2, <1>3, RestKeeps DEF TypeOK, past

\* Escape closes the modal.
LEMMA EscapeKeeps == ASSUME IInv, Escape PROVE IInv'
<1>1. NoFlow \in Flow /\ NoFlow.job = 0 /\ NoFlow.phase = "none" /\ Redrawn \in Key \union {None}
  BY Records, RedrawnIs DEF IInv
<1> QED BY <1>1, ClosedKeeps DEF Escape, Close

\* The advanced form is no review.
LEMMA AdvancedKeeps == ASSUME IInv, Advanced PROVE IInv'
<1>1. Redrawn \in Key \union {None}
  BY RedrawnIs DEF IInv
<1>2. flow' \in Flow /\ flow'.job = 0 /\ flow'.phase = "form"
  <2>1. \A f \in Flow : /\ [f EXCEPT !.phase = "form", !.custom = TRUE] \in Flow
                        /\ [f EXCEPT !.phase = "form", !.custom = TRUE].job = f.job
                        /\ [f EXCEPT !.phase = "form", !.custom = TRUE].phase = "form"
    <3>1. TRUE \in Flag /\ "form" \in Phases
      BY Zenon DEF Flag, Phases
    <3> QED BY <3>1, Zenon DEF Flow
  <2> QED BY <2>1, Records DEF Advanced
<1> QED BY <1>1, <1>2, ClosedKeeps DEF Advanced

\* Enter is queued with what the screen shows at that moment.
LEMMA EnterKeeps == ASSUME IInv, Enter PROVE IInv'
<1> USE DEF IInv, Enter
<1>1. PICK saw : saw = IF flow.phase = "review" THEN flow.plan ELSE None
  OBVIOUS
<1>2. saw \in Plans \union {None}
  BY <1>1 DEF TypeOK, Flow
<1>3. key' = [fresh |-> TRUE, saw |-> saw]
  BY <1>1
<1>4. key' \in Key /\ key'.saw = saw
  <2>1. TRUE \in Flag
    BY Zenon DEF Flag
  <2>2. [fresh |-> TRUE, saw |-> saw] \in Key
    BY <1>2, <2>1, Zenon DEF Key
  <2>3. [fresh |-> TRUE, saw |-> saw].saw = saw
    BY Zenon
  <2> QED BY <1>3, <2>2, <2>3, Zenon
<1>5. Shown'
  BY <1>1, <1>4 DEF Shown, Saved, rest
<1>6. Agreed'
  BY DEF Agreed, Approved, Saved, rest, past
<1>7. Steady
  BY UnchangedSteady DEF rest, past
<1>8. \A w \in Workers : Duty(w)'
  BY <1>7, DutyStays DEF Duty
<1> QED BY <1>4, <1>5, <1>6, <1>8, RestKeeps DEF TypeOK, past

\* While the flow waits for nobody, no worker is valid and none is done.
LEMMA NobodyWaits ==
  ASSUME IInv, flow.job = 0
  PROVE  \A w \in Workers : ~workers[w].valid /\ workers[w].pc # "done"
<1>1. 0 \notin Workers
  BY CoordinatedAssumption, SMT DEF Workers
<1> QED BY <1>1 DEF IInv, Duty

\* A worker that starts to apply the flow's plan: the flow waits for it.
LEMMA StartsIs ==
  ASSUME TypeOK, StartsApply(flow.plan)
  PROVE  \E n \in Workers :
           /\ IsFlow(flow', "applying", flow.plan, n)
           /\ workers[n].pc = "idle" /\ workers' \in [Workers -> Thread]
           /\ workers'[n].pc = (IF file[flow.plan].attempt = 0 THEN "plan" ELSE "verify")
           /\ workers'[n].pc \in {"plan", "verify"}
           /\ workers'[n].plan = flow.plan /\ workers'[n].io = "run"
           /\ \A v \in Workers \ {n} : workers'[v] = workers[v]
<1>1. PICK k : k = flow.plan
  OBVIOUS
<1>2. PICK n : n = Lowest(Free(workers))
  OBVIOUS
<1>3. PICK pc \in {"plan", "verify"} : pc = IF file[k].attempt = 0 THEN "plan" ELSE "verify"
  OBVIOUS
<1>4. workers \in [Workers -> Thread] /\ flow \in Flow /\ k \in Plans \union {None} /\ pc \in Pcs
  BY <1>1, <1>3 DEF TypeOK, Flow, Pcs, Calls
<1>5. /\ n \in Workers /\ workers[n].pc = "idle"
      /\ workers' \in [Workers -> Thread] /\ workers'[n].pc = pc /\ workers'[n].plan = k
      /\ workers'[n].io = "run"
      /\ \A v \in Workers \ {n} : workers'[v] = workers[v]
  <2>1. Free(workers) # {} /\ workers' = Spawned(workers, n, pc, k)
    BY <1>1, <1>2, <1>3 DEF StartsApply
  <2> QED BY <1>2, <1>4, <2>1, SpawnedIs
<1>6. IsFlow(flow', "applying", k, n)
  <2>1. flow' = [flow EXCEPT !.job = n, !.phase = "applying"]
    BY <1>2 DEF StartsApply
  <2>2. "applying" \in Phases /\ n \in 0..MaxWorker
    BY <1>5, CoordinatedAssumption, SMT DEF Phases, Workers
  <2> QED BY <1>1, <1>4, <2>1, <2>2, Flows
<1> QED BY <1>1, <1>3, <1>5, <1>6

\* A worker starts to apply the approved plan of the flow.
LEMMA ApplyStarts ==
  ASSUME IInv, flow.job = 0, Steady, UNCHANGED file, StartsApply(flow.plan),
         flow.plan \in Plans, \E a \in approved' : a.plan = flow.plan
  PROVE  /\ flow' \in Flow /\ flow'.phase = "applying" /\ flow'.plan = flow.plan
         /\ workers' \in [Workers -> Thread]
         /\ \A w \in Workers : /\ Duty(w)'
                               /\ workers[w].pc \in Calls => workers'[w] = workers[w]
<1> USE DEF IInv
<1>1. PICK k : k = flow.plan
  OBVIOUS
<1>2. PICK n \in Workers :
        /\ IsFlow(flow', "applying", k, n)
        /\ workers[n].pc = "idle" /\ workers' \in [Workers -> Thread]
        /\ workers'[n].pc = (IF file[k].attempt = 0 THEN "plan" ELSE "verify")
        /\ workers'[n].plan = k /\ workers'[n].io = "run"
        /\ \A v \in Workers \ {n} : workers'[v] = workers[v]
  BY <1>1, StartsIs
<1>3. ASSUME NEW w \in Workers PROVE Duty(w)'
  <2>1. CASE w = n
    BY <1>1, <1>2, <2>1 DEF Duty, Acting, IsFlow, Approved
  <2>2. CASE w # n
    <3>1. workers'[w] = workers[w] /\ ~workers[w].valid /\ workers[w].pc # "done"
      BY <1>2, <2>2, NobodyWaits
    <3> QED BY <3>1, DutyStays
  <2> QED BY <2>1, <2>2
<1>4. \A w \in Workers : workers[w].pc \in Calls => workers'[w] = workers[w]
  BY <1>2 DEF Calls
<1> QED BY <1>1, <1>2, <1>3, <1>4 DEF IsFlow

\* Enter, read: a fresh one approves the plan under review, which its key saw.
LEMMA ReadEnterKeeps == ASSUME IInv, ReadEnter PROVE IInv'
<1> USE DEF IInv
<1>1. Up /\ key # None /\ key' = None /\ UNCHANGED rest
  BY DEF ReadEnter, Turns
<1>2. CASE Fresh /\ Approve
  <2>1. flow.phase = "review" /\ key.saw = flow.plan /\ Saved(flow.plan) /\ flow.job = 0
    BY <1>1, <1>2 DEF Fresh, Approve, Shown, Agreed
  <2>2. approved' = approved \union {[plan |-> flow.plan, saw |-> key.saw]} /\ UNCHANGED <<started, file>>
    BY <1>1, <1>2 DEF Approve, rest
  <2>3. PICK a : a = [plan |-> flow.plan, saw |-> flow.plan]
    OBVIOUS
  <2>4. a \in [plan : Plans, saw : Plans \union {None}] /\ a.saw = flow.plan /\ a.plan = flow.plan
    BY <2>1, <2>3 DEF Saved
  <2>5. approved' = approved \union {a}
    BY <2>1, <2>2, <2>3
  <2>6. Steady /\ (\E b \in approved' : b.plan = flow.plan) /\ flow.plan \in Plans
    BY <1>1, <2>1, <2>2, <2>4, <2>5 DEF Steady, Lasting, Approved, Saved, rest
  <2>7. /\ flow' \in Flow /\ flow'.phase = "applying" /\ flow'.plan = flow.plan
        /\ workers' \in [Workers -> Thread]
        /\ \A w \in Workers : /\ Duty(w)'
                              /\ workers[w].pc \in Calls => workers'[w] = workers[w]
    BY <1>2, <2>1, <2>2, <2>6, ApplyStarts DEF Approve
  <2>8. Agreed'
    <3>1. \A b \in approved' : b.saw = b.plan /\ Saved(b.plan)'
      BY <2>1, <2>2, <2>4, <2>5 DEF Agreed, Saved
    <3>2. proc'.resume # None => Approved(proc.resume)'
      <4>1. proc' = proc /\ (proc.resume # None => Approved(proc.resume))
        BY <1>1 DEF rest, Agreed
      <4> QED BY <2>6, <4>1, SteadyPlans
    <3>3. \A k \in Plans : file'[k].phase # "none" => file'[k].pkg \in Packages
      BY <2>2 DEF Agreed
    <3> QED BY <2>6, <2>7, <3>1, <3>2, <3>3 DEF Agreed, Approved
  <2>9. Shown'
    BY <2>7 DEF Shown
  <2>10. approved' \in SUBSET [plan : Plans, saw : Plans \union {None}] /\ started' \in 0..MaxStart
    BY <2>2, <2>4, <2>5 DEF TypeOK
  <2> QED BY <1>1, <2>7, <2>8, <2>9, <2>10, RestKeeps
<1>3. CASE Fresh /\ Submit
  <2>1. PICK n : n = Lowest(Free(workers))
    OBVIOUS
  <2>2. /\ n \in Workers /\ workers[n].pc = "idle"
        /\ workers' \in [Workers -> Thread] /\ workers'[n].pc = "owners"
        /\ \A v \in Workers \ {n} : workers'[v] = workers[v]
    <3>1. Free(workers) # {} /\ workers' = Spawned(workers, n, "owners", None)
      BY <1>3, <2>1 DEF Submit
    <3>2. "owners" \in Pcs /\ workers \in [Workers -> Thread]
      BY DEF Pcs, Calls, TypeOK
    <3> QED BY <2>1, <3>1, <3>2, SpawnedIs
  <2>3. IsFlow(flow', "preparing", flow.plan, n)
    <3>1. flow' = [flow EXCEPT !.phase = "preparing", !.job = n]
      BY <1>3, <2>1 DEF Submit
    <3>2. "preparing" \in Phases /\ n \in 0..MaxWorker /\ flow \in Flow /\ flow.plan \in Plans \union {None}
      BY <2>2, CoordinatedAssumption, SMT DEF Phases, Workers, TypeOK, Flow
    <3> QED BY <3>1, <3>2, Flows
  <2>4. flow.job = 0 /\ started' \in 0..MaxStart /\ UNCHANGED approved
    BY <1>3, CoordinatedAssumption, SMT DEF Submit, Agreed, Starts, TypeOK
  <2>5. Steady
    BY <1>1, <2>4, UnchangedSteady DEF rest
  <2>6. ASSUME NEW w \in Workers PROVE Duty(w)'
    <3>1. CASE w = n
      BY <2>2, <2>3, <3>1 DEF Duty, Acting, IsFlow, Calls
    <3>2. CASE w # n
      <4>1. workers'[w] = workers[w] /\ ~workers[w].valid /\ workers[w].pc # "done"
        BY <2>2, <2>4, <3>2, NobodyWaits
      <4> QED BY <2>5, <4>1, DutyStays
    <3> QED BY <3>1, <3>2
  <2>7. Shown' /\ Agreed'
    BY <1>1, <2>3, <2>4 DEF Shown, Agreed, Approved, Saved, rest, IsFlow
  <2>8. \A w \in Workers : workers[w].pc \in Calls => workers'[w] = workers[w]
    BY <2>2 DEF Calls
  <2> QED BY <1>1, <2>2, <2>3, <2>4, <2>6, <2>7, <2>8, RestKeeps DEF IsFlow, TypeOK
<1>4. CASE Fresh /\ Close /\ UNCHANGED past
  <2>1. NoFlow \in Flow /\ NoFlow.job = 0 /\ NoFlow.phase = "none"
    BY Records
  <2> QED BY <1>1, <1>4, <2>1, ClosedKeeps DEF Close
<1>5. CASE UNCHANGED <<flow, workers, past>>
  <2>1. Shown' /\ Agreed'
    BY <1>1, <1>5 DEF Shown, Agreed, Approved, Saved, rest, past
  <2>2. Steady
    BY <1>1, <1>5, UnchangedSteady DEF rest, past
  <2>3. \A w \in Workers : Duty(w)'
    BY <1>5, <2>2, DutyStays DEF Duty
  <2> QED BY <1>1, <1>5, <2>1, <2>3, RestKeeps DEF TypeOK, past
<1> QED BY <1>2, <1>3, <1>4, <1>5 DEF ReadEnter

----------------------------------------------------------------------------
(* The workers.                                                              *)

\* Only a companion that is up has workers at work.
LEMMA WorkingUp == ASSUME IInv, NEW w \in Workers, workers[w].pc # "idle" PROVE Up
BY DEF IInv, Alone, Idle

\* A worker's step leaves the rest of the companion alone.
LEMMA CompanionKeeps ==
  ASSUME IInv, Up, UNCHANGED <<companion, flow>>, Steady,
         workers' \in [Workers -> Thread], chan' \in 0..MaxWorker, slot' \in 0..MaxWorker,
         file' \in [Plans -> Retained],
         local' \in [attempt : Nat, pkg : Packages], local'.attempt >= 1,
         \A w \in Workers : Duty(w)', Calling'
  PROVE  IInv'
<1> USE DEF IInv, companion, past, wire
<1>1. TypeOK'
  BY DEF TypeOK
<1>2. Alone' /\ Acked'
  BY DEF Alone, Acked, Up
<1>3. Shown'
  BY SteadyPlans DEF Shown
<1>4. Agreed'
  <2>1. \A k : (Saved(k) => Saved(k)') /\ (Approved(k) => Approved(k)')
    BY SteadyPlans
  <2>2. \A k \in Plans : file'[k].phase # "none" => file'[k].pkg \in Packages
    BY DEF Agreed, Steady, Lasting
  <2> QED BY <2>1, <2>2 DEF Agreed
<1> QED BY <1>1, <1>2, <1>3, <1>4

\* A worker ends, with an outcome for the flow if it waits for it.
LEMMA EndsDuties ==
  ASSUME IInv, Steady, UNCHANGED flow, NEW w \in Workers, NEW k \in Plans \union {None},
         NEW a \in {"error", "prepared", "activate", "restart"}, Ends(w, "done", a, k),
         a = "prepared" => Saved(k)', a \in {"activate", "restart"} => Approved(k)',
         workers[w].pc # "idle"
  PROVE  /\ workers' \in [Workers -> Thread]
         /\ \A v \in Workers : /\ Duty(v)'
                               /\ v # w => workers'[v] = workers[v]
<1> USE DEF IInv
<1>1. a \in Answers
  BY DEF Answers
<1>2. /\ workers' \in [Workers -> Thread]
      /\ \A v \in Workers \ {w} : workers'[v] = workers[v]
      /\ \/ /\ flow.job = w /\ workers'[w].pc = "done" /\ workers'[w].ans = a
            /\ workers'[w].plan = k /\ workers'[w].valid = workers[w].valid
            /\ workers'[w].io = "run"
         \/ flow.job # w /\ workers'[w] = Idle
  BY <1>1, EndsIs
<1>3. ASSUME NEW v \in Workers PROVE Duty(v)'
  <2>1. CASE v # w
    <3>1. workers'[v] = workers[v]
      BY <1>2, <2>1
    <3> QED BY <3>1, DutyStays DEF Duty
  <2>2. CASE v = w /\ workers'[w] = Idle
    BY <2>2, DutyIdle
  <2>3. CASE v = w /\ workers'[w] # Idle
    <3>1. /\ flow'.job = w /\ workers'[w].pc = "done" /\ workers'[w].ans = a /\ workers'[w].plan = k
          /\ workers'[w].io = "run"
      BY <1>2, <2>3
    <3> QED BY <2>3, <3>1 DEF Duty, Acting
  <2> QED BY <2>1, <2>2, <2>3
<1> QED BY <1>2, <1>3

\* A worker that is not in the channel nor in the slot changes.
LEMMA CallingOthers ==
  ASSUME TypeOK, Calling, NEW w \in Workers, UNCHANGED <<chan, slot>>,
         workers[w].io \notin {"queued", "waiting"} \/ workers[w].pc \notin Calls,
         \A v \in Workers : v # w => workers'[v] = workers[v]
  PROVE  Calling'
BY CallingStays

\* One field of one worker is set.
LEMMA WorkerIs ==
  ASSUME TypeOK, NEW w \in Workers, NEW x \in Thread, workers' = [workers EXCEPT ![w] = x]
  PROVE  /\ workers' \in [Workers -> Thread] /\ workers'[w] = x
         /\ \A v \in Workers : v # w => workers'[v] = workers[v]
<1>1. workers \in [Workers -> Thread]
  BY DEF TypeOK
<1> QED BY <1>1, Zenon

\* Another worker goes on.
LEMMA OthersDuty ==
  ASSUME IInv, Steady, UNCHANGED flow, NEW w \in Workers, Duty(w)',
         \A v \in Workers : v # w => workers'[v] = workers[v]
  PROVE  \A v \in Workers : Duty(v)'
<1>1. ASSUME NEW v \in Workers PROVE Duty(v)'
  <2>1. CASE v # w
    BY <2>1, DutyStays DEF IInv, Duty
  <2>2. CASE v = w
    BY <2>2
  <2> QED BY <2>1, <2>2
<1> QED BY <1>1

\* A worker puts its call into the channel.
LEMMA RequestKeeps == ASSUME IInv, NEW w \in Workers, Request(w) PROVE IInv'
<1> USE DEF IInv
<1>1. /\ workers \in [Workers -> Thread] /\ local \in [attempt : Nat, pkg : Packages]
      /\ workers[w].pc \in Calls /\ workers[w].io = "run" /\ workers[w].pc # "idle"
      /\ UNCHANGED <<companion, flow, slot, local>>
  BY DEF TypeOK, Request, Calls
<1>2. Up
  BY <1>1, WorkingUp
<1>3. CASE workers[w].valid /\ chan = 0 /\ chan' = w /\ UNCHANGED file
           /\ workers' = [workers EXCEPT ![w].io = "queued",
                            ![w].base = IF workers[w].pc = "prepare" THEN local.attempt ELSE 0]
  <2>1. PICK n \in Nat : n = IF workers[w].pc = "prepare" THEN local.attempt ELSE 0
    BY <1>1
  <2>2. PICK x : x = [workers[w] EXCEPT !.io = "queued", !.base = n]
    OBVIOUS
  <2>3. /\ x \in Thread /\ x.io = "queued" /\ x.pc = workers[w].pc /\ x.plan = workers[w].plan
        /\ x.valid = workers[w].valid /\ x.ans = workers[w].ans
    <3>1. workers[w] \in Thread
      BY <1>1
    <3>2. x \in Thread
      BY <2>2, <3>1, ThreadUpdates DEF Pcs, Answers
    <3>3. \A me \in Thread : LET y == [me EXCEPT !.io = "queued", !.base = n]
                             IN y.io = "queued" /\ y.pc = me.pc /\ y.plan = me.plan /\ y.valid = me.valid /\ y.ans = me.ans
      BY Zenon DEF Thread
    <3> QED BY <2>2, <3>1, <3>2, <3>3
  <2>4. workers' = [workers EXCEPT ![w] = x]
    BY <1>3, <2>1, <2>2, Zenon
  <2>5. workers' \in [Workers -> Thread] /\ workers'[w] = x /\ \A v \in Workers : v # w => workers'[v] = workers[v]
    BY <2>3, <2>4, WorkerIs
  <2>6. Steady
    BY <1>1, <1>3, UnchangedSteady DEF companion, past
  <2>7. Duty(w)'
    BY <1>1, <2>3, <2>5, <2>6, DutyStays DEF Duty, Calls
  <2>8. \A v \in Workers : Duty(v)'
    BY <1>1, <2>5, <2>6, <2>7, OthersDuty
  <2>9. Calling'
    <3>1. slot # 0 => slot \in Workers /\ slot # w
      BY <1>1, CoordinatedAssumption, SMT DEF Calling, TypeOK, Workers
    <3> QED BY <1>1, <1>3, <2>3, <2>5, <3>1 DEF Calling
  <2>10. chan' \in 0..MaxWorker /\ local'.attempt >= 1
    BY <1>1, <1>3, CoordinatedAssumption, SMT DEF Workers, Alone
  <2> QED BY <1>1, <1>2, <1>3, <2>5, <2>6, <2>8, <2>9, <2>10, CompanionKeeps DEF TypeOK
<1>4. CASE Errs(w) /\ UNCHANGED <<chan, file>>
  <2>1. Steady
    BY <1>1, <1>4, UnchangedSteady DEF companion, past
  <2>2. workers[w].plan \in Plans \union {None}
    BY <1>1 DEF Thread
  <2>3. workers' \in [Workers -> Thread] /\ \A v \in Workers : Duty(v)' /\ (v # w => workers'[v] = workers[v])
    BY <1>1, <1>4, <2>1, <2>2, EndsDuties DEF Errs
  <2>4. Calling'
    BY <1>1, <1>4, <2>3, CallingOthers
  <2> QED BY <1>1, <1>2, <1>4, <2>1, <2>3, <2>4, CompanionKeeps DEF TypeOK, Alone
<1> QED BY <1>3, <1>4 DEF Request

\* A plan is saved with a new phase: it stays the same plan.
LEMMA SavesIs ==
  ASSUME TypeOK, NEW k \in Plans, Saved(k),
         NEW ph \in {"companion_installed", "applying_core", "awaiting_frontend", "applied", "partial"},
         FailsToSave(k, ph)
  PROVE  /\ Lasting /\ file' \in [Plans -> Retained] /\ (UNCHANGED <<approved, proc>> => Steady)
         /\ \A l \in Plans : /\ l # k => file'[l] = file[l]
                             /\ file'[l].attempt = file[l].attempt /\ file'[l].pkg = file[l].pkg
<1>1. file \in [Plans -> Retained]
  BY DEF TypeOK
<1>2. CASE UNCHANGED file
  BY <1>1, <1>2 DEF Lasting, Steady
<1>3. CASE Saves(k, ph)
  <2>1. PICK x : x = [file[k] EXCEPT !.phase = ph]
    OBVIOUS
  <2>2. x \in Retained /\ x.phase = ph /\ x.pkg = file[k].pkg /\ x.attempt = file[k].attempt
    <3>1. file[k] \in Retained
      BY <1>1
    <3>2. \A e \in Retained : LET y == [e EXCEPT !.phase = ph]
                              IN y \in Retained /\ y.phase = ph /\ y.pkg = e.pkg /\ y.attempt = e.attempt
      BY Zenon DEF Retained
    <3> QED BY <2>1, <3>1, <3>2
  <2>3. file' = [file EXCEPT ![k] = x]
    BY <1>3, <2>1 DEF Saves
  <2>4. /\ file' \in [Plans -> Retained] /\ file'[k] = x
        /\ \A l \in Plans : l # k => file'[l] = file[l]
    BY <1>1, <2>2, <2>3, Zenon
  <2>5. \A l \in Plans : file'[l].attempt = file[l].attempt /\ file'[l].pkg = file[l].pkg
    BY <2>2, <2>4
  <2>6. Lasting
    <3>1. ASSUME NEW l \in Plans, file[l].phase # "none" PROVE file'[l].phase # "none"
      BY <2>2, <2>4, <3>1
    <3>2. file[k].phase # "none"
      BY DEF Saved
    <3> QED BY <2>4, <2>5, <3>1, <3>2 DEF Lasting
  <2> QED BY <2>4, <2>5, <2>6 DEF Steady
<1> QED BY <1>2, <1>3 DEF FailsToSave

\* A valid worker goes on to the next step of its work.
GoesTo(w, pc) ==
  workers' = [workers EXCEPT ![w] = [Idle EXCEPT !.pc = pc, !.plan = workers[w].plan, !.valid = TRUE]]

\* GoesTo moves one worker and no other.
LEMMA GoesIs ==
  ASSUME TypeOK, NEW w \in Workers, NEW pc \in Pcs, GoesTo(w, pc)
  PROVE  /\ workers' \in [Workers -> Thread] /\ \A v \in Workers : v # w => workers'[v] = workers[v]
         /\ workers'[w].pc = pc /\ workers'[w].plan = workers[w].plan /\ workers'[w].io = "run"
<1>1. workers[w].plan \in Plans \union {None}
  BY DEF TypeOK, Thread
<1>2. PICK k : k = workers[w].plan
  OBVIOUS
<1>3. PICK x : x = [Idle EXCEPT !.pc = pc, !.plan = k, !.valid = TRUE]
  OBVIOUS
<1>4. x \in Thread
  <2>1. TRUE \in Flag /\ "none" \in Answers
    BY Zenon DEF Flag, Answers
  <2> QED BY <1>1, <1>2, <1>3, <2>1, Threads
<1>5. x.pc = pc /\ x.plan = k /\ x.io = "run"
  BY <1>3, SMT DEF Idle
<1>6. workers' = [workers EXCEPT ![w] = x]
  BY <1>2, <1>3 DEF GoesTo
<1> QED BY <1>2, <1>4, <1>5, <1>6, WorkerIs

\* An answer, taken: the worker goes on to its next call, or is done.
LEMMA ReceiveKeeps == ASSUME IInv, NEW w \in Workers, Receive(w) PROVE IInv'
<1> USE DEF IInv
<1>1. /\ workers \in [Workers -> Thread] /\ workers[w].io = "got" /\ workers[w].pc \in Calls
      /\ workers[w].pc # "idle" /\ workers[w].plan \in Plans \union {None}
      /\ UNCHANGED <<companion, flow, chan, slot, local>> /\ UNCHANGED <<proc, approved>>
  BY DEF TypeOK, Thread, Receive, Calls, Duty, companion, past
<1>2. Up
  BY <1>1, WorkingUp
<1>3. local' \in [attempt : Nat, pkg : Packages] /\ local'.attempt >= 1 /\ chan' \in 0..MaxWorker /\ slot' \in 0..MaxWorker
  BY <1>1 DEF TypeOK, Alone
<1>4. file \in [Plans -> Retained] /\ (UNCHANGED file => Steady)
  BY <1>1, UnchangedSteady DEF TypeOK
<1>5. ASSUME Steady, file' \in [Plans -> Retained], workers' \in [Workers -> Thread],
             \A v \in Workers : Duty(v)', \A v \in Workers : v # w => workers'[v] = workers[v]
      PROVE  IInv'
  <2>1. Calling'
    BY <1>1, <1>5, CallingOthers
  <2> QED BY <1>1, <1>2, <1>3, <1>5, <2>1, CompanionKeeps
<1>6. ASSUME Steady, file' \in [Plans -> Retained], Errs(w) PROVE IInv'
  <2>1. workers' \in [Workers -> Thread] /\ \A v \in Workers : Duty(v)' /\ (v # w => workers'[v] = workers[v])
    BY <1>1, <1>6, EndsDuties DEF Errs
  <2> QED BY <1>5, <1>6, <2>1
<1>7. CASE ~workers[w].valid
  BY <1>4, <1>6, <1>7 DEF Receive
<1>8. CASE workers[w].valid
  <2>1. Proceeds(w)
    BY <1>8 DEF Receive
  <2>2. flow.job = w /\ (workers[w].pc = "apply" => Approved(workers[w].plan) /\ Saved(workers[w].plan)
                                                      /\ workers[w].plan \in Plans)
    BY <1>8 DEF Duty, Acting, Approved, Agreed
  <2>3. ASSUME workers[w].pc = "owners", GoesTo(w, "prepare"), UNCHANGED file PROVE IInv'
    <3>1. Duty(w)'
      BY <1>1, <1>8, <2>2, <2>3, GoesIs DEF Duty, Acting, Pcs, Calls
    <3>2. workers' \in [Workers -> Thread] /\ \A v \in Workers : v # w => workers'[v] = workers[v]
      BY <2>3, GoesIs DEF Pcs, Calls
    <3> QED BY <1>1, <1>4, <1>5, <2>3, <3>1, <3>2, OthersDuty
  <2>4. ASSUME workers[w].pc = "plan", GoesTo(w, "install"), UNCHANGED file PROVE IInv'
    <3>1. Duty(w)'
      BY <1>1, <1>8, <2>2, <2>4, GoesIs DEF Duty, Acting, Pcs, Calls, Approved
    <3>2. workers' \in [Workers -> Thread] /\ \A v \in Workers : v # w => workers'[v] = workers[v]
      BY <2>4, GoesIs DEF Pcs, Calls
    <3> QED BY <1>1, <1>4, <1>5, <2>4, <3>1, <3>2, OthersDuty
  <2>5. ASSUME Unused # {}, NEW p \in Packages, Ends(w, "done", "prepared", Lowest(Unused)),
               file' = [file EXCEPT ![Lowest(Unused)] =
                          [phase |-> "prepared", pkg |-> p, base |-> workers[w].base, attempt |-> 0]]
        PROVE  IInv'
    <3>1. PICK n : n = Lowest(Unused)
      OBVIOUS
    <3>2. n \in Plans /\ file[n].phase = "none"
      <4>1. Unused \in SUBSET Nat
        BY CoordinatedAssumption DEF Unused, Plans
      <4> QED BY <2>5, <3>1, <4>1, LowestIn DEF Unused
    <3>3. PICK x : x = [phase |-> "prepared", pkg |-> p, base |-> workers[w].base, attempt |-> 0]
      OBVIOUS
    <3>4. x \in Retained /\ x.phase = "prepared" /\ x.pkg = p
      BY <1>1, <3>3, SMT DEF Retained, Thread
    <3>5. /\ file' \in [Plans -> Retained] /\ file'[n] = x
          /\ \A l \in Plans : l # n => file'[l] = file[l]
      <4>1. file' = [file EXCEPT ![n] = x]
        BY <2>5, <3>1, <3>3
      <4> QED BY <1>4, <3>2, <3>4, <4>1, Zenon
    <3>6. Steady
      BY <1>1, <3>2, <3>4, <3>5 DEF Steady, Lasting
    <3>7. Saved(n)'
      BY <3>2, <3>4, <3>5 DEF Saved
    <3>8. workers' \in [Workers -> Thread] /\ \A v \in Workers : Duty(v)' /\ (v # w => workers'[v] = workers[v])
      <4>1. Ends(w, "done", "prepared", n) /\ n \in Plans \union {None}
        BY <2>5, <3>1, <3>2
      <4> QED BY <1>1, <3>6, <3>7, <4>1, EndsDuties
    <3> QED BY <1>5, <3>5, <3>6, <3>8
  <2>6. ASSUME workers[w].pc = "apply", Saves(workers[w].plan, "awaiting_frontend"),
               Ends(w, "done", "activate", workers[w].plan)
        PROVE  IInv'
    <3>1. Steady /\ file' \in [Plans -> Retained]
      BY <1>1, <2>2, <2>6, SavesIs DEF FailsToSave
    <3>2. workers' \in [Workers -> Thread] /\ \A v \in Workers : Duty(v)' /\ (v # w => workers'[v] = workers[v])
      <4>1. PICK k \in Plans : k = workers[w].plan
        BY <2>2, <2>6
      <4>2. Approved(k)'
        BY <2>2, <2>6, <3>1, <4>1, SteadyPlans
      <4> QED BY <1>1, <2>6, <3>1, <4>1, <4>2, EndsDuties
    <3> QED BY <1>5, <3>1, <3>2
  <2>7. ASSUME workers[w].pc = "apply", NEW ph \in {"awaiting_frontend", "partial"},
               FailsToSave(workers[w].plan, ph), Errs(w)
        PROVE  IInv'
    BY <1>1, <1>6, <2>2, <2>7, SavesIs
  <2>8. CASE Errs(w) /\ UNCHANGED file
    BY <1>4, <1>6, <2>8
  <2> QED BY <2>1, <2>3, <2>4, <2>5, <2>6, <2>7, <2>8 DEF Proceeds, GoesTo
<1> QED BY <1>7, <1>8

\* A worker that is not in a call moves on to pc.
LEMMA MovesIs ==
  ASSUME TypeOK, NEW w \in Workers, NEW pc \in Pcs, workers' = [workers EXCEPT ![w].pc = pc]
  PROVE  /\ workers' \in [Workers -> Thread] /\ \A v \in Workers : v # w => workers'[v] = workers[v]
         /\ workers'[w].pc = pc /\ workers'[w].plan = workers[w].plan
         /\ workers'[w].io = workers[w].io /\ workers'[w].valid = workers[w].valid
<1>1. workers[w] \in Thread
  BY DEF TypeOK
<1>2. PICK x : x = [workers[w] EXCEPT !.pc = pc]
  OBVIOUS
<1>3. x \in Thread /\ x.pc = pc /\ x.plan = workers[w].plan /\ x.io = workers[w].io /\ x.valid = workers[w].valid
  <2>1. \A me \in Thread : LET y == [me EXCEPT !.pc = pc]
                           IN y.pc = pc /\ y.plan = me.plan /\ y.io = me.io /\ y.valid = me.valid
    BY Zenon DEF Thread
  <2>2. x \in Thread
    BY <1>1, <1>2, ThreadUpdates DEF Answers
  <2> QED BY <1>1, <1>2, <2>1, <2>2
<1>4. workers' = [workers EXCEPT ![w] = x]
  BY <1>2
<1> QED BY <1>3, <1>4, WorkerIs

\* A worker that is not in a call keeps the attempt it installed.
LEMMA InstallsIs ==
  ASSUME TypeOK, NEW w \in Workers, NEW n \in Nat,
         workers' = [workers EXCEPT ![w].pc = "record", ![w].base = n]
  PROVE  /\ workers' \in [Workers -> Thread] /\ \A v \in Workers : v # w => workers'[v] = workers[v]
         /\ workers'[w].pc = "record" /\ workers'[w].base = n /\ workers'[w].plan = workers[w].plan
         /\ workers'[w].io = workers[w].io /\ workers'[w].valid = workers[w].valid
<1>1. workers[w] \in Thread
  BY DEF TypeOK
<1>2. PICK x : x = [workers[w] EXCEPT !.pc = "record", !.base = n]
  OBVIOUS
<1>3. /\ x \in Thread /\ x.pc = "record" /\ x.base = n /\ x.plan = workers[w].plan
      /\ x.io = workers[w].io /\ x.valid = workers[w].valid
  <2>1. \A me \in Thread : LET y == [me EXCEPT !.pc = "record", !.base = n]
                           IN y.pc = "record" /\ y.base = n /\ y.plan = me.plan /\ y.io = me.io /\ y.valid = me.valid
    BY Zenon DEF Thread
  <2>2. x \in Thread
    BY <1>1, <1>2, ThreadUpdates DEF Answers, Pcs
  <2> QED BY <1>1, <1>2, <2>1, <2>2
<1>4. workers' = [workers EXCEPT ![w] = x]
  BY <1>2, Zenon
<1> QED BY <1>3, <1>4, WorkerIs

\* What a worker that is not in a call has, and what its step must show.
LEMMA ActingKeeps ==
  ASSUME IInv, NEW w \in Workers, workers[w].pc \in {"install", "record", "verify", "begin"},
         UNCHANGED <<companion, flow, chan, slot>>
  PROVE  LET k == workers[w].plan
         IN /\ k \in Plans /\ Approved(k) /\ Saved(k) /\ workers[w].io = "run"
            /\ workers[w].valid => flow.job = w /\ flow.phase = "applying" /\ flow.plan = k
            /\ workers[w].pc # "idle" /\ UNCHANGED <<proc, approved>> /\ file \in [Plans -> Retained]
            /\ (/\ Steady /\ file' \in [Plans -> Retained] /\ workers' \in [Workers -> Thread]
                /\ local' \in [attempt : Nat, pkg : Packages] /\ local'.attempt >= 1
                /\ \A v \in Workers : Duty(v)' /\ (v # w => workers'[v] = workers[v]))
               => IInv'
<1> USE DEF IInv
<1>1. PICK k : k = workers[w].plan
  OBVIOUS
<1>2. k \in Plans /\ Approved(k) /\ Saved(k) /\ workers[w].pc \notin Calls /\ workers[w].pc # "idle"
  BY <1>1 DEF Duty, Acting, Approved, Agreed, Calls
<1>3. /\ workers[w].io = "run"
      /\ workers[w].valid => flow.job = w /\ flow.phase = "applying" /\ flow.plan = k
  BY <1>1, <1>2 DEF Duty, Acting
<1>4. UNCHANGED <<proc, approved>> /\ file \in [Plans -> Retained] /\ Up
  BY <1>2, WorkingUp DEF companion, past, TypeOK
<1>5. ASSUME Steady, file' \in [Plans -> Retained], workers' \in [Workers -> Thread],
             local' \in [attempt : Nat, pkg : Packages], local'.attempt >= 1,
             \A v \in Workers : Duty(v)' /\ (v # w => workers'[v] = workers[v])
      PROVE  IInv'
  <2>1. Calling'
    BY <1>2, <1>5, CallingOthers
  <2>2. chan' \in 0..MaxWorker /\ slot' \in 0..MaxWorker
    BY DEF TypeOK
  <2> QED BY <1>4, <1>5, <2>1, <2>2, CompanionKeeps
<1> QED BY <1>1, <1>2, <1>3, <1>4, <1>5

\* A worker that gives up, whatever became of the plan's file.
LEMMA ErrsKeeps ==
  ASSUME IInv, NEW w \in Workers, workers[w].pc \in {"install", "record", "verify", "begin"},
         UNCHANGED <<companion, flow, chan, slot, local>>, Errs(w), Steady, file' \in [Plans -> Retained]
  PROVE  IInv'
<1>1. workers[w].plan \in Plans \union {None} /\ workers[w].pc # "idle"
  BY ActingKeeps
<1>2. workers' \in [Workers -> Thread] /\ \A v \in Workers : Duty(v)' /\ (v # w => workers'[v] = workers[v])
  BY <1>1, EndsDuties DEF Errs
<1>3. local' \in [attempt : Nat, pkg : Packages] /\ local'.attempt >= 1
  BY DEF IInv, TypeOK, Alone
<1> QED BY <1>2, <1>3, ActingKeeps

\* Verified, the package of an approved plan is the one that runs.
LEMMA VerifyKeeps == ASSUME IInv, NEW w \in Workers, Verify(w) PROVE IInv'
<1>1. PICK k : k = workers[w].plan
  OBVIOUS
<1>2. workers[w].pc = "verify" /\ UNCHANGED <<companion, flow, chan, slot, file, local>>
  BY DEF Verify
<1>3. /\ k \in Plans /\ Approved(k) /\ workers[w].io = "run" /\ UNCHANGED <<proc, approved>>
      /\ workers[w].valid => flow.job = w /\ flow.phase = "applying" /\ flow.plan = k
  BY <1>1, <1>2, ActingKeeps
<1>4. Steady /\ file' \in [Plans -> Retained] /\ local' \in [attempt : Nat, pkg : Packages] /\ local'.attempt >= 1
  BY <1>2, <1>3, UnchangedSteady DEF IInv, TypeOK, Alone
<1>5. CASE Verified(k) /\ workers' = [workers EXCEPT ![w].pc = "begin"]
  <2>1. /\ workers' \in [Workers -> Thread] /\ \A v \in Workers : v # w => workers'[v] = workers[v]
        /\ workers'[w].pc = "begin" /\ workers'[w].plan = k
        /\ workers'[w].io = workers[w].io /\ workers'[w].valid = workers[w].valid
    BY <1>1, <1>5, MovesIs DEF Pcs, IInv
  <2>2. file[k].attempt # 0 /\ proc.pkg = file[k].pkg
    BY <1>1, <1>2, <1>5 DEF IInv, Duty, Verified, RunsCandidate
  <2>3. Duty(w)'
    BY <1>2, <1>3, <2>1, <2>2 DEF Duty, Acting, Approved, Calls
  <2>4. \A v \in Workers : Duty(v)'
    BY <1>2, <1>4, <2>1, <2>3, OthersDuty
  <2> QED BY <1>2, <1>4, <2>1, <2>4, ActingKeeps
<1>6. CASE Errs(w)
  BY <1>2, <1>4, <1>6, ErrsKeeps
<1> QED BY <1>1, <1>5, <1>6 DEF Verify

\* The core is asked to apply an approved plan once its package was verified to run.
LEMMA BeginKeeps == ASSUME IInv, NEW w \in Workers, Begin(w) PROVE IInv'
<1>1. PICK k : k = workers[w].plan
  OBVIOUS
<1>2. workers[w].pc = "begin" /\ UNCHANGED <<companion, flow, chan, slot, local>>
  BY DEF Begin
<1>3. /\ k \in Plans /\ Approved(k) /\ Saved(k) /\ workers[w].io = "run" /\ UNCHANGED <<proc, approved>>
      /\ workers[w].valid => flow.job = w /\ flow.phase = "applying" /\ flow.plan = k
  BY <1>1, <1>2, ActingKeeps
<1>4. FailsToSave(k, "applying_core")
  BY <1>1 DEF Begin, FailsToSave
<1>5. /\ Steady /\ file' \in [Plans -> Retained]
      /\ file'[k].attempt = file[k].attempt /\ file'[k].pkg = file[k].pkg
  BY <1>3, <1>4, SavesIs DEF IInv
<1>6. local' \in [attempt : Nat, pkg : Packages] /\ local'.attempt >= 1
  BY <1>2 DEF IInv, TypeOK, Alone
<1>7. CASE workers' = [workers EXCEPT ![w].pc = "apply"]
  <2>1. /\ workers' \in [Workers -> Thread] /\ \A v \in Workers : v # w => workers'[v] = workers[v]
        /\ workers'[w].pc = "apply" /\ workers'[w].plan = k
        /\ workers'[w].io = workers[w].io /\ workers'[w].valid = workers[w].valid
    BY <1>1, <1>7, MovesIs DEF Pcs, Calls, IInv
  <2>2. file'[k].attempt # 0 /\ proc'.pkg = file'[k].pkg
    BY <1>1, <1>2, <1>3, <1>5 DEF IInv, Duty
  <2>3. Duty(w)'
    <3>1. Approved(k)'
      BY <1>3, <1>5, SteadyPlans
    <3>2. UNCHANGED flow
      BY <1>2
    <3> QED BY <1>3, <2>1, <2>2, <3>1, <3>2 DEF Duty, Acting, Calls
  <2>4. \A v \in Workers : Duty(v)'
    BY <1>2, <1>5, <2>1, <2>3, OthersDuty
  <2> QED BY <1>2, <1>5, <1>6, <2>1, <2>4, ActingKeeps
<1>8. CASE Errs(w)
  BY <1>2, <1>5, <1>8, ErrsKeeps
<1> QED BY <1>7, <1>8 DEF Begin

\* The package of an approved plan is installed, and the worker has its attempt.
LEMMA InstallKeeps == ASSUME IInv, NEW w \in Workers, Install(w) PROVE IInv'
<1>1. PICK k : k = workers[w].plan
  OBVIOUS
<1>2. workers[w].pc = "install" /\ UNCHANGED <<companion, flow, chan, slot, file>>
  BY DEF Install
<1>3. /\ k \in Plans /\ Approved(k) /\ Saved(k) /\ workers[w].io = "run" /\ UNCHANGED <<proc, approved>>
      /\ workers[w].valid => flow.job = w /\ flow.phase = "applying" /\ flow.plan = k
  BY <1>1, <1>2, ActingKeeps
<1>4. Steady /\ file' \in [Plans -> Retained]
  BY <1>2, <1>3, UnchangedSteady DEF IInv, TypeOK
<1>5. CASE /\ local' \in Installed(file[k].pkg)
           /\ workers' = [workers EXCEPT ![w].pc = "record", ![w].base = local'.attempt]
  <2>1. local' \in [attempt : Nat, pkg : Packages] /\ local'.attempt >= 1
    <3>1. file[k].pkg \in Packages
      BY <1>3 DEF IInv, Agreed, Saved
    <3> QED BY <1>5, <3>1, InstalledIs DEF IInv
  <2>2. PICK n \in Nat : n = local'.attempt
    BY <2>1
  <2>3. n # 0
    BY <2>1, <2>2, SMT
  <2>4. workers' = [workers EXCEPT ![w].pc = "record", ![w].base = n]
    BY <1>5, <2>2
  <2>5. /\ workers' \in [Workers -> Thread] /\ \A v \in Workers : v # w => workers'[v] = workers[v]
        /\ workers'[w].pc = "record" /\ workers'[w].base = n /\ workers'[w].plan = k
        /\ workers'[w].io = workers[w].io /\ workers'[w].valid = workers[w].valid
    BY <1>1, <2>4, InstallsIs DEF IInv
  <2>6. Duty(w)'
    <3>1. Approved(k)' /\ UNCHANGED flow
      BY <1>2, <1>3, <1>4, SteadyPlans
    <3> QED BY <1>3, <2>3, <2>5, <3>1 DEF Duty, Acting, Calls
  <2>7. \A v \in Workers : Duty(v)'
    BY <1>2, <1>4, <2>5, <2>6, OthersDuty
  <2> QED BY <1>2, <1>4, <2>1, <2>5, <2>7, ActingKeeps
<1>6. CASE Errs(w) /\ UNCHANGED local
  BY <1>2, <1>4, <1>6, ErrsKeeps
<1> QED BY <1>1, <1>5, <1>6 DEF Install

\* What Record saves: the plan with the attempt that was installed for it.
Recorded(k, n) == [file EXCEPT ![k].attempt = n, ![k].phase = "companion_installed"]

\* The plan with its attempt is the same plan.
LEMMA RecordedIs ==
  ASSUME TypeOK, NEW k \in Plans, Saved(k), NEW n \in Nat, n # 0, file' = Recorded(k, n)
  PROVE  /\ Lasting /\ file' \in [Plans -> Retained] /\ (UNCHANGED <<approved, proc>> => Steady)
         /\ file'[k].attempt = n /\ file'[k].phase = "companion_installed"
         /\ \A l \in Plans : l # k => file'[l] = file[l]
<1>1. file \in [Plans -> Retained]
  BY DEF TypeOK
<1>2. PICK x : x = [file[k] EXCEPT !.attempt = n, !.phase = "companion_installed"]
  OBVIOUS
<1>3. x \in Retained /\ x.attempt = n /\ x.phase = "companion_installed" /\ x.pkg = file[k].pkg
  <2>1. file[k] \in Retained
    BY <1>1
  <2>2. \A e \in Retained : LET y == [e EXCEPT !.attempt = n, !.phase = "companion_installed"]
           IN y \in Retained /\ y.attempt = n /\ y.phase = "companion_installed" /\ y.pkg = e.pkg
    BY Zenon DEF Retained
  <2> QED BY <1>2, <2>1, <2>2
<1>4. file' = [file EXCEPT ![k] = x]
  BY <1>2 DEF Recorded
<1>5. file' \in [Plans -> Retained] /\ file'[k] = x /\ \A l \in Plans : l # k => file'[l] = file[l]
  BY <1>1, <1>3, <1>4, Zenon
<1>6. Lasting
  BY <1>3, <1>5 DEF Lasting, Saved
<1> QED BY <1>3, <1>5, <1>6 DEF Steady

\* The approved plan has its attempt; its companion runs already, or is restarted into.
LEMMA RecordKeeps == ASSUME IInv, NEW w \in Workers, Record(w) PROVE IInv'
<1>1. PICK k : k = workers[w].plan
  OBVIOUS
<1>2. workers[w].pc = "record" /\ UNCHANGED <<companion, flow, chan, slot, local>>
  BY DEF Record
<1>3. /\ k \in Plans /\ Approved(k) /\ Saved(k) /\ workers[w].io = "run" /\ UNCHANGED <<proc, approved>>
      /\ workers[w].valid => flow.job = w /\ flow.phase = "applying" /\ flow.plan = k
      /\ file \in [Plans -> Retained]
  BY <1>1, <1>2, ActingKeeps
<1>4. PICK n \in Nat : n = workers[w].base /\ n # 0
  BY <1>2 DEF IInv, TypeOK, Thread, Duty
<1>5. local' \in [attempt : Nat, pkg : Packages] /\ local'.attempt >= 1
  BY <1>2 DEF IInv, TypeOK, Alone
<1>6. CASE file' = Recorded(k, n)
  <2>1. /\ Steady /\ file' \in [Plans -> Retained] /\ file'[k].attempt = n
    BY <1>3, <1>4, <1>6, RecordedIs DEF IInv
  <2>2. Approved(k)'
    BY <1>3, <2>1, SteadyPlans
  <2>3. CASE workers' = [workers EXCEPT ![w].pc = "verify"]
    <3>1. /\ workers' \in [Workers -> Thread] /\ \A v \in Workers : v # w => workers'[v] = workers[v]
          /\ workers'[w].pc = "verify" /\ workers'[w].plan = k
          /\ workers'[w].io = workers[w].io /\ workers'[w].valid = workers[w].valid
      BY <1>1, <2>3, MovesIs DEF Pcs, IInv
    <3>2. Duty(w)'
      <4>1. UNCHANGED flow
        BY <1>2
      <4> QED BY <1>3, <1>4, <2>1, <2>2, <3>1, <4>1 DEF Duty, Acting, Calls
    <3>3. \A v \in Workers : Duty(v)'
      BY <1>2, <2>1, <3>1, <3>2, OthersDuty
    <3> QED BY <1>2, <1>5, <2>1, <3>1, <3>3, ActingKeeps
  <2>4. CASE Ends(w, "done", "restart", k)
    <3>1. k \in Plans \union {None} /\ workers[w].pc # "idle"
      BY <1>2, <1>3
    <3>2. workers' \in [Workers -> Thread] /\ \A v \in Workers : Duty(v)' /\ (v # w => workers'[v] = workers[v])
      BY <1>2, <2>1, <2>2, <2>4, <3>1, EndsDuties
    <3> QED BY <1>2, <1>5, <2>1, <3>2, ActingKeeps
  <2>5. CASE Errs(w)
    BY <1>2, <2>1, <2>5, ErrsKeeps
  <2> QED BY <1>1, <2>3, <2>4, <2>5 DEF Record
<1>7. CASE UNCHANGED file /\ Errs(w)
  <2>1. Steady /\ file' \in [Plans -> Retained]
    BY <1>3, <1>7, UnchangedSteady
  <2> QED BY <1>2, <1>7, <2>1, ErrsKeeps
<1> QED BY <1>1, <1>4, <1>6, <1>7 DEF Record, Recorded

----------------------------------------------------------------------------
(* The event loop.                                                           *)

\* What is sent to the frontend is a packet, and dropped unless it is listening.
LEMMA SentType == ASSUME TypeOK, NEW p \in Downward PROVE Sent(p) \in Seq(Downward)
<1>1. down \in Seq(Downward)
  BY DEF TypeOK
<1> QED BY <1>1, SMT DEF Sent

\* The call moves from the channel to the one slot.
LEMMA DequeueKeeps == ASSUME IInv, Dequeue PROVE IInv'
<1> USE DEF IInv
<1>1. PICK w : w = chan
  OBVIOUS
<1>2. /\ Up /\ slot = 0 /\ w \in Workers /\ chan' = 0
      /\ UNCHANGED <<proc, link, flow, key, approved, seen, started, front, up, file, local, core, mishaps>>
  BY <1>1, CoordinatedAssumption, SMT DEF Dequeue, Turns, TypeOK, Workers, ui, past
<1>3. workers[w].pc \in Calls /\ workers[w].io = "queued" /\ workers[w] \in Thread
  BY <1>1, <1>2 DEF Calling, TypeOK, Dequeue
<1>4. Steady
  BY <1>2, UnchangedSteady
<1>5. ASSUME workers' \in [Workers -> Thread], \A v \in Workers : v # w => workers'[v] = workers[v],
             Duty(w)', slot' \in 0..MaxWorker, down' \in Seq(Downward), Calling'
      PROVE  IInv'
  <2>1. \A v \in Workers : Duty(v)'
    BY <1>2, <1>4, <1>5, OthersDuty
  <2>2. TypeOK'
    BY <1>2, <1>5, CoordinatedAssumption DEF TypeOK
  <2>3. Shown' /\ Agreed' /\ Alone' /\ Acked'
    BY <1>2 DEF Shown, Agreed, Alone, Acked, Up, Saved, Approved
  <2> QED BY <1>5, <2>1, <2>2, <2>3
<1>6. CASE workers[w].valid /\ link.cap
  <2>1. PICK x : x = [workers[w] EXCEPT !.io = "waiting"]
    OBVIOUS
  <2>2. /\ x \in Thread /\ x.io = "waiting" /\ x.pc = workers[w].pc /\ x.plan = workers[w].plan
        /\ x.valid = workers[w].valid
    <3>1. \A me \in Thread : LET y == [me EXCEPT !.io = "waiting"]
                             IN y.io = "waiting" /\ y.pc = me.pc /\ y.plan = me.plan /\ y.valid = me.valid
      BY Zenon DEF Thread
    <3>2. x \in Thread
      BY <1>3, <2>1, ThreadUpdates DEF Pcs, Answers
    <3> QED BY <1>3, <2>1, <3>1, <3>2
  <2>3. /\ slot' = w /\ workers' = [workers EXCEPT ![w] = x]
        /\ down' = Sent(Packet("call", workers[w].plan, workers[w].pc))
    BY <1>1, <1>6, <2>1 DEF Dequeue
  <2>4. workers' \in [Workers -> Thread] /\ workers'[w] = x /\ \A v \in Workers : v # w => workers'[v] = workers[v]
    BY <1>2, <2>2, <2>3, WorkerIs
  <2>5. Duty(w)'
    BY <1>2, <1>3, <1>4, <2>2, <2>4, DutyStays DEF Calls
  <2>6. down' \in Seq(Downward)
    <3>1. workers[w].pc \in {"plan", "apply"} => workers[w].plan \in Plans
      BY <1>2 DEF Duty, Acting, Approved
    <3>2. workers[w].plan \in Plans \union {None}
      BY <1>3 DEF Thread
    <3>3. Packet("call", workers[w].plan, workers[w].pc) \in Downward
      BY <1>3, <3>1, <3>2, SMT DEF Packet, Downward, Call, Calls
    <3> QED BY <2>3, <3>3, SentType
  <2>7. Calling' /\ slot' \in 0..MaxWorker
    BY <1>2, <1>3, <2>2, <2>3, <2>4, CoordinatedAssumption, SMT DEF Calling, Workers
  <2> QED BY <1>5, <2>4, <2>5, <2>6, <2>7
<1>7. CASE ~ (workers[w].valid /\ link.cap)
  <2>1. PICK x : x = [workers[w] EXCEPT !.io = "got", !.ans = "no"]
    OBVIOUS
  <2>2. x \in Thread /\ x.pc = workers[w].pc /\ x.plan = workers[w].plan /\ x.valid = workers[w].valid
    <3>1. \A me \in Thread : LET y == [me EXCEPT !.io = "got", !.ans = "no"]
                             IN y.pc = me.pc /\ y.plan = me.plan /\ y.valid = me.valid
      BY Zenon DEF Thread
    <3>2. x \in Thread
      BY <1>3, <2>1, ThreadUpdates DEF Pcs, Answers
    <3> QED BY <1>3, <2>1, <3>1, <3>2
  <2>3. workers' = [workers EXCEPT ![w] = x] /\ UNCHANGED <<slot, down>>
    BY <1>1, <1>7, <2>1 DEF Dequeue
  <2>4. workers' \in [Workers -> Thread] /\ workers'[w] = x /\ \A v \in Workers : v # w => workers'[v] = workers[v]
    BY <1>2, <2>2, <2>3, WorkerIs
  <2>5. Duty(w)'
    BY <1>2, <1>3, <1>4, <2>2, <2>4, DutyStays DEF Calls
  <2>6. Calling' /\ slot' \in 0..MaxWorker /\ down' \in Seq(Downward)
    BY <1>2, <2>3 DEF Calling, TypeOK
  <2> QED BY <1>5, <2>4, <2>5, <2>6
<1> QED BY <1>6, <1>7

\* A wait that takes too long fails the flow and leaves the plans alone.
LEMMA TimesOutKeeps == ASSUME IInv, TimesOut PROVE IInv'
<1> USE DEF IInv
<1>1. IsFlow(flow', "failed", flow.plan, 0)
  <2>1. /\ "failed" \in Phases /\ 0 \in 0..MaxWorker /\ flow \in Flow
        /\ flow.plan \in Plans \union {None}
    BY CoordinatedAssumption DEF Phases, TypeOK, Flow
  <2> QED BY <2>1, Flows DEF TimesOut, Fails
<1>2. Up /\ key' \in Key \union {None} /\ UNCHANGED <<rest, past>>
  BY RedrawnIs DEF TimesOut, rest, past
<1>3. CASE workers' = Invalidated(0)
  BY <1>1, <1>2, <1>3, ClosedKeeps DEF IsFlow
<1>4. CASE flow.phase = "waiting" /\ UNCHANGED workers
  <2>1. flow.job = 0
    BY <1>4 DEF Agreed
  <2>2. Shown' /\ Agreed'
    BY <1>1, <1>2 DEF Shown, Agreed, Approved, Saved, rest, past, IsFlow
  <2>3. Steady
    BY <1>2, UnchangedSteady DEF rest, past
  <2>4. \A w \in Workers : Duty(w)'
    BY <1>4, <2>1, <2>3, NobodyWaits, DutyStays
  <2> QED BY <1>1, <1>2, <1>4, <2>2, <2>4, RestKeeps DEF TypeOK, past, IsFlow
<1> QED BY <1>3, <1>4 DEF TimesOut

\* The worker whose outcome was taken is free again; no other was waited for.
LEMMA TakenDuties ==
  ASSUME IInv, flow.job # 0, workers[flow.job].pc = "done", Steady,
         workers' = [workers EXCEPT ![flow.job] = Idle]
  PROVE  /\ workers' \in [Workers -> Thread]
         /\ \A v \in Workers : /\ Duty(v)'
                               /\ workers[v].pc \in Calls => workers'[v] = workers[v]
<1> USE DEF IInv
<1>1. PICK w \in Workers : w = flow.job
  BY CoordinatedAssumption, SMT DEF TypeOK, Flow, Workers
<1>2. workers' \in [Workers -> Thread] /\ workers'[w] = Idle /\ \A v \in Workers : v # w => workers'[v] = workers[v]
  <2>1. workers' = [workers EXCEPT ![w] = Idle] /\ Idle \in Thread
    BY <1>1, Records
  <2> QED BY <2>1, WorkerIs
<1>3. ASSUME NEW v \in Workers PROVE Duty(v)'
  <2>1. CASE v = w
    BY <1>2, <2>1, DutyIdle
  <2>2. CASE v # w
    <3>1. workers'[v] = workers[v] /\ ~workers[v].valid /\ workers[v].pc # "done"
      BY <1>1, <1>2, <2>2 DEF Duty
    <3> QED BY <3>1, DutyStays
  <2> QED BY <2>1, <2>2
<1> QED BY <1>1, <1>2, <1>3 DEF Calls

\* The outcome of a worker is applied if its generation is current, and dropped otherwise.
LEMMA OutcomeKeeps == ASSUME IInv, Outcome PROVE IInv'
<1> USE DEF IInv
<1>1. PICK w \in Workers : w = flow.job
  BY CoordinatedAssumption, SMT DEF Outcome, TypeOK, Flow, Workers
<1>2. PICK k : k = workers[w].plan
  OBVIOUS
<1>3. /\ Up /\ flow.job # 0 /\ workers[flow.job].pc = "done" /\ UNCHANGED <<file, local, past, mishaps, approved, seen, started>>
      /\ k \in Plans \union {None} /\ flow \in Flow /\ flow.plan \in Plans \union {None}
      /\ {"review", "waiting", "form", "failed"} \subseteq Phases /\ 0 \in 0..MaxWorker
  BY <1>1, <1>2, CoordinatedAssumption DEF Outcome, TypeOK, Flow, Thread, past, Phases
<1>4. Redrawn \in Key \union {None} /\ (Redrawn # None => ~Redrawn.fresh)
  BY RedrawnIs
<1>5. CASE workers[w].ans = "restart" /\ Restart(k)
  <2>1. Approved(k)
    BY <1>1, <1>2, <1>3, <1>5 DEF Duty
  <2>2. local \in [attempt : Nat, pkg : Packages]
    BY DEF TypeOK
  <2>3. PICK p : p = IF local.attempt = file[k].attempt
                       THEN [st |-> "starting", pkg |-> local.pkg, ack |-> local.attempt, resume |-> k]
                       ELSE Off
    OBVIOUS
  <2>4. /\ p \in Process /\ p.st # "up" /\ (p.st # "off" => p.pkg \in Packages)
        /\ (p.resume # None => Approved(p.resume))
    <3>1. CASE local.attempt = file[k].attempt
      BY <1>3, <2>1, <2>2, <2>3, <3>1, SMT DEF Process, Approved
    <3>2. CASE local.attempt # file[k].attempt
      BY <2>3, <3>2, Records
    <3> QED BY <3>1, <3>2
  <2>5. Leaves(p)
    BY <1>5, <2>3 DEF Restart
  <2>6. file' \in [Plans -> Retained] /\ Lasting
    BY <1>3, UnchangedLasting
  <2> QED BY <1>3, <2>4, <2>5, <2>6, LeavesKeeps DEF TypeOK
<1>6. CASE key' = Redrawn /\ workers' = [workers EXCEPT ![w] = Idle] /\ UNCHANGED <<proc, link, chan, slot, front, up, core>>
  <2>1. Steady
    BY <1>3, <1>6, UnchangedSteady
  <2>2. /\ workers' \in [Workers -> Thread]
        /\ \A v \in Workers : /\ Duty(v)'
                              /\ workers[v].pc \in Calls => workers'[v] = workers[v]
    BY <1>1, <1>3, <1>6, <2>1, TakenDuties
  <2>3. ASSUME NEW ph \in {"review", "waiting", "form", "failed"}, NEW l \in Plans \union {None},
               IsFlow(flow', ph, l, 0), down' \in Seq(Downward),
               ph = "review" => Saved(l), ph = "waiting" => Approved(l)
        PROVE  IInv'
    <3>1. Shown'
      BY <1>3, <1>4, <1>6, <2>3 DEF Shown, Saved, IsFlow
    <3>2. Agreed'
      BY <1>3, <1>6, <2>3 DEF Agreed, Saved, Approved, IsFlow
    <3> QED BY <1>3, <1>4, <1>6, <2>2, <2>3, <3>1, <3>2, SendsKeeps DEF TypeOK, IsFlow
  <2>4. CASE workers[w].ans = "prepared" /\ flow' = [flow EXCEPT !.phase = "review", !.plan = k, !.job = 0] /\ UNCHANGED wire
    <3>1. IsFlow(flow', "review", k, 0)
      BY <1>3, <2>4, Flows
    <3>2. Saved(k) /\ down' \in Seq(Downward)
      BY <1>1, <1>2, <1>3, <2>4 DEF Duty, wire, TypeOK
    <3> QED BY <1>3, <2>3, <3>1, <3>2
  <2>5. CASE /\ workers[w].ans = "activate" /\ flow' = [flow EXCEPT !.phase = "waiting", !.plan = k, !.job = 0]
             /\ down' = Sent(Packet("activate", k, "none"))
    <3>1. IsFlow(flow', "waiting", k, 0)
      BY <1>3, <2>5, Flows
    <3>2. Approved(k) /\ k \in Plans
      BY <1>1, <1>2, <1>3, <2>5 DEF Duty, Approved
    <3>3. down' \in Seq(Downward)
      <4>1. Packet("activate", k, "none") \in Downward
        BY <3>2, SMT DEF Packet, Downward
      <4> QED BY <2>5, <4>1, SentType
    <3> QED BY <1>3, <2>3, <3>1, <3>2, <3>3
  <2>6. CASE /\ UNCHANGED wire
             /\ IF flow.phase = "preparing" /\ flow.custom
                  THEN flow' = [flow EXCEPT !.phase = "form", !.job = 0] ELSE Fails
    <3>1. IsFlow(flow', "form", flow.plan, 0) \/ IsFlow(flow', "failed", flow.plan, 0)
      <4>1. "form" \in Phases /\ "failed" \in Phases
        BY DEF Phases
      <4>2. IsFlow([flow EXCEPT !.phase = "form", !.job = 0], "form", flow.plan, 0)
        BY <1>3, <4>1, Flows
      <4>3. IsFlow([flow EXCEPT !.phase = "failed", !.job = 0], "failed", flow.plan, 0)
        BY <1>3, <4>1, Flows
      <4> QED BY <2>6, <4>2, <4>3, Zenon DEF Fails
    <3>2. down' \in Seq(Downward)
      BY <2>6 DEF wire, TypeOK
    <3> QED BY <1>3, <2>3, <3>1, <3>2
  <2>7. \/ workers[w].ans = "prepared" /\ flow' = [flow EXCEPT !.phase = "review", !.plan = k, !.job = 0] /\ UNCHANGED wire
        \/ /\ workers[w].ans = "activate" /\ flow' = [flow EXCEPT !.phase = "waiting", !.plan = k, !.job = 0]
           /\ down' = Sent(Packet("activate", k, "none"))
        \/ /\ UNCHANGED wire
           /\ IF flow.phase = "preparing" /\ flow.custom
                THEN flow' = [flow EXCEPT !.phase = "form", !.job = 0] ELSE Fails
        \/ workers[w].ans = "restart" /\ Restart(k)
    BY <1>1, <1>2, Zenon DEF Outcome
  <2> QED BY <1>5, <2>4, <2>5, <2>6, <2>7
<1>7. \/ workers[w].ans = "restart" /\ Restart(k)
      \/ key' = Redrawn /\ workers' = [workers EXCEPT ![w] = Idle] /\ UNCHANGED <<proc, link, chan, slot, front, up, core>>
  BY <1>1, <1>2, Zenon DEF Outcome, wire
<1> QED BY <1>5, <1>6, <1>7

----------------------------------------------------------------------------
(* Packets from the frontend.                                                *)

\* The packet that is read, and what is left.
LEMMA PacketRead ==
  ASSUME TypeOK, Acked, up # <<>>
  PROVE  /\ Head(up) \in Sendable(core) /\ Head(up) \in Upward
         /\ Tail(up) \in Seq(Sendable(core)) /\ Tail(up) \in Seq(Upward)
<1>1. up \in Seq(Sendable(core)) /\ up \in Seq(Upward)
  BY DEF Acked, Sendable, TypeOK
<1>2. Head(up) \in Sendable(core) /\ Tail(up) \in Seq(Sendable(core)) /\ Tail(up) \in Seq(Upward)
  <2> HIDE DEF Sendable, Upward
  <2> QED BY <1>1, SMT
<1> QED BY <1>2 DEF Sendable

\* The wire while a packet is read.
Reading ==
  /\ Up /\ up # <<>> /\ up' = Tail(up)
  /\ \E b \in Flag : front' = [front EXCEPT !.greeted = b]
  /\ UNCHANGED <<proc, chan, core, local, approved, started, mishaps>>
  /\ seen' \in [attempt : Nat, pkg : Packages]

\* What the readers of a packet have in common.
LEMMA ReadingKeeps ==
  ASSUME IInv, Reading, Steady, link' \in Link, flow' \in Flow, key' \in Key \union {None},
         workers' \in [Workers -> Thread], slot' \in 0..MaxWorker, file' \in [Plans -> Retained],
         down' \in Seq(Downward), Shown', Agreed', \A w \in Workers : Duty(w)', Calling'
  PROVE  IInv'
<1> USE DEF IInv, Reading
<1>1. front' \in Remote /\ front'.ack = front.ack
  <2>1. \A f \in Remote, b \in Flag : [f EXCEPT !.greeted = b] \in Remote /\ [f EXCEPT !.greeted = b].ack = f.ack
    BY Zenon DEF Remote
  <2> QED BY <2>1 DEF TypeOK
<1>2. up' \in Seq(Upward) /\ up' \in Seq(Sendable(core))
  BY PacketRead
<1>3. TypeOK'
  BY <1>1, <1>2 DEF TypeOK
<1>4. Alone'
  BY DEF Alone, Up
<1>5. Acked'
  BY <1>1, <1>2 DEF Acked, Sendable
<1> QED BY <1>3, <1>4, <1>5

\* A resumed update goes on.
LEMMA ReadyKeeps ==
  ASSUME IInv, NEW l, Ready(l), UNCHANGED <<proc, file, approved, key>>
  PROVE  /\ flow' \in Flow /\ workers' \in [Workers -> Thread] /\ Shown' /\ Agreed'
         /\ \A w \in Workers : /\ Duty(w)'
                               /\ workers[w].pc \in Calls => workers'[w] = workers[w]
<1> USE DEF IInv
<1>1. Steady
  BY UnchangedSteady
<1>2. CASE UNCHANGED <<flow, workers>>
  <2>1. Shown' /\ Agreed'
    BY <1>2 DEF Shown, Agreed, Saved, Approved
  <2>2. \A w \in Workers : Duty(w)'
    BY <1>1, <1>2, DutyStays DEF Duty
  <2> QED BY <1>2, <2>1, <2>2 DEF TypeOK
<1>3. CASE l.connected /\ l.cap /\ Resumes
  <2>1. flow.job = 0 /\ flow.phase = "applying" /\ flow.plan \in Plans /\ \E a \in approved : a.plan = flow.plan
    BY <1>3 DEF Resumes, Agreed, Approved
  <2>2. StartsApply(flow.plan)
    BY <1>3 DEF Ready
  <2>3. /\ flow' \in Flow /\ flow'.phase = "applying" /\ flow'.plan = flow.plan
        /\ workers' \in [Workers -> Thread]
        /\ \A w \in Workers : /\ Duty(w)'
                              /\ workers[w].pc \in Calls => workers'[w] = workers[w]
    BY <1>1, <2>1, <2>2, ApplyStarts
  <2>4. Shown' /\ Agreed'
    BY <2>1, <2>3 DEF Shown, Agreed, Saved, Approved
  <2> QED BY <2>3, <2>4
<1> QED BY <1>2, <1>3 DEF Ready

\* The updates of the link that a packet makes keep it a link.
LEMMA LinkUpdates ==
  ASSUME NEW l \in Link
  PROVE  /\ [l EXCEPT !.pending = FALSE, !.connected = TRUE] \in Link
         /\ [l EXCEPT !.pending = FALSE] \in Link
         /\ [l EXCEPT !.cap = TRUE] \in Link
         /\ [l EXCEPT !.cap = FALSE, !.connected = FALSE] \in Link
<1>1. TRUE \in Flag /\ FALSE \in Flag
  BY Zenon DEF Flag
<1>2. [l EXCEPT !.pending = FALSE, !.connected = TRUE] \in Link
  BY <1>1, Zenon DEF Link
<1>3. [l EXCEPT !.pending = FALSE] \in Link
  BY <1>1, Zenon DEF Link
<1>4. [l EXCEPT !.cap = TRUE] \in Link
  BY <1>1, Zenon DEF Link
<1>5. [l EXCEPT !.cap = FALSE, !.connected = FALSE] \in Link
  BY <1>1, Zenon DEF Link
<1> QED BY <1>2, <1>3, <1>4, <1>5

\* A resumed update goes on once the frontend says what it can do.
LEMMA ReadCapabilityKeeps == ASSUME IInv, Reading, ReadCapability PROVE IInv'
<1> USE DEF IInv
<1>1. link' \in Link /\ slot' \in 0..MaxWorker /\ file' \in [Plans -> Retained] /\ down' \in Seq(Downward)
      /\ key' \in Key \union {None} /\ UNCHANGED <<proc, file, approved, key, chan, slot>>
  BY LinkUpdates DEF ReadCapability, TypeOK, Reading
<1>2. Ready(link')
  BY DEF ReadCapability
<1>3. PICK l : l = link'
  OBVIOUS
<1>4. /\ flow' \in Flow /\ workers' \in [Workers -> Thread] /\ Shown' /\ Agreed'
      /\ \A w \in Workers : /\ Duty(w)'
                            /\ workers[w].pc \in Calls => workers'[w] = workers[w]
  BY <1>1, <1>2, <1>3, ReadyKeeps
<1>5. Steady
  BY <1>1, UnchangedSteady
<1>6. Calling'
  BY <1>1, <1>4, CallingStays
<1> QED BY <1>1, <1>4, <1>5, <1>6, ReadingKeeps

\* What failed: the flow waits for nobody and nothing is valid.
LEMMA ReadingFails ==
  ASSUME IInv, Reading, Steady, workers' = Invalidated(0), link' \in Link, flow' \in Flow,
         flow'.job = 0, flow'.phase \in {"none", "failed"}, key' \in Key \union {None},
         UNCHANGED <<slot, down>>, file' \in [Plans -> Retained]
  PROVE  IInv'
<1> USE DEF IInv
<1>1. /\ workers' \in [Workers -> Thread]
      /\ \A w \in Workers : /\ Duty(w)'
                            /\ workers[w].pc \in Calls => workers'[w].pc = workers[w].pc
                                                          /\ workers'[w].io = workers[w].io
  BY WithdrawnDuties
<1>2. Calling'
  BY <1>1, CallingStays DEF Reading
<1>3. Shown'
  BY DEF Shown
<1>4. Agreed'
  <2>1. \A k : (Saved(k) => Saved(k)') /\ (Approved(k) => Approved(k)')
    BY SteadyPlans
  <2>2. \A k \in Plans : file'[k].phase # "none" => file'[k].pkg \in Packages
    BY DEF Agreed, Steady, Lasting
  <2> QED BY <2>1, <2>2 DEF Agreed, Reading
<1> QED BY <1>1, <1>2, <1>3, <1>4, ReadingKeeps DEF TypeOK

\* A failed flow has no worker.
LEMMA FailsIs ==
  ASSUME TypeOK, Fails
  PROVE  flow' \in Flow /\ flow'.job = 0 /\ flow'.phase = "failed"
<1>1. "failed" \in Phases /\ 0 \in 0..MaxWorker /\ flow \in Flow /\ flow.plan \in Plans \union {None}
  BY CoordinatedAssumption DEF Phases, TypeOK, Flow
<1>2. IsFlow([flow EXCEPT !.phase = "failed", !.job = 0], "failed", flow.plan, 0)
  BY <1>1, Flows
<1> QED BY <1>2, Zenon DEF Fails, IsFlow

\* Output acknowledges the installed attempt, or fails the flow that another attempt overtook.
LEMMA ReadOutputKeeps == ASSUME IInv, Reading, ReadOutput PROVE IInv'
<1> USE DEF IInv
<1>1. UNCHANGED <<proc, chan, slot, down, file, approved>>
  BY DEF ReadOutput, Reading
<1>2. Steady
  BY <1>1, UnchangedSteady
<1>3. CASE /\ link' = [link EXCEPT !.pending = FALSE, !.connected = TRUE]
           /\ Ready(link') /\ UNCHANGED key
  <2>1. PICK l : l = link'
    OBVIOUS
  <2>2. /\ flow' \in Flow /\ workers' \in [Workers -> Thread] /\ Shown' /\ Agreed'
        /\ \A w \in Workers : /\ Duty(w)'
                              /\ workers[w].pc \in Calls => workers'[w] = workers[w]
    BY <1>1, <1>3, <2>1, ReadyKeeps
  <2>3. Calling'
    BY <1>1, <2>2, CallingStays
  <2>4. link' \in Link
    BY <1>3, LinkUpdates DEF TypeOK
  <2> QED BY <1>1, <1>2, <1>3, <2>2, <2>3, <2>4, ReadingKeeps DEF TypeOK
<1>4. CASE /\ link' = [link EXCEPT !.pending = FALSE]
           /\ workers' = Invalidated(0) /\ key' = Redrawn
           /\ IF flow = NoFlow THEN UNCHANGED flow ELSE Fails
  <2>1. link' \in Link /\ key' \in Key \union {None}
    BY <1>4, LinkUpdates, RedrawnIs DEF TypeOK
  <2>2. flow' \in Flow /\ flow'.job = 0 /\ flow'.phase \in {"none", "failed"}
    BY <1>4, FailsIs, Records
  <2> QED BY <1>1, <1>2, <1>4, <2>1, <2>2, ReadingFails DEF TypeOK
<1> QED BY <1>3, <1>4 DEF ReadOutput

\* The answer of a call reaches the worker in the slot.
LEMMA ReadResultKeeps ==
  ASSUME IInv, Reading, NEW ok \in {"yes", "not", "no"}, ReadResult(ok)
  PROVE  IInv'
<1> USE DEF IInv
<1>1. UNCHANGED <<proc, link, flow, key, chan, down, file, core, approved>> /\ slot' = 0
  BY DEF ReadResult, Reading
<1>2. PICK w \in Workers : w = slot
  BY CoordinatedAssumption, SMT DEF ReadResult, TypeOK, Workers
<1>3. Steady
  BY <1>1, UnchangedSteady
<1>4. PICK a \in {"yes", "not", "no"} : a = IF workers[w].valid THEN ok ELSE "no"
  OBVIOUS
<1>5. PICK x : x = [workers[w] EXCEPT !.io = "got", !.ans = a]
  OBVIOUS
<1>6. workers[w] \in Thread /\ workers[w].pc \in Calls /\ workers[w].io = "waiting"
  BY <1>2 DEF TypeOK, Calling, ReadResult
<1>7. x \in Thread /\ x.pc = workers[w].pc /\ x.plan = workers[w].plan /\ x.valid = workers[w].valid
  <2>1. \A me \in Thread : LET y == [me EXCEPT !.io = "got", !.ans = a]
                           IN y.pc = me.pc /\ y.plan = me.plan /\ y.valid = me.valid
    BY Zenon DEF Thread
  <2>2. x \in Thread
    BY <1>5, <1>6, ThreadUpdates DEF Pcs, Answers
  <2> QED BY <1>5, <1>6, <2>1, <2>2
<1>8. workers' = [workers EXCEPT ![w] = x]
  BY <1>2, <1>4, <1>5 DEF ReadResult
<1>9. workers' \in [Workers -> Thread] /\ workers'[w] = x /\ \A v \in Workers : v # w => workers'[v] = workers[v]
  BY <1>7, <1>8, WorkerIs
<1>10. \A v \in Workers : Duty(v)'
  <2>1. Duty(w)'
    BY <1>1, <1>3, <1>6, <1>7, <1>9, DutyStays DEF Calls
  <2> QED BY <1>1, <1>3, <1>9, <2>1, OthersDuty
<1>11. Calling'
  <2>1. chan # 0 => chan \in Workers /\ chan # w
    BY <1>6, CoordinatedAssumption, SMT DEF Calling, TypeOK, Workers
  <2> QED BY <1>1, <1>9, <2>1 DEF Calling
<1>12. Shown' /\ Agreed'
  BY <1>1 DEF Shown, Agreed, Saved, Approved
<1>13. slot' \in 0..MaxWorker
  BY <1>1, CoordinatedAssumption, SMT
<1> QED BY <1>1, <1>3, <1>9, <1>10, <1>11, <1>12, <1>13, ReadingKeeps DEF TypeOK

\* The acknowledgement of an application is verified, or not: the flow still waits for
\* nobody, and the plan stays.
LEMMA ReadAckKeeps == ASSUME IInv, Reading, NEW k, ReadAck(k) PROVE IInv'
<1> USE DEF IInv
<1>1. UNCHANGED <<proc, link, workers, chan, slot, key, down, file, core, approved>>
  BY DEF ReadAck, threads, Reading
<1>2. Steady
  BY <1>1, UnchangedSteady
<1>3. Calling'
  BY <1>1 DEF Calling
<1>4. CASE UNCHANGED flow
  <2>1. \A w \in Workers : Duty(w)'
    BY <1>1, <1>2, <1>4, DutyStays DEF Duty
  <2>2. Shown' /\ Agreed'
    BY <1>1, <1>4 DEF Shown, Agreed, Saved, Approved
  <2> QED BY <1>1, <1>2, <1>3, <1>4, <2>1, <2>2, ReadingKeeps DEF TypeOK
<1>5. CASE flow.phase = "waiting" /\ \E ph \in {"verified", "unverified"} : flow' = [flow EXCEPT !.phase = ph]
  <2>1. PICK ph \in {"verified", "unverified"} : flow' = [flow EXCEPT !.phase = ph]
    BY <1>5
  <2>2. flow' \in Flow /\ flow'.phase = ph /\ flow'.plan = flow.plan /\ flow'.job = flow.job
    <3>1. \A f \in Flow : LET g == [f EXCEPT !.phase = ph]
                          IN g \in Flow /\ g.phase = ph /\ g.plan = f.plan /\ g.job = f.job
      BY Zenon DEF Flow, Phases
    <3> QED BY <2>1, <3>1 DEF TypeOK
  <2>3. flow.job = 0
    BY <1>5 DEF Agreed
  <2>4. \A w \in Workers : Duty(w)'
    BY <1>1, <1>2, <2>3, NobodyWaits, DutyStays
  <2>5. Shown' /\ Agreed'
    BY <1>1, <1>5, <2>2, <2>3 DEF Shown, Agreed, Saved, Approved
  <2> QED BY <1>1, <1>2, <1>3, <2>2, <2>4, <2>5, ReadingKeeps DEF TypeOK
<1> QED BY <1>4, <1>5 DEF ReadAck

\* The outcome of an update is saved, and its flow ends; or the companion does.
LEMMA SaveOutcomeKeeps == ASSUME IInv, SaveOutcome PROVE IInv'
<1> USE DEF IInv
<1>1. PICK k : k = flow.plan
  OBVIOUS
<1>2. PICK ph \in {"applied", "partial"} : ph = IF flow.phase = "verified" THEN "applied" ELSE "partial"
  OBVIOUS
<1>3. Up /\ k \in Plans /\ Saved(k) /\ UNCHANGED <<local, past, mishaps, approved, seen, started>>
  BY <1>1 DEF SaveOutcome, Turns, Agreed, Approved, past
<1>4. FailsToSave(k, ph)
  BY <1>1, <1>2, Zenon DEF SaveOutcome, FailsToSave
<1>5. Lasting /\ file' \in [Plans -> Retained] /\ (UNCHANGED <<approved, proc>> => Steady)
  BY <1>3, <1>4, SavesIs
<1>6. CASE /\ key' = Redrawn /\ workers' = Invalidated(0)
           /\ IF flow.phase = "verified" THEN flow' = NoFlow ELSE Fails
           /\ UNCHANGED <<proc, link, chan, slot, wire, core>>
  <2>1. Steady /\ UNCHANGED <<front, up, down>>
    BY <1>3, <1>5, <1>6 DEF wire
  <2>2. flow' \in Flow /\ flow'.job = 0 /\ flow'.phase \in {"none", "failed"}
    BY <1>6, FailsIs, Records
  <2>3. /\ workers' \in [Workers -> Thread]
        /\ \A w \in Workers : /\ Duty(w)'
                              /\ workers[w].pc \in Calls => workers'[w].pc = workers[w].pc
                                                            /\ workers'[w].io = workers[w].io
    BY <1>6, <2>1, WithdrawnDuties
  <2>4. Calling'
    BY <1>6, <2>3, CallingStays
  <2>5. key' \in Key \union {None}
    BY <1>6, RedrawnIs
  <2>6. TypeOK'
    BY <1>3, <1>5, <1>6, <2>1, <2>2, <2>3, <2>5 DEF TypeOK
  <2>7. Shown' /\ Alone' /\ Acked'
    BY <1>3, <1>6, <2>1, <2>2 DEF Shown, Alone, Acked, Up
  <2>8. Agreed'
    <3>1. \A l : (Saved(l) => Saved(l)') /\ (Approved(l) => Approved(l)')
      BY <2>1, SteadyPlans
    <3>2. \A l \in Plans : file'[l].phase # "none" => file'[l].pkg \in Packages
      BY <1>5 DEF Agreed, Lasting
    <3> QED BY <1>3, <1>6, <2>2, <3>1, <3>2 DEF Agreed
  <2> QED BY <2>3, <2>4, <2>6, <2>7, <2>8
<1>7. CASE Leaves(Off)
  <2>1. Off \in Process /\ Off.st = "off" /\ Off.resume = None /\ mishaps' \in 0..MaxMishaps
    BY <1>3, Records DEF TypeOK
  <2> QED BY <1>3, <1>5, <1>7, <2>1, LeavesKeeps
<1> QED BY <1>6, <1>7, Zenon DEF SaveOutcome

\* A replaced frontend says hello: the call in the slot is dropped, and a flow that is not applying
\* yet fails.
LEMMA ReadHelloKeeps == ASSUME IInv, Reading, NEW later, ReadHello(later) PROVE IInv'
<1> USE DEF IInv
<1>1. /\ link' \in Link /\ slot' = 0 /\ slot' \in 0..MaxWorker
      /\ UNCHANGED <<proc, chan, file, core, approved>>
  <2>1. /\ link' = [link EXCEPT !.cap = FALSE, !.connected = FALSE] /\ slot' = Dropped
        /\ UNCHANGED <<proc, chan, file, core>>
    BY Zenon DEF ReadHello
  <2>2. link' \in Link
    BY <2>1, LinkUpdates DEF TypeOK
  <2> QED BY <2>1, <2>2, CoordinatedAssumption, SMT DEF Reading, Dropped
<1>2. PICK keep : keep = IF flow.phase \in {"form", "preparing", "review"} THEN 0 ELSE flow.job
  OBVIOUS
<1>3. PICK ws : ws = Invalidated(keep)
  OBVIOUS
<1>4. /\ ws \in [Workers -> Thread]
      /\ \A w \in Workers : /\ Withdrawn(ws[w], workers[w]) /\ (ws[w].pc = "done" => w = keep)
                            /\ workers[w].pc # "done" => ws[w].pc = workers[w].pc /\ ws[w].io = workers[w].io
  BY <1>3, InvalidatedIs
<1>5. /\ flow' \in Flow /\ (keep # 0 => flow'.job = keep) /\ flow'.phase # "review"
      /\ key' \in Key \union {None}
      /\ flow' = flow \/ (flow'.job = 0 /\ flow'.phase = "failed")
  <2>1. CASE flow.phase \in {"form", "preparing", "review"}
    <3>1. Fails /\ key' = Redrawn
      BY <2>1 DEF ReadHello
    <3> QED BY <1>2, <2>1, <3>1, FailsIs, RedrawnIs
  <2>2. CASE flow.phase \notin {"form", "preparing", "review"}
    BY <1>2, <2>2 DEF ReadHello, TypeOK
  <2> QED BY <2>1, <2>2
<1>6. Steady
  BY <1>1, UnchangedSteady
<1>7. ASSUME NEW w \in Workers
      PROVE  /\ workers'[w] \in Thread /\ Duty(w)'
             /\ workers[w].pc \in Calls /\ w # slot => workers'[w].pc = workers[w].pc /\ workers'[w].io = workers[w].io
  <2>1. w # 0
    BY CoordinatedAssumption, SMT DEF Workers
  <2>2. CASE w = slot
    <3>1. PICK x : x = [workers[w] EXCEPT !.valid = FALSE, !.io = "got", !.ans = "no"]
      OBVIOUS
    <3>2. workers'[w] = x
      BY <1>1, <2>1, <2>2, <3>1 DEF ReadHello, Dropped
    <3>3. workers[w] \in Thread /\ workers[w].pc \in Calls
      BY <2>1, <2>2 DEF TypeOK, Calling
    <3>4. x \in Thread /\ x.pc = workers[w].pc /\ x.plan = workers[w].plan /\ ~x.valid
      <4>1. \A me \in Thread : LET y == [me EXCEPT !.valid = FALSE, !.io = "got", !.ans = "no"]
                               IN y.pc = me.pc /\ y.plan = me.plan /\ ~y.valid
        BY Zenon DEF Thread
      <4>2. x \in Thread
        BY <3>1, <3>3, ThreadUpdates DEF Pcs, Answers
      <4> QED BY <3>1, <3>3, <4>1, <4>2
    <3>5. Duty(w)'
      BY <1>6, <3>2, <3>3, <3>4, DutyStays DEF Calls
    <3> QED BY <2>2, <3>2, <3>4, <3>5
  <2>3. CASE w # slot
    <3>1. workers'[w] = ws[w]
      BY <1>2, <1>3, <2>3 DEF ReadHello
    <3>2. CASE ws[w] = Idle
      BY <1>4, <2>3, <3>1, <3>2, DutyIdle DEF Calls
    <3>3. CASE ws[w] # Idle
      <4>1. ws[w].pc = "done" => flow'.job = w
        BY <1>4, <1>5, <2>1
      <4>2. Duty(w)'
        BY <1>4, <1>6, <3>1, <3>3, <4>1, DutyStays DEF Withdrawn
      <4> QED BY <1>4, <3>1, <4>2 DEF Calls
    <3> QED BY <3>2, <3>3
  <2> QED BY <2>2, <2>3
<1>8. workers' \in [Workers -> Thread]
  <2>1. workers' = [w \in Workers |-> workers'[w]]
    BY DEF ReadHello
  <2> QED BY <1>7, <2>1
<1>9. Calling'
  <2>1. chan # 0 => chan \in Workers /\ chan # slot
    BY CoordinatedAssumption, SMT DEF Calling, TypeOK, Workers
  <2> QED BY <1>1, <1>7, <2>1 DEF Calling
<1>10. Shown' /\ Agreed'
  BY <1>1, <1>5 DEF Shown, Agreed, Saved, Approved
<1>11. down' \in Seq(Downward)
  <2>1. Probe \in Downward /\ (down' = <<>> \/ down' = <<Probe>>)
    BY Records DEF ReadHello
  <2>2. <<>> \in Seq(Downward) /\ <<Probe>> \in Seq(Downward)
    <3> HIDE DEF Downward, Probe
    <3> QED BY <2>1
  <2> QED BY <2>1, <2>2
<1> QED BY <1>1, <1>5, <1>6, <1>7, <1>8, <1>9, <1>10, <1>11, ReadingKeeps DEF TypeOK

\* Reading a packet, whichever it is.
LEMMA ReadKeeps == ASSUME IInv, Read PROVE IInv'
<1> USE DEF IInv
<1>1. CASE Leaves(Off) /\ UNCHANGED <<file, seen>>
  <2>1. Off \in Process /\ Off.st = "off" /\ Off.resume = None
    BY Records
  <2>2. UNCHANGED <<local, past>> /\ mishaps' \in 0..MaxMishaps
    BY <1>1 DEF Read, past, TypeOK
  <2>3. file' \in [Plans -> Retained] /\ Lasting
    BY <1>1, UnchangedLasting
  <2> QED BY <1>1, <2>1, <2>2, <2>3, LeavesKeeps
<1>2. CASE ~ (Leaves(Off) /\ UNCHANGED <<file, seen>>)
  <2>1. PICK p : p = Head(up)
    OBVIOUS
  <2>2. up # <<>> /\ p \in Upward
    BY <2>1, PacketRead DEF Read
  <2>3. PICK b : b = (front.greeted \/ (p.t = "hello" /\ ~ \E i \in DOMAIN Tail(up) : Tail(up)[i].t = "hello"))
    OBVIOUS
  <2>4. b \in Flag /\ front' = [front EXCEPT !.greeted = b]
    <3>1. b \in Flag
      BY <2>3, Zenon DEF Flag
    <3> QED BY <1>2, <2>1, <2>3, <3>1, Zenon DEF Read
  <2>5. /\ Up /\ up' = Tail(up) /\ UNCHANGED <<local, approved, started, mishaps>>
        /\ \/ p.t = "output" /\ ReadOutput
           \/ p.t = "cap" /\ ReadCapability
           \/ p.t = "result" /\ ReadResult(p.ok)
           \/ p.t = "ack" /\ ReadAck(p.k)
           \/ p.t = "hello" /\ ReadHello(Tail(up))
    BY <1>2, <2>1 DEF Read, Turns
  <2>6. UNCHANGED <<proc, chan, core>>
    BY <2>5 DEF ReadOutput, ReadCapability, ReadResult, ReadAck, ReadHello, threads
  <2>7. seen' \in [attempt : Nat, pkg : Packages]
    <3>1. seen' = seen \/ seen' = local
      BY <2>5 DEF ReadOutput, ReadCapability, ReadResult, ReadAck, ReadHello
    <3> QED BY <3>1 DEF TypeOK
  <2>9. Reading
    BY <2>2, <2>4, <2>5, <2>6, <2>7 DEF Reading
  <2>8. p.t = "result" => p.ok \in {"yes", "not", "no"}
    BY <2>2 DEF Upward
  <2> QED BY <2>5, <2>9, <2>8, ReadOutputKeeps, ReadCapabilityKeeps, ReadResultKeeps, ReadAckKeeps, ReadHelloKeeps
<1> QED BY <1>1, <1>2

----------------------------------------------------------------------------
(* The remote frontend.                                                      *)

\* A step of the remote frontend leaves the companion alone.
LEMMA RemoteKeeps ==
  ASSUME IInv, UNCHANGED <<proc, link, ui, threads, file, local>>, mishaps' \in 0..MaxMishaps,
         front' \in Remote, front'.ack # None => front'.ack \in core'.applied,
         up' \in Seq(Sendable(core')), down' \in Seq(Downward), CoreGrows
  PROVE  IInv'
<1> USE DEF IInv, ui, threads, past
<1>1. up' \in Seq(Upward)
  <2>1. Sendable(core') \subseteq Upward
    BY DEF Sendable
  <2> HIDE DEF Upward, Sendable
  <2> QED BY <2>1, SMT
<1>2. TypeOK'
  BY <1>1 DEF TypeOK, CoreGrows
<1>3. Shown' /\ Agreed' /\ Alone' /\ Calling'
  BY DEF Shown, Agreed, Alone, Calling, Up, Saved, Approved
<1>4. \A w \in Workers : Duty(w)'
  <2>1. Steady
    BY UnchangedSteady
  <2> QED BY <2>1, DutyStays DEF Duty
<1>5. Acked'
  BY DEF Acked, Sendable
<1> QED BY <1>2, <1>3, <1>4, <1>5

\* The frontend's record, with what a step sets.
LEMMA FrontUpdates ==
  ASSUME NEW f \in Remote, NEW c \in Call \union {None}, NEW k \in Plans \union {None}
  PROVE  /\ [f EXCEPT !.busy = c] \in Remote /\ [f EXCEPT !.busy = c].ack = f.ack
         /\ [f EXCEPT !.act = k] \in Remote /\ [f EXCEPT !.act = k].ack = f.ack
         /\ [f EXCEPT !.ack = k] \in Remote /\ [f EXCEPT !.ack = k].ack = k
         /\ [f EXCEPT !.drew = TRUE] \in Remote /\ [f EXCEPT !.drew = TRUE].ack = f.ack
<1>1. TRUE \in Flag
  BY Zenon DEF Flag
<1>2. [f EXCEPT !.busy = c] \in Remote /\ [f EXCEPT !.busy = c].ack = f.ack
  BY Zenon DEF Remote
<1>3. [f EXCEPT !.act = k] \in Remote /\ [f EXCEPT !.act = k].ack = f.ack
  BY Zenon DEF Remote
<1>4. [f EXCEPT !.ack = k] \in Remote /\ [f EXCEPT !.ack = k].ack = k
  BY Zenon DEF Remote
<1>5. [f EXCEPT !.drew = TRUE] \in Remote /\ [f EXCEPT !.drew = TRUE].ack = f.ack
  BY <1>1, Zenon DEF Remote
<1> QED BY <1>2, <1>3, <1>4, <1>5

\* Another packet for the companion.
LEMMA SendsUp ==
  ASSUME Acked, NEW p \in Sendable(core)
  PROVE  up \in Seq(Sendable(core)) /\ Append(up, p) \in Seq(Sendable(core))
<1>1. up \in Seq(Sendable(core))
  BY DEF Acked, Sendable
<1> HIDE DEF Sendable
<1> QED BY <1>1, SMT

\* A core that does nothing takes nothing back.
LEMMA CoreStays == ASSUME TypeOK, UNCHANGED core PROVE CoreGrows
BY DEF TypeOK, CoreGrows

\* The frontend takes a packet of the companion.
LEMMA ServeKeeps == ASSUME IInv, Serve PROVE IInv'
<1> USE DEF IInv
<1>1. PICK p : p = Head(down)
  OBVIOUS
<1>2. p \in Downward /\ Tail(down) \in Seq(Downward)
  <2>1. down \in Seq(Downward) /\ down # <<>>
    BY DEF TypeOK, Serve
  <2> HIDE DEF Downward
  <2> QED BY <1>1, <2>1, SMT
<1>3. /\ UNCHANGED <<proc, link, ui, threads, file, local, mishaps, core>> /\ down' = Tail(down)
      /\ front \in Remote /\ mishaps \in 0..MaxMishaps /\ None \in Plans \union {None}
      /\ up \in Seq(Sendable(core))
  BY DEF Serve, remote, TypeOK, Acked, Sendable
<1>4. CoreGrows
  BY <1>3, CoreStays
<1>5. CASE p.t = "probe" /\ up' = Append(up, Packet("cap", None, "none")) /\ UNCHANGED front
  <2>1. Packet("cap", None, "none") \in Sendable(core)
    BY SMT DEF Packet, Sendable, Upward
  <2>2. up' \in Seq(Sendable(core))
    BY <1>5, <2>1, SendsUp
  <2> QED BY <1>2, <1>3, <1>4, <1>5, <2>2, RemoteKeeps DEF Acked
<1>6. CASE p.t = "call" /\ front' = [front EXCEPT !.busy = p] /\ UNCHANGED up
  <2>1. p \in Call
    BY <1>2, <1>6 DEF Downward, Probe, Packet
  <2>2. front' \in Remote /\ front'.ack = front.ack
    BY <1>3, <1>6, <2>1, FrontUpdates
  <2> QED BY <1>2, <1>3, <1>4, <1>6, <2>2, RemoteKeeps DEF Acked
<1>7. CASE p.t = "activate" /\ front' = [front EXCEPT !.act = p.k] /\ UNCHANGED up
  <2>1. p.k \in Plans
    BY <1>2, <1>7 DEF Downward, Probe, Packet, Call
  <2>2. front' \in Remote /\ front'.ack = front.ack
    BY <1>3, <1>7, <2>1, FrontUpdates
  <2> QED BY <1>2, <1>3, <1>4, <1>7, <2>2, RemoteKeeps DEF Acked
<1> QED BY <1>1, <1>5, <1>6, <1>7 DEF Serve

\* The frontend ends over a second call or activation, and the connection with it.
LEMMA RefusesKeeps == ASSUME IInv, Refuses PROVE IInv'
<1>1. Off \in Process /\ Off.st = "off" /\ Off.resume = None
  BY Records
<1>2. file' \in [Plans -> Retained] /\ Lasting /\ mishaps' \in 0..MaxMishaps
  BY UnchangedLasting DEF Refuses, IInv, TypeOK
<1> QED BY <1>1, <1>2, LeavesKeeps DEF Refuses

\* The frontend's first output.
LEMMA DrawKeeps == ASSUME IInv, Draw PROVE IInv'
<1> USE DEF IInv
<1>1. /\ UNCHANGED <<proc, link, ui, threads, file, local, mishaps, core, down>>
      /\ front \in Remote /\ mishaps \in 0..MaxMishaps /\ None \in Plans \union {None}
      /\ down \in Seq(Downward)
  BY DEF Draw, remote, TypeOK
<1>2. CoreGrows
  BY <1>1, CoreStays
<1>3. up' \in Seq(Sendable(core))
  <2>1. Packet("output", None, "none") \in Sendable(core)
    BY SMT DEF Packet, Sendable, Upward
  <2> QED BY <2>1, SendsUp DEF Draw
<1>4. front' \in Remote /\ front'.ack = front.ack
  BY <1>1, FrontUpdates DEF Draw
<1> QED BY <1>1, <1>2, <1>3, <1>4, RemoteKeeps DEF Acked

\* A helper that carries out a plan only adds to what the core applied.
LEMMA AnswerGrows == ASSUME TypeOK, Answer PROVE CoreGrows
<1>1. PICK k : k = front.busy.k
  OBVIOUS
<1>2. front.busy \in Call
  BY DEF Answer, TypeOK, Remote
<1>3. CASE UNCHANGED core
  BY <1>3, CoreStays
<1>4. CASE front.busy.ok = "apply" /\ \E ok \in {"yes", "not", "no"} : Applies(k, ok)
  <2>1. k \in Plans /\ core \in [begun : SUBSET Plans, applied : SUBSET Plans]
    BY <1>1, <1>2, <1>4, SMT DEF Call, TypeOK
  <2>2. \/ UNCHANGED core
        \/ core' = [core EXCEPT !.begun = @ \union {k}]
        \/ core' = [begun |-> core.begun \union {k}, applied |-> core.applied \union {k}]
    BY <1>4 DEF Applies
  <2> QED BY <2>1, <2>2 DEF CoreGrows
<1> QED BY <1>1, <1>3, <1>4 DEF Answer

\* A helper answers; what it reports as applied is applied.
LEMMA AnswerKeeps == ASSUME IInv, Answer PROVE IInv'
<1> USE DEF IInv
<1>1. /\ UNCHANGED <<proc, link, ui, threads, file, local, mishaps, down>>
      /\ front \in Remote /\ mishaps \in 0..MaxMishaps /\ None \in Plans \union {None}
      /\ down \in Seq(Downward) /\ front.busy \in Call
  BY DEF Answer, remote, TypeOK, Remote
<1>2. PICK k : k = front.busy.k
  OBVIOUS
<1>3. CoreGrows
  BY AnswerGrows
<1>4. up' \in Seq(Sendable(core'))
  <2>1. PICK ok \in {"yes", "not", "no"} : up' = Append(up, Packet("result", None, ok))
    BY DEF Answer
  <2>2. Packet("result", None, ok) \in Sendable(core)
    BY SMT DEF Packet, Sendable, Upward
  <2>3. up' \in Seq(Sendable(core))
    BY <2>1, <2>2, SendsUp
  <2> QED BY <1>3, <2>3, SendableStays DEF CoreGrows
<1>5. front' \in Remote /\ front'.ack = front.ack
  BY <1>1, FrontUpdates DEF Answer
<1> QED BY <1>1, <1>3, <1>4, <1>5, RemoteKeeps DEF Acked, CoreGrows

\* A replaced frontend says hello, and acknowledges the attempt it was replaced for.
LEMMA ReplacedKeeps ==
  ASSUME IInv, NEW a \in Plans \union {None}, Replaced(a), a # None => a \in core.applied,
         UNCHANGED <<proc, link, ui, threads, file, local>>, mishaps' \in 0..MaxMishaps
  PROVE  IInv'
<1> USE DEF IInv
<1>1. CoreGrows
  BY OrphanedGrows DEF Replaced
<1>2. up' \in Seq(Sendable(core'))
  <2>1. Packet("hello", None, "none") \in Sendable(core)
    BY SMT DEF Packet, Sendable, Upward
  <2>2. up' \in Seq(Sendable(core))
    BY <2>1, SendsUp DEF Replaced
  <2> QED BY <1>1, <2>2, SendableStays DEF CoreGrows
<1>3. front' \in Remote /\ front'.ack = a /\ down' \in Seq(Downward)
  BY Records DEF Replaced
<1> QED BY <1>1, <1>2, <1>3, RemoteKeeps DEF CoreGrows

\* Somebody refreshes the frontend.
LEMMA RefreshKeeps == ASSUME IInv, Refresh PROVE IInv'
<1>1. mishaps' \in 0..MaxMishaps
  BY CoordinatedAssumption, SMT DEF IInv, TypeOK, Refresh, Mishap
<1> QED BY <1>1, ReplacedKeeps DEF Refresh

\* A frontend that is replaced for an activation owes an acknowledgement of a plan the core applied.
LEMMA ActivateKeeps == ASSUME IInv, Activate PROVE IInv'
<1> USE DEF IInv
<1>1. /\ UNCHANGED <<proc, link, ui, threads, file, local, mishaps>>
      /\ front \in Remote /\ mishaps' \in 0..MaxMishaps /\ None \in Plans \union {None}
      /\ front.act \in Plans \union {None}
  BY DEF Activate, remote, TypeOK, Remote
<1>2. CASE front.act \in core.applied /\ Replaced(front.act)
  BY <1>1, <1>2, ReplacedKeeps
<1>3. CASE front' = [front EXCEPT !.act = None] /\ UNCHANGED <<up, down, core>>
  <2>1. CoreGrows
    BY <1>3, CoreStays
  <2>2. front' \in Remote /\ front'.ack = front.ack
    BY <1>1, <1>3, FrontUpdates
  <2>3. up' \in Seq(Sendable(core')) /\ down' \in Seq(Downward)
    BY <1>3 DEF Acked, Sendable, TypeOK
  <2> QED BY <1>1, <1>3, <2>1, <2>2, <2>3, RemoteKeeps DEF Acked
<1> QED BY <1>2, <1>3 DEF Activate

\* The acknowledgement that is owed is sent.
LEMMA AcknowledgeKeeps == ASSUME IInv, Acknowledge PROVE IInv'
<1> USE DEF IInv
<1>1. /\ UNCHANGED <<proc, link, ui, threads, file, local, mishaps, core, down>>
      /\ front \in Remote /\ mishaps' \in 0..MaxMishaps /\ None \in Plans \union {None}
      /\ front.ack \in Plans /\ front.ack \in core.applied /\ down' \in Seq(Downward)
  BY DEF Acknowledge, remote, TypeOK, Remote, Acked
<1>2. CoreGrows
  BY <1>1, CoreStays
<1>3. front' \in Remote /\ front'.ack = None
  BY <1>1, FrontUpdates DEF Acknowledge
<1>4. up' \in Seq(Sendable(core))
  <2>1. Packet("ack", front.ack, "none") \in Sendable(core)
    BY <1>1, SMT DEF Packet, Sendable, Upward
  <2> QED BY <2>1, SendsUp DEF Acknowledge
<1> QED BY <1>1, <1>2, <1>3, <1>4, RemoteKeeps

----------------------------------------------------------------------------
(* Every step.                                                               *)

\* A step that changes nothing keeps everything.
LEMMA StutterKeeps == ASSUME IInv, UNCHANGED vars PROVE IInv'
<1> USE DEF IInv, vars, ui, threads, wire, past
<1>1. TypeOK'
  BY DEF TypeOK
<1>2. Shown' /\ Agreed' /\ Alone' /\ Calling' /\ Acked'
  BY DEF Shown, Agreed, Alone, Calling, Acked, Up, Saved, Approved
<1>3. \A w \in Workers : Duty(w)'
  <2>1. Steady
    BY UnchangedSteady
  <2> QED BY <2>1, DutyStays DEF Duty
<1> QED BY <1>1, <1>2, <1>3

\* Every step keeps the invariant, one action at a time.
LEMMA NextKeeps == ASSUME IInv, [Next]_vars PROVE IInv'
<1>1. CASE UNCHANGED vars
  BY <1>1, StutterKeeps
<1>2. CASE Dies \/ Start \/ Connect \/ OtherInstalls
  BY <1>2, DiesKeeps, StartKeeps, ConnectKeeps, OtherInstallsKeeps
<1>3. CASE Offer \/ Retry \/ Escape \/ Advanced \/ Enter \/ ReadEnter
  BY <1>3, OfferKeeps, RetryKeeps, EscapeKeeps, AdvancedKeeps, EnterKeeps, ReadEnterKeeps
<1>4. CASE Dequeue \/ Outcome \/ Read \/ SaveOutcome \/ TimesOut
  BY <1>4, DequeueKeeps, OutcomeKeeps, ReadKeeps, SaveOutcomeKeeps, TimesOutKeeps
<1>5. CASE \E w \in Workers : Worker(w)
  BY <1>5, RequestKeeps, ReceiveKeeps, InstallKeeps, RecordKeeps, VerifyKeeps, BeginKeeps, Zenon DEF Worker
<1>6. CASE Serve \/ Refuses \/ Draw \/ Answer \/ Refresh \/ Activate \/ Acknowledge
  BY <1>6, ServeKeeps, RefusesKeeps, DrawKeeps, AnswerKeeps, RefreshKeeps, ActivateKeeps, AcknowledgeKeeps
<1> QED BY <1>1, <1>2, <1>3, <1>4, <1>5, <1>6, Zenon DEF Next

\* The inductive invariant: what a worker, a call, a key and a packet stand for follows
\* from what was approved and saved (all of coordinated.rs).
THEOREM Invariant == Spec => []IInv
<1>1. Init => IInv
  BY InitHolds
<1>2. IInv /\ [Next]_vars => IInv'
  BY NextKeeps
<1> QED BY <1>1, <1>2, PTL DEF Spec

\* Every variable has its type, so that a packet that acts on a plan names one.
THEOREM TypeCorrect == Spec => []TypeOK
<1>1. IInv => TypeOK
  BY DEF IInv
<1> QED BY <1>1, Invariant, PTL

\* What Enter approves is the plan that was displayed when it was typed: review, cancel
\* and another preparation may come between the key and its reading (displayed, input).
THEOREM Approval == Spec => []ApprovedAsShown
<1>1. IInv => ApprovedAsShown
  BY DEF IInv, Agreed, ApprovedAsShown
<1> QED BY <1>1, Invariant, PTL

----------------------------------------------------------------------------
(* What a step may never do.                                                 *)

\* Whoever ends the companion empties the slot, and every other step but the dequeue
\* leaves the slot or empties it.
SlotKept == slot' \in {0, slot}

\* Whoever ends the companion empties the slot.
LEMMA LeavesSlot == ASSUME NEW p, Leaves(p) PROVE SlotKept
BY DEF Leaves, SlotKept

\* Reading a packet fills no slot.
LEMMA ReadSlot == ASSUME Read PROVE SlotKept
<1>1. CASE Leaves(Off)
  BY <1>1, LeavesSlot
<1>2. CASE ReadOutput \/ ReadCapability
  BY <1>2 DEF ReadOutput, ReadCapability, SlotKept
<1>3. CASE \E ok : ReadResult(ok)
  BY <1>3 DEF ReadResult, SlotKept
<1>4. CASE \E k : ReadAck(k)
  BY <1>4 DEF ReadAck, SlotKept, threads
<1>5. CASE \E later : ReadHello(later)
  BY <1>5 DEF ReadHello, SlotKept, Dropped
<1>6. \/ Leaves(Off) \/ ReadOutput \/ ReadCapability \/ ReadResult(Head(up).ok)
      \/ ReadAck(Head(up).k) \/ ReadHello(Tail(up))
  BY Zenon DEF Read
<1> QED BY <1>1, <1>2, <1>3, <1>4, <1>5, <1>6

\* Only Dequeue fills the slot.
LEMMA OthersSlot == ASSUME [Next]_vars, ~Dequeue PROVE SlotKept
<1>1. CASE UNCHANGED vars
  BY <1>1 DEF vars, threads, SlotKept
<1>2. CASE Dies \/ Refuses
  BY <1>2, LeavesSlot DEF Dies, Refuses
<1>3. CASE Start \/ OtherInstalls
  BY <1>3 DEF Start, OtherInstalls, threads, SlotKept
<1>4. CASE Connect
  <2>1. Leaves(Off) \/ UNCHANGED threads
    BY <1>4, Zenon DEF Connect
  <2> QED BY <2>1, LeavesSlot DEF threads, SlotKept
<1>5. CASE Offer \/ Retry \/ Escape \/ Advanced \/ Enter \/ ReadEnter
  <2>1. UNCHANGED rest
    BY <1>5, Zenon DEF Offer, Retry, Escape, Advanced, Enter, ReadEnter
  <2> QED BY <2>1 DEF rest, SlotKept
<1>6. CASE Outcome
  <2>1. Restart(workers[flow.job].plan) \/ UNCHANGED slot
    BY <1>6, Zenon DEF Outcome
  <2> QED BY <2>1, LeavesSlot DEF Restart, SlotKept
<1>7. CASE Read
  BY <1>7, ReadSlot
<1>8. CASE TimesOut
  BY <1>8 DEF TimesOut, SlotKept
<1>9. CASE \E w \in Workers : Worker(w)
  <2>1. UNCHANGED slot
    BY <1>9 DEF Worker, Request, Receive, Install, Record, Verify, Begin
  <2> QED BY <2>1 DEF SlotKept
<1>10. CASE Serve \/ Draw \/ Answer \/ Refresh \/ Activate \/ Acknowledge
  <2>1. UNCHANGED threads
    BY <1>10 DEF Serve, Draw, Answer, Refresh, Activate, Acknowledge, remote
  <2> QED BY <2>1 DEF threads, SlotKept
<1>11. CASE SaveOutcome
  <2>1. Leaves(Off) \/ UNCHANGED slot
    BY <1>11, Zenon DEF SaveOutcome
  <2> QED BY <2>1, LeavesSlot DEF SlotKept
<1> QED BY <1>1, <1>2, <1>3, <1>4, <1>5, <1>6, <1>7, <1>8, <1>9, <1>10, <1>11, Zenon DEF Next

\* The remote core is asked to apply a plan only by the companion of that plan, for the
\* worker its open flow waits for, and only when a user approved it: whatever ended,
\* was replaced or was installed since the worker began (apply, ensure_current, tick).
THEOREM CoreSecond == Spec => CoreFollowsCompanion
<1> DEFINE Asks ==
      (slot' \notin {0, slot} /\ workers[slot'].pc = "apply") =>
         LET k == workers[slot'].plan
         IN /\ proc.pkg = file[k].pkg /\ file[k].attempt # 0
            /\ \E a \in approved : a.plan = k
            /\ flow.phase = "applying" /\ flow.job = slot' /\ flow.plan = k
<1>1. IInv /\ [Next]_vars => [Asks]_vars
  <2> SUFFICES ASSUME IInv, [Next]_vars PROVE Asks
    OBVIOUS
  <2>1. CASE ~Dequeue
    BY <2>1, OthersSlot DEF SlotKept
  <2>2. CASE Dequeue /\ slot' \notin {0, slot} /\ workers[slot'].pc = "apply"
    <3>1. slot' = chan /\ chan # 0 /\ workers[chan].valid
      BY <2>2 DEF Dequeue
    <3>2. PICK w \in Workers : w = chan
      BY <3>1, CoordinatedAssumption, SMT DEF IInv, TypeOK, Workers
    <3>3. Duty(w) /\ workers[w].pc = "apply" /\ workers[w].valid /\ slot' = w
      BY <2>2, <3>1, <3>2 DEF IInv
    <3> QED BY <3>3 DEF Duty, Acting, Approved
  <2> QED BY <2>1, <2>2, Zenon
<1> HIDE DEF Asks
<1>2. []IInv /\ [][Next]_vars => [][Asks]_vars
  BY <1>1, PTL
<1>3. CoreFollowsCompanion <=> [][Asks]_vars
  BY DEF CoreFollowsCompanion, Asks
<1> QED BY <1>2, <1>3, Invariant, PTL DEF Spec

----------------------------------------------------------------------------
(* One worker per plan, and what is known between a check and its save.      *)

\* A plan whose update came to its end.
Settled(k) == file[k].phase \in {"applied", "partial"}

\* A worker acts on the plan; one brings it to the flow; the flow has it and no worker.
Acts(w, k) == workers[w].pc \in Acting /\ workers[w].plan = k
Brings(w, k) ==
  workers[w].pc = "done" /\ workers[w].plan = k /\ workers[w].ans \in {"prepared", "activate"}
Awaits(k) ==
  /\ flow.plan = k
  /\ \/ flow.phase \in {"review", "waiting", "verified", "unverified"}
     \/ flow.phase = "applying" /\ flow.job = 0
Pending(k) == Awaits(k) \/ \E w \in Workers : Brings(w, k)

\* One worker acts on a plan, none while the flow has it, and nobody when it is settled.
Solo(k) ==
  /\ \A v, w \in Workers : Acts(v, k) /\ Acts(w, k) => v = w
  /\ Pending(k) => \A w \in Workers : ~Acts(w, k)
  /\ Settled(k) => ~Pending(k) /\ \A w \in Workers : ~Acts(w, k)

\* What the check of an acknowledgement found, until its outcome is saved.
Confirmed ==
  flow.phase = "verified" =>
    /\ flow.plan \in core.applied /\ proc.pkg = file[flow.plan].pkg
    /\ seen.attempt = file[flow.plan].attempt /\ seen.pkg = file[flow.plan].pkg

\* A worker acts on, and brings, nothing that it did not before.
Fewer(w) ==
  /\ workers'[w].pc \in Acting => workers[w].pc \in Acting /\ workers'[w].plan = workers[w].plan
  /\ workers'[w].pc = "done" =>
       \/ workers'[w].ans \notin {"prepared", "activate"}
       \/ workers[w].pc = "done" /\ workers'[w].ans = workers[w].ans /\ workers'[w].plan = workers[w].plan

\* A step after which there is no more to do for a plan than before.
LEMMA SoloStays ==
  ASSUME NEW k, Solo(k), \A w \in Workers : Acts(w, k)' => Acts(w, k),
         Pending(k)' => Pending(k), Settled(k)' => Settled(k)
  PROVE  Solo(k)'
<1>1. \A v, w \in Workers : Acts(v, k)' /\ Acts(w, k)' => v = w
  BY DEF Solo
<1>2. Pending(k)' => \A w \in Workers : ~Acts(w, k)'
  BY DEF Solo
<1>3. Settled(k)' => ~Pending(k)' /\ \A w \in Workers : ~Acts(w, k)'
  BY DEF Solo
<1> HIDE DEF Acts, Pending, Settled
<1> QED BY <1>1, <1>2, <1>3 DEF Solo

\* A worker that does no more than before, for every plan.
LEMMA FewerIs ==
  ASSUME NEW w \in Workers, Fewer(w), NEW k
  PROVE  (Acts(w, k)' => Acts(w, k)) /\ (Brings(w, k)' => Brings(w, k))
BY DEF Fewer, Acts, Brings, Acting

\* No worker does more, the flow has no other plan, and no other plan is settled.
LEMMA SoloFrame ==
  ASSUME NEW k, Solo(k), \A w \in Workers : Fewer(w), Awaits(k)' => Pending(k), Settled(k)' => Settled(k)
  PROVE  Solo(k)'
<1>1. \A w \in Workers : (Acts(w, k)' => Acts(w, k)) /\ (Brings(w, k)' => Brings(w, k))
  BY FewerIs
<1>2. Pending(k)' => Pending(k)
  BY <1>1 DEF Pending
<1> QED BY <1>1, <1>2, SoloStays

\* A worker that is what it was does no more.
LEMMA FewerSame == ASSUME NEW w \in Workers, workers'[w] = workers[w] PROVE Fewer(w)
BY DEF Fewer

\* A worker that is free, or prepares, acts on nothing.
LEMMA FewerIdle == ASSUME NEW w \in Workers, workers'[w].pc \in {"idle", "owners", "prepare"} PROVE Fewer(w)
BY DEF Fewer, Acting

\* A withdrawn worker does no more.
LEMMA FewerWithdrawn == ASSUME NEW w \in Workers, Withdrawn(workers'[w], workers[w]) PROVE Fewer(w)
<1>1. Idle.pc = "idle"
  BY DEF Idle
<1> QED BY <1>1, FewerIdle DEF Withdrawn, Fewer

\* The flow, the workers and the plans are left alone.
LEMMA SoloSame ==
  ASSUME NEW k, Solo(k), UNCHANGED <<flow, workers, file>>
  PROVE  Solo(k)'
<1>1. Awaits(k)' = Awaits(k) /\ Settled(k)' = Settled(k)
  BY DEF Awaits, Settled
<1> QED BY <1>1, FewerSame, SoloFrame DEF Pending

\* The companion ends or restarts: nobody acts, and nothing is pending.
LEMMA LeavesSolo == ASSUME NEW p, Leaves(p), NEW k PROVE Solo(k)'
<1>1. \A w \in Workers : workers'[w].pc = "idle"
  BY DEF Leaves, Idle
<1>2. flow'.phase = "none"
  BY DEF Leaves, NoFlow
<1>3. \A w \in Workers : ~Acts(w, k)' /\ ~Brings(w, k)'
  BY <1>1 DEF Acts, Brings, Acting
<1>4. ~Pending(k)'
  BY <1>2, <1>3 DEF Pending, Awaits
<1> HIDE DEF Acts, Brings, Pending
<1> QED BY <1>3, <1>4 DEF Solo

\* A restarted companion resumes a plan that is not settled.
LEMMA ConnectSolo == ASSUME IInv, Connect, NEW k \in Plans, Solo(k) PROVE Solo(k)'
<1>1. CASE Leaves(Off)
  BY <1>1, LeavesSolo
<1>2. CASE ~Leaves(Off)
  <2>1. /\ proc.st = "starting" /\ (proc.resume # None => Resumable(proc.resume))
        /\ flow' = IF proc.resume = None THEN NoFlow
                   ELSE [NoFlow EXCEPT !.phase = "applying", !.plan = proc.resume, !.custom = TRUE]
        /\ UNCHANGED <<workers, file>>
    BY <1>2 DEF Connect, threads
  <2>2. \A w \in Workers : workers'[w].pc = "idle"
    BY <2>1 DEF IInv, Alone, Up, Idle
  <2>3. \A w \in Workers : ~Acts(w, k)' /\ ~Brings(w, k)'
    BY <2>2 DEF Acts, Brings, Acting
  <2>4. Pending(k)' => ~Settled(k)'
    <3>1. CASE proc.resume = None
      BY <2>1, <2>3, <3>1, Records DEF Pending, Awaits
    <3>2. CASE proc.resume # None
      <4>1. flow'.plan = proc.resume
        BY <2>1, <3>2 DEF NoFlow
      <4>2. file[proc.resume].phase \notin {"applied", "partial"}
        BY <2>1, <3>2 DEF Resumable
      <4> QED BY <2>1, <2>3, <4>1, <4>2 DEF Pending, Awaits, Settled
    <3> QED BY <3>1, <3>2
  <2> HIDE DEF Acts, Brings, Pending, Settled
  <2> QED BY <2>3, <2>4 DEF Solo
<1> QED BY <1>1, <1>2

\* Withdrawn, workers do no more.
LEMMA WithdrawnSolo ==
  ASSUME TypeOK, NEW k, Solo(k), NEW keep, workers' = Invalidated(keep), UNCHANGED file, Awaits(k)' => Awaits(k)
  PROVE  Solo(k)'
<1>1. \A w \in Workers : Fewer(w)
  BY InvalidatedIs, FewerWithdrawn
<1> QED BY <1>1, SoloFrame DEF Settled, Pending

\* The handlers of the modal show a plan to be reviewed, and start a preparation only.
LEMMA ModalSolo ==
  ASSUME IInv, Offer \/ Retry \/ Escape \/ Advanced \/ TimesOut, NEW k \in Plans, Solo(k)
  PROVE  Solo(k)' /\ flow'.phase # "verified"
<1> USE DEF IInv
<1>1. UNCHANGED file
  BY DEF Offer, Retry, Escape, Advanced, TimesOut, rest
<1>2. CASE Offer \/ Retry
  <2>1. PICK ws : ws = Invalidated(0)
    OBVIOUS
  <2>2. PICK n : n = Lowest(Free(ws))
    OBVIOUS
  <2>3. /\ Free(ws) # {} /\ workers' = Spawned(ws, n, "owners", None)
        /\ flow' = [phase |-> "preparing", plan |-> None, job |-> n, custom |-> FALSE]
    BY <1>2, <2>1, <2>2 DEF Offer, Retry, StartsLatest
  <2>4. ws \in [Workers -> Thread] /\ \A w \in Workers : Withdrawn(ws[w], workers[w])
    BY <2>1, InvalidatedIs
  <2>5. n \in Workers /\ workers'[n].pc = "owners" /\ \A v \in Workers \ {n} : workers'[v] = ws[v]
    <3>1. "owners" \in Pcs
      BY DEF Pcs, Calls
    <3> QED BY <2>2, <2>3, <2>4, <3>1, SpawnedIs
  <2>6. \A w \in Workers : Fewer(w)
    BY <2>4, <2>5, FewerIdle, FewerWithdrawn
  <2>7. flow'.phase = "preparing"
    BY <2>3
  <2> QED BY <1>1, <2>6, <2>7, SoloFrame DEF Settled, Awaits
<1>3. CASE Escape \/ Advanced
  <2>1. workers' = Invalidated(0) /\ (flow' = NoFlow \/ flow' = [NoFlow EXCEPT !.phase = "form", !.custom = TRUE])
    BY <1>3 DEF Escape, Advanced, Close
  <2>2. flow'.phase \in {"none", "form"}
    <3>1. \A f \in Flow : [f EXCEPT !.phase = "form", !.custom = TRUE].phase = "form"
      BY Zenon DEF Flow
    <3> QED BY <2>1, <3>1, Records
  <2> QED BY <1>1, <2>1, <2>2, WithdrawnSolo DEF Awaits
<1>4. CASE TimesOut
  <2>1. flow'.phase = "failed" /\ (workers' = Invalidated(0) \/ UNCHANGED workers)
    BY <1>4, FailsIs DEF TimesOut
  <2>2. \A w \in Workers : Fewer(w)
    BY <2>1, InvalidatedIs, FewerWithdrawn, FewerSame
  <2> QED BY <1>1, <2>1, <2>2, SoloFrame DEF Settled, Awaits
<1> QED BY <1>2, <1>3, <1>4

\* The worker that starts to apply a plan is the only one that acts on it.
LEMMA ApplySolo ==
  ASSUME IInv, flow.job = 0, UNCHANGED file, Awaits(flow.plan), flow.plan \in Plans,
         StartsApply(flow.plan), NEW k \in Plans, Solo(k)
  PROVE  Solo(k)' /\ flow'.phase = "applying"
<1>1. PICK n \in Workers :
        /\ IsFlow(flow', "applying", flow.plan, n)
        /\ workers'[n].pc \in {"plan", "verify"} /\ workers'[n].plan = flow.plan
        /\ \A v \in Workers \ {n} : workers'[v] = workers[v]
  BY StartsIs DEF IInv, TypeOK
<1>2. n # 0
  BY CoordinatedAssumption, SMT DEF Workers
<1>3. ~Awaits(k)' /\ flow'.phase = "applying"
  BY <1>1, <1>2 DEF Awaits, IsFlow
<1>4. \A w \in Workers : ~Brings(w, k)'
  <2>1. \A w \in Workers : workers[w].pc # "done"
    BY NobodyWaits
  <2> QED BY <1>1, <2>1 DEF Brings
<1>5. ~Pending(k)'
  BY <1>3, <1>4 DEF Pending
<1>6. \A w \in Workers : w # n => (Acts(w, k)' => Acts(w, k))
  BY <1>1 DEF Acts
<1>7. Settled(k)' => Settled(k)
  BY DEF Settled
<1>8. CASE k = flow.plan
  <2>1. ~Settled(k) /\ \A w \in Workers : ~Acts(w, k)
    BY <1>8 DEF Solo, Pending
  <2> HIDE DEF Acts, Pending, Settled
  <2> QED BY <1>3, <1>5, <1>6, <1>7, <2>1 DEF Solo
<1>9. CASE k # flow.plan
  <2>1. ~Acts(n, k)'
    BY <1>1, <1>9 DEF Acts
  <2> HIDE DEF Acts, Pending, Settled
  <2> QED BY <1>3, <1>5, <1>6, <1>7, <2>1, SoloStays
<1> QED BY <1>8, <1>9

\* Enter, read: what was under review is acted on by one worker.
LEMMA ReadEnterSolo ==
  ASSUME IInv, ReadEnter, NEW k \in Plans, Solo(k)
  PROVE  Solo(k)' /\ flow'.phase # "verified"
<1> USE DEF IInv
<1>1. flow.phase # "verified" /\ UNCHANGED file
  BY DEF ReadEnter, Turns, rest
<1>2. CASE Approve
  <2>1. flow.job = 0 /\ flow.plan \in Plans /\ Awaits(flow.plan) /\ StartsApply(flow.plan)
    BY <1>2 DEF Approve, Agreed, Shown, Saved, Awaits
  <2> QED BY <1>1, <2>1, ApplySolo
<1>3. CASE Submit
  <2>1. PICK n : n = Lowest(Free(workers))
    OBVIOUS
  <2>2. /\ n \in Workers /\ workers'[n].pc = "owners" /\ \A v \in Workers \ {n} : workers'[v] = workers[v]
    <3>1. Free(workers) # {} /\ workers' = Spawned(workers, n, "owners", None)
      BY <1>3, <2>1 DEF Submit
    <3>2. "owners" \in Pcs /\ workers \in [Workers -> Thread]
      BY DEF Pcs, Calls, TypeOK
    <3> QED BY <2>1, <3>1, <3>2, SpawnedIs
  <2>3. flow'.phase = "preparing"
    BY <1>3, SMT DEF Submit, TypeOK, Flow
  <2>4. \A w \in Workers : Fewer(w)
    BY <2>2, FewerIdle, FewerSame
  <2> QED BY <1>1, <2>3, <2>4, SoloFrame DEF Settled, Awaits
<1>4. CASE Close
  <2>1. workers' = Invalidated(0) /\ flow'.phase = "none"
    BY <1>4, Records DEF Close
  <2> QED BY <1>1, <2>1, WithdrawnSolo DEF Awaits
<1>5. CASE UNCHANGED <<flow, workers>>
  BY <1>1, <1>5, SoloSame
<1> QED BY <1>2, <1>3, <1>4, <1>5, Zenon DEF ReadEnter

----------------------------------------------------------------------------
(* The workers, the event loop and the packets, for one plan.                *)

\* One worker's step, seen from one plan: it does no more than before; or it was the one
\* that acted on the plan and leaves it to nobody; or it brings a plan that nobody acts
\* on any more, and that is not settled.
LEMMA WorkerSolo ==
  ASSUME NEW k, Solo(k), UNCHANGED flow, NEW w \in Workers,
         \A v \in Workers : v # w => workers'[v] = workers[v],
         \/ (Acts(w, k)' => Acts(w, k)) /\ (Brings(w, k)' => Brings(w, k)) /\ (Settled(k)' => Settled(k))
         \/ Acts(w, k) /\ ~Acts(w, k)' /\ ~Brings(w, k)'
         \/ /\ \A v \in Workers : Acts(v, k) => v = w
            /\ ~Acts(w, k)' /\ ~Settled(k)'
  PROVE  Solo(k)'
<1>1. \A v \in Workers : v # w => (Acts(v, k)' = Acts(v, k)) /\ (Brings(v, k)' = Brings(v, k))
  BY DEF Acts, Brings
<1>2. Awaits(k)' = Awaits(k)
  BY DEF Awaits
<1>3. CASE (Acts(w, k)' => Acts(w, k)) /\ (Brings(w, k)' => Brings(w, k)) /\ (Settled(k)' => Settled(k))
  <2>1. \A v \in Workers : (Acts(v, k)' => Acts(v, k)) /\ (Brings(v, k)' => Brings(v, k))
    BY <1>1, <1>3, Zenon
  <2>2. Pending(k)' => Pending(k)
    BY <1>2, <2>1 DEF Pending
  <2> QED BY <1>3, <2>1, <2>2, SoloStays
<1>4. CASE Acts(w, k) /\ ~Acts(w, k)' /\ ~Brings(w, k)'
  <2>1. \A v \in Workers : ~Acts(v, k)'
    BY <1>1, <1>4, Zenon DEF Solo
  <2>2. ~Pending(k)
    BY <1>4 DEF Solo
  <2>3. ~Pending(k)'
    <3>1. ~Awaits(k)'
      BY <1>2, <2>2 DEF Pending
    <3>2. \A v \in Workers : ~Brings(v, k)'
      BY <1>1, <1>4, <2>2, Zenon DEF Pending
    <3> QED BY <3>1, <3>2 DEF Pending
  <2> HIDE DEF Acts, Pending, Settled
  <2> QED BY <2>1, <2>3 DEF Solo
<1>5. CASE (\A v \in Workers : Acts(v, k) => v = w) /\ ~Acts(w, k)' /\ ~Settled(k)'
  <2>1. \A v \in Workers : ~Acts(v, k)'
    BY <1>1, <1>5, Zenon
  <2> HIDE DEF Acts, Pending, Settled
  <2> QED BY <1>5, <2>1 DEF Solo
<1> QED BY <1>3, <1>4, <1>5

\* What a save leaves in the file, where TypeOK tells that the plan is a record.
LEMMA SavesOne ==
  ASSUME TypeOK, NEW k \in Plans, NEW ph, FailsToSave(k, ph)
  PROVE  /\ \A l \in Plans : l # k => file'[l] = file[l]
         /\ file'[k] = file[k] \/ file'[k].phase = ph
         /\ Saves(k, ph) => file'[k].phase = ph
         /\ file'[k].attempt = file[k].attempt /\ file'[k].pkg = file[k].pkg
<1>1. CASE UNCHANGED file /\ ~Saves(k, ph)
  BY <1>1
<1>2. CASE Saves(k, ph)
  <2>1. PICK x : x = [file[k] EXCEPT !.phase = ph]
    OBVIOUS
  <2>2. x.phase = ph /\ x.attempt = file[k].attempt /\ x.pkg = file[k].pkg
    <3>1. file[k] \in Retained
      BY DEF TypeOK
    <3>2. \A e \in Retained : LET y == [e EXCEPT !.phase = ph]
                              IN y.phase = ph /\ y.attempt = e.attempt /\ y.pkg = e.pkg
      BY Zenon DEF Retained
    <3> QED BY <2>1, <3>1, <3>2
  <2>3. file' = [file EXCEPT ![k] = x] /\ file \in [Plans -> Retained]
    BY <1>2, <2>1 DEF Saves, TypeOK
  <2>4. file'[k] = x /\ \A l \in Plans : l # k => file'[l] = file[l]
    BY <2>3, Zenon
  <2> QED BY <2>2, <2>4
<1> QED BY <1>1, <1>2 DEF FailsToSave

\* A worker that ended neither acts nor, unless it brings the plan, brings one.
LEMMA EndsActs ==
  ASSUME TypeOK, NEW w \in Workers, NEW a \in Answers, NEW l \in Plans \union {None},
         Ends(w, "done", a, l), NEW k
  PROVE  /\ \A v \in Workers : v # w => workers'[v] = workers[v]
         /\ ~Acts(w, k)' /\ (Brings(w, k)' => k = l /\ a \in {"prepared", "activate"})
<1>1. /\ \A v \in Workers \ {w} : workers'[v] = workers[v]
      /\ \/ workers'[w].pc = "done" /\ workers'[w].ans = a /\ workers'[w].plan = l
         \/ workers'[w] = Idle
  BY EndsIs
<1>2. Idle.pc = "idle"
  BY DEF Idle
<1> QED BY <1>1, <1>2 DEF Acts, Brings, Acting

\* A worker that is wrong ends, or one that has no plan to act on.
LEMMA ErrsSolo ==
  ASSUME IInv, NEW w \in Workers, Errs(w), UNCHANGED flow, NEW k \in Plans, Solo(k),
         Acts(w, k) \/ file'[k] = file[k]
  PROVE  Solo(k)'
<1>1. workers[w].plan \in Plans \union {None} /\ "error" \in Answers
  BY DEF IInv, TypeOK, Thread, Answers
<1>2. ~Acts(w, k)' /\ ~Brings(w, k)' /\ \A v \in Workers : v # w => workers'[v] = workers[v]
  BY <1>1, EndsActs DEF Errs, IInv
<1>3. file'[k] = file[k] => (Settled(k)' => Settled(k))
  BY DEF Settled
<1> HIDE DEF Acts, Brings, Settled
<1> QED BY <1>2, <1>3, WorkerSolo

\* A worker that goes on with the plan it acts on, which is not settled by that.
LEMMA GoesOnSolo ==
  ASSUME NEW w \in Workers, UNCHANGED flow, NEW k, Solo(k),
         \A v \in Workers : v # w => workers'[v] = workers[v],
         workers'[w].plan = workers[w].plan, workers'[w].pc # "done",
         workers[w].pc \in Acting \/ workers'[w].pc \notin Acting, Settled(k)' => Settled(k)
  PROVE  Solo(k)'
<1>1. (Acts(w, k)' => Acts(w, k)) /\ ~Brings(w, k)'
  BY DEF Acts, Brings
<1> QED BY <1>1, WorkerSolo

\* A call, put into the channel.
LEMMA RequestSolo == ASSUME IInv, NEW w \in Workers, Request(w), NEW k \in Plans, Solo(k) PROVE Solo(k)'
<1> USE DEF IInv
<1>1. workers[w] \in Thread /\ workers[w].pc \in Calls /\ UNCHANGED flow
  BY DEF Request, TypeOK
<1>2. UNCHANGED file
  BY DEF Request
<1>3. CASE Errs(w)
  BY <1>1, <1>2, <1>3, ErrsSolo
<1>4. CASE \E n : workers' = [workers EXCEPT ![w].io = "queued", ![w].base = n]
  <2>1. PICK n : workers' = [workers EXCEPT ![w].io = "queued", ![w].base = n]
    BY <1>4
  <2>2. PICK x : x = [workers[w] EXCEPT !.io = "queued", !.base = n]
    OBVIOUS
  <2>3. x.pc = workers[w].pc /\ x.plan = workers[w].plan
    <3>1. \A me \in Thread : LET y == [me EXCEPT !.io = "queued", !.base = n]
                             IN y.pc = me.pc /\ y.plan = me.plan
      BY Zenon DEF Thread
    <3> QED BY <1>1, <2>2, <3>1
  <2>4. workers' = [workers EXCEPT ![w] = x] /\ workers \in [Workers -> Thread]
    BY <2>1, <2>2, Zenon DEF TypeOK
  <2>5. workers'[w] = x /\ \A v \in Workers : v # w => workers'[v] = workers[v]
    BY <2>4, Zenon
  <2> QED BY <1>1, <1>2, <2>3, <2>5, GoesOnSolo DEF Calls, Settled
<1> QED BY <1>3, <1>4, Zenon DEF Request

\* A plan that is not saved has nobody who acts on it.
LEMMA UnsavedFree ==
  ASSUME IInv, NEW k \in Plans, file[k].phase = "none"
  PROVE  \A w \in Workers : ~Acts(w, k)
BY DEF IInv, Duty, Acts, Approved, Saved, Agreed

\* The number of the plan that is saved next.
LEMMA UnusedIs ==
  ASSUME Unused # {}
  PROVE  Lowest(Unused) \in Plans /\ file[Lowest(Unused)].phase = "none"
<1>1. Unused \in SUBSET Nat
  BY CoordinatedAssumption DEF Unused, Plans
<1> QED BY <1>1, LowestIn DEF Unused

\* An answer, taken.
LEMMA ReceiveSolo == ASSUME IInv, NEW w \in Workers, Receive(w), NEW k \in Plans, Solo(k) PROVE Solo(k)'
<1> USE DEF IInv
<1>1. /\ UNCHANGED flow /\ workers[w].pc \in Calls /\ workers[w].plan \in Plans \union {None}
      /\ workers[w].pc \in {"plan", "apply"} => workers[w].plan \in Plans
  BY DEF Receive, TypeOK, Thread, Duty, Acting, Approved
<1>2. CASE Errs(w) /\ UNCHANGED file
  BY <1>1, <1>2, ErrsSolo
<1>3. ASSUME workers[w].pc = "owners", GoesTo(w, "prepare"), UNCHANGED file PROVE Solo(k)'
  BY <1>1, <1>3, GoesIs, GoesOnSolo DEF Pcs, Calls, Acting, Settled
<1>4. ASSUME workers[w].pc = "plan", GoesTo(w, "install"), UNCHANGED file PROVE Solo(k)'
  BY <1>1, <1>4, GoesIs, GoesOnSolo DEF Pcs, Calls, Acting, Settled
<1>5. ASSUME workers[w].pc = "prepare", Unused # {}, NEW p \in Packages,
             Ends(w, "done", "prepared", Lowest(Unused)),
             file' = [file EXCEPT ![Lowest(Unused)] =
                        [phase |-> "prepared", pkg |-> p, base |-> workers[w].base, attempt |-> 0]]
      PROVE  Solo(k)'
  <2>1. PICK n \in Plans : n = Lowest(Unused) /\ file[n].phase = "none"
    BY <1>5, UnusedIs
  <2>2. n \in Plans \union {None} /\ "prepared" \in Answers
    BY DEF Answers
  <2>3. Ends(w, "done", "prepared", n)
    BY <1>5, <2>1
  <2>4. /\ \A v \in Workers : v # w => workers'[v] = workers[v]
        /\ ~Acts(w, k)' /\ (Brings(w, k)' => k = n)
    BY <2>2, <2>3, EndsActs
  <2>5. file'[k] = IF k = n THEN [phase |-> "prepared", pkg |-> p, base |-> workers[w].base, attempt |-> 0] ELSE file[k]
    BY <1>5, <2>1 DEF TypeOK
  <2>6. CASE k = n
    <3>1. ~Settled(k)'
      BY <2>5, <2>6 DEF Settled
    <3>2. \A v \in Workers : ~Acts(v, k)
      BY <2>1, <2>6, UnsavedFree
    <3> HIDE DEF Acts, Brings, Settled
    <3> QED BY <1>1, <2>4, <3>1, <3>2, WorkerSolo
  <2>7. CASE k # n
    <3>1. Settled(k)' => Settled(k)
      BY <2>5, <2>7 DEF Settled
    <3> HIDE DEF Acts, Brings, Settled
    <3> QED BY <1>1, <2>4, <2>7, <3>1, WorkerSolo
  <2> QED BY <2>6, <2>7
<1>6. ASSUME workers[w].pc = "apply", Saves(workers[w].plan, "awaiting_frontend"),
             Ends(w, "done", "activate", workers[w].plan)
      PROVE  Solo(k)'
  <2>1. PICK n \in Plans : n = workers[w].plan
    BY <1>1, <1>6
  <2>2. FailsToSave(n, "awaiting_frontend") /\ Saves(n, "awaiting_frontend") /\ Ends(w, "done", "activate", n)
    BY <1>6, <2>1 DEF FailsToSave
  <2>3. file'[n].phase = "awaiting_frontend" /\ \A l \in Plans : l # n => file'[l] = file[l]
    BY <2>2, SavesOne
  <2>4. /\ \A v \in Workers : v # w => workers'[v] = workers[v]
        /\ ~Acts(w, k)' /\ (Brings(w, k)' => k = n)
    <3>1. n \in Plans \union {None} /\ "activate" \in Answers
      BY DEF Answers
    <3> QED BY <2>2, <3>1, EndsActs
  <2>5. CASE k = n
    <3>1. Acts(w, k) /\ ~Settled(k)'
      BY <1>6, <2>1, <2>3, <2>5 DEF Acts, Acting, Settled
    <3>2. \A v \in Workers : Acts(v, k) => v = w
      BY <3>1 DEF Solo
    <3> HIDE DEF Acts, Brings, Settled
    <3> QED BY <1>1, <2>4, <3>1, <3>2, WorkerSolo
  <2>6. CASE k # n
    <3>1. Settled(k)' => Settled(k)
      BY <2>3, <2>6 DEF Settled
    <3> HIDE DEF Acts, Brings, Settled
    <3> QED BY <1>1, <2>4, <2>6, <3>1, WorkerSolo
  <2> QED BY <2>5, <2>6
<1>7. ASSUME workers[w].pc = "apply", NEW ph, FailsToSave(workers[w].plan, ph), Errs(w) PROVE Solo(k)'
  <2>1. k # workers[w].plan => file'[k] = file[k]
    BY <1>1, <1>7, SavesOne
  <2>2. k = workers[w].plan => Acts(w, k)
    BY <1>7 DEF Acts, Acting
  <2> QED BY <1>1, <1>7, <2>1, <2>2, ErrsSolo
<1> QED BY <1>2, <1>3, <1>4, <1>5, <1>6, <1>7 DEF Receive, Proceeds, GoesTo

\* The companion's package is installed, and the attempt recorded.
LEMMA InstallSolo ==
  ASSUME IInv, NEW w \in Workers, Install(w) \/ Record(w), NEW k \in Plans, Solo(k)
  PROVE  Solo(k)'
<1> USE DEF IInv
<1>1. /\ UNCHANGED flow /\ workers[w].pc \in {"install", "record"} /\ workers[w].base \in Nat
      /\ UNCHANGED <<companion, flow, chan, slot>>
  BY DEF Install, Record, TypeOK, Thread
<1>2. PICK n \in Plans : n = workers[w].plan /\ Saved(n)
  BY <1>1, ActingKeeps
<1>3. k = n <=> Acts(w, k)
  BY <1>1, <1>2 DEF Acts, Acting
<1>4. CASE Install(w)
  <2>1. UNCHANGED file
    BY <1>4 DEF Install
  <2>2. CASE Errs(w)
    BY <1>1, <2>1, <2>2, ErrsSolo
  <2>3. CASE workers' = [workers EXCEPT ![w].pc = "record", ![w].base = local'.attempt] /\ local' \in Installed(file[n].pkg)
    <3>1. local'.attempt \in Nat
      <4>1. file[n].pkg \in Packages
        BY <1>2 DEF Agreed, Saved
      <4> QED BY <2>3, <4>1, InstalledIs
    <3>2. /\ \A v \in Workers : v # w => workers'[v] = workers[v]
          /\ workers'[w].pc = "record" /\ workers'[w].plan = workers[w].plan
      BY <2>3, <3>1, InstallsIs
    <3> QED BY <1>1, <2>1, <3>2, GoesOnSolo DEF Acting, Settled
  <2> QED BY <1>2, <1>4, <2>2, <2>3 DEF Install
<1>5. CASE Record(w)
  <2>1. file' = file \/ file' = Recorded(n, workers[w].base)
    BY <1>2, <1>5 DEF Record, Recorded
  <2>2. workers[w].base # 0
    BY <1>5 DEF Duty, Record
  <2>3. /\ k # n => file'[k] = file[k]
        /\ k = n /\ file' # file => ~Settled(k)'
    BY <1>1, <1>2, <2>1, <2>2, RecordedIs DEF Settled
  <2>4. CASE Errs(w)
    BY <1>1, <1>3, <2>3, <2>4, ErrsSolo
  <2>5. CASE Ends(w, "done", "restart", n)
    <3>1. /\ \A v \in Workers : v # w => workers'[v] = workers[v]
          /\ ~Acts(w, k)' /\ ~Brings(w, k)'
      <4>1. n \in Plans \union {None} /\ "restart" \in Answers
        BY DEF Answers
      <4> QED BY <2>5, <4>1, EndsActs
    <3>2. k # n => (Settled(k)' => Settled(k))
      BY <2>3 DEF Settled
    <3> HIDE DEF Acts, Brings, Settled
    <3> QED BY <1>1, <1>3, <3>1, <3>2, WorkerSolo
  <2>6. CASE workers' = [workers EXCEPT ![w].pc = "verify"]
    <3>1. /\ \A v \in Workers : v # w => workers'[v] = workers[v]
          /\ workers'[w].pc = "verify" /\ workers'[w].plan = workers[w].plan
      BY <2>6, MovesIs DEF Pcs
    <3>2. Settled(k)' => Settled(k)
      BY <2>3 DEF Settled
    <3> QED BY <1>1, <3>1, <3>2, GoesOnSolo DEF Acting
  <2> QED BY <1>2, <1>5, <2>4, <2>5, <2>6 DEF Record
<1> QED BY <1>4, <1>5

\* The plan is verified, and the core about to be asked.
LEMMA BeginSolo ==
  ASSUME IInv, NEW w \in Workers, Verify(w) \/ Begin(w), NEW k \in Plans, Solo(k)
  PROVE  Solo(k)'
<1> USE DEF IInv
<1>1. /\ UNCHANGED flow /\ workers[w].pc \in {"verify", "begin"}
      /\ UNCHANGED <<companion, flow, chan, slot>>
  BY DEF Verify, Begin
<1>2. PICK n \in Plans : n = workers[w].plan
  BY <1>1, ActingKeeps
<1>3. k = n <=> Acts(w, k)
  BY <1>1, <1>2 DEF Acts, Acting
<1>4. UNCHANGED file \/ FailsToSave(n, "applying_core")
  BY <1>2 DEF Verify, Begin, FailsToSave
<1>5. (k # n => file'[k] = file[k]) /\ (Settled(k)' => Settled(k))
  BY <1>4, SavesOne DEF Settled
<1>6. CASE Errs(w)
  BY <1>1, <1>3, <1>5, <1>6, ErrsSolo
<1>7. CASE \E pc \in {"begin", "apply"} : workers' = [workers EXCEPT ![w].pc = pc]
  <2>1. PICK pc \in {"begin", "apply"} : workers' = [workers EXCEPT ![w].pc = pc]
    BY <1>7
  <2>2. /\ \A v \in Workers : v # w => workers'[v] = workers[v]
        /\ workers'[w].pc = pc /\ workers'[w].plan = workers[w].plan
    BY <2>1, MovesIs DEF Pcs, Calls
  <2> QED BY <1>1, <1>5, <2>2, GoesOnSolo DEF Acting
<1> QED BY <1>6, <1>7 DEF Verify, Begin

\* The calls go out and their answers come in: the worker in a call stays what it was.
LEMMA CallSolo ==
  ASSUME TypeOK, UNCHANGED <<flow, file>>, NEW w \in Workers, workers[w].pc \in Calls, NEW x,
         x.pc = workers[w].pc, x.plan = workers[w].plan, workers' = [workers EXCEPT ![w] = x],
         NEW k, Solo(k)
  PROVE  Solo(k)'
<1>1. workers'[w] = x /\ \A v \in Workers : v # w => workers'[v] = workers[v]
  BY Zenon DEF TypeOK
<1> QED BY <1>1, GoesOnSolo DEF Calls, Settled

\* A call goes out.
LEMMA DequeueSolo == ASSUME IInv, Dequeue, NEW k \in Plans, Solo(k) PROVE Solo(k)'
<1>1. PICK w \in Workers : w = chan
  BY CoordinatedAssumption, SMT DEF Dequeue, IInv, TypeOK, Workers
<1>2. workers[w].pc \in Calls /\ workers[w] \in Thread /\ UNCHANGED <<flow, file>>
  BY <1>1 DEF IInv, Calling, TypeOK, Dequeue, ui
<1>3. \A me \in Thread : LET y == [me EXCEPT !.io = "waiting"]
                             z == [me EXCEPT !.io = "got", !.ans = "no"]
                         IN y.pc = me.pc /\ y.plan = me.plan /\ z.pc = me.pc /\ z.plan = me.plan
  BY Zenon DEF Thread
<1>4. PICK x : workers' = [workers EXCEPT ![w] = x] /\ x.pc = workers[w].pc /\ x.plan = workers[w].plan
  <2>1. CASE workers' = [workers EXCEPT ![w].io = "waiting"]
    BY <1>2, <1>3, <2>1
  <2>2. CASE workers' = [workers EXCEPT ![w].io = "got", ![w].ans = "no"]
    <3>1. PICK x : x = [workers[w] EXCEPT !.io = "got", !.ans = "no"]
      OBVIOUS
    <3>2. workers' = [workers EXCEPT ![w] = x]
      BY <2>2, <3>1, Zenon
    <3> QED BY <1>2, <1>3, <3>1, <3>2
  <2> QED BY <1>1, <2>1, <2>2, Zenon DEF Dequeue
<1> QED BY <1>2, <1>4, CallSolo DEF IInv

\* What a worker brought is the flow's: it was nobody's before.
LEMMA OutcomeSolo ==
  ASSUME IInv, Outcome, NEW k \in Plans, Solo(k)
  PROVE  Solo(k)' /\ flow'.phase # "verified"
<1> USE DEF IInv
<1>1. PICK w \in Workers : w = flow.job
  BY CoordinatedAssumption, SMT DEF Outcome, TypeOK, Flow, Workers
<1>2. PICK n : n = workers[w].plan
  OBVIOUS
<1>3. /\ workers[w].pc = "done" /\ UNCHANGED file /\ workers \in [Workers -> Thread]
      /\ flow \in Flow /\ n \in Plans \union {None} /\ flow.plan \in Plans \union {None}
      /\ {"review", "waiting", "form", "failed"} \subseteq Phases /\ 0 \in 0..MaxWorker
  BY <1>1, <1>2, CoordinatedAssumption DEF Outcome, TypeOK, Flow, Thread, Phases
<1>4. CASE Restart(n)
  BY <1>4, LeavesSolo DEF Restart, Leaves, NoFlow
<1>5. CASE workers' = [workers EXCEPT ![w] = Idle]
  <2>1. workers'[w] = Idle /\ Idle.pc = "idle" /\ \A v \in Workers : v # w => workers'[v] = workers[v]
    BY <1>3, <1>5 DEF Idle
  <2>2. \A v \in Workers : Fewer(v)
    BY <2>1, FewerSame, FewerIdle
  <2>3. CASE workers[w].ans \in {"prepared", "activate"}
            /\ \E ph \in {"review", "waiting"} : flow' = [flow EXCEPT !.phase = ph, !.plan = n, !.job = 0]
    <3>1. flow'.plan = n /\ flow'.phase \in {"review", "waiting"}
      <4>1. PICK ph \in {"review", "waiting"} : flow' = [flow EXCEPT !.phase = ph, !.plan = n, !.job = 0]
        BY <2>3
      <4>2. IsFlow(flow', ph, n, 0)
        BY <1>3, <4>1, Flows
      <4> QED BY <4>2 DEF IsFlow
    <3>2. Awaits(k)' => Brings(w, k)
      BY <1>2, <1>3, <2>3, <3>1 DEF Awaits, Brings
    <3> QED BY <1>3, <2>2, <3>1, <3>2, SoloFrame DEF Pending, Settled
  <2>4. CASE flow' = [flow EXCEPT !.phase = "form", !.job = 0] \/ Fails
    <3>1. flow'.phase \in {"form", "failed"}
      <4>1. "form" \in Phases
        BY DEF Phases
      <4>2. IsFlow([flow EXCEPT !.phase = "form", !.job = 0], "form", flow.plan, 0)
        BY <1>3, <4>1, Flows
      <4> QED BY <2>4, <4>2, FailsIs DEF IsFlow
    <3> QED BY <1>3, <2>2, <3>1, SoloFrame DEF Awaits, Settled
  <2>5. \/ Restart(n) \/ flow' = [flow EXCEPT !.phase = "form", !.job = 0] \/ Fails
        \/ workers[w].ans = "prepared" /\ flow' = [flow EXCEPT !.phase = "review", !.plan = n, !.job = 0]
        \/ workers[w].ans = "activate" /\ flow' = [flow EXCEPT !.phase = "waiting", !.plan = n, !.job = 0]
    BY <1>1, <1>2, Zenon DEF Outcome
  <2> QED BY <1>4, <2>3, <2>4, <2>5
<1>6. Restart(n) \/ workers' = [workers EXCEPT ![w] = Idle]
  BY <1>1, <1>2, Zenon DEF Outcome
<1> QED BY <1>4, <1>5, <1>6

\* A resumed update, whose plan is the flow's, goes on with one worker.
LEMMA ReadySolo ==
  ASSUME IInv, NEW l, Ready(l), UNCHANGED file, NEW k \in Plans, Solo(k)
  PROVE  Solo(k)' /\ (flow' = flow \/ flow'.phase = "applying")
<1>1. CASE UNCHANGED <<flow, workers>>
  BY <1>1, SoloSame
<1>2. CASE Resumes /\ StartsApply(flow.plan)
  <2>1. flow.job = 0 /\ flow.plan \in Plans /\ Awaits(flow.plan)
    BY <1>2 DEF Resumes, IInv, Agreed, Approved, Awaits
  <2> QED BY <1>2, <2>1, ApplySolo
<1> QED BY <1>1, <1>2 DEF Ready

\* A packet, read: only the check of an acknowledgement turns a wait into a verified one.
LEMMA ReadSolo ==
  ASSUME IInv, Read, NEW k \in Plans, Solo(k)
  PROVE  Solo(k)' /\ (flow'.phase = "verified" => flow.phase = "waiting" /\ Head(up).t = "ack" /\ ReadAck(Head(up).k))
<1> USE DEF IInv
<1>1. flow.phase # "verified"
  BY DEF Read, Turns
<1>2. CASE Leaves(Off)
  BY <1>2, LeavesSolo DEF Leaves, NoFlow
<1>3. CASE ReadOutput
  <2>1. UNCHANGED file
    BY <1>3 DEF ReadOutput
  <2>2. CASE Ready(link')
    BY <1>1, <2>1, <2>2, ReadySolo
  <2>3. CASE workers' = Invalidated(0) /\ IF flow = NoFlow THEN UNCHANGED flow ELSE Fails
    <3>1. flow'.phase \in {"none", "failed"}
      BY <2>3, FailsIs, Records
    <3> QED BY <2>1, <2>3, <3>1, WithdrawnSolo DEF Awaits
  <2> QED BY <1>3, <2>2, <2>3, Zenon DEF ReadOutput
<1>4. CASE ReadCapability
  <2>1. UNCHANGED file /\ Ready(link')
    BY <1>4 DEF ReadCapability
  <2> QED BY <1>1, <2>1, ReadySolo
<1>5. CASE ReadResult(Head(up).ok)
  <2>1. PICK w \in Workers : w = slot
    BY <1>5, CoordinatedAssumption, SMT DEF ReadResult, TypeOK, Workers
  <2>2. workers[w].pc \in Calls /\ workers[w] \in Thread /\ UNCHANGED <<flow, file>>
    BY <1>5, <2>1 DEF Calling, TypeOK, ReadResult
  <2>3. PICK a : a = IF workers[w].valid THEN Head(up).ok ELSE "no"
    OBVIOUS
  <2>4. PICK x : x = [workers[w] EXCEPT !.io = "got", !.ans = a]
    OBVIOUS
  <2>5. x.pc = workers[w].pc /\ x.plan = workers[w].plan
    <3>1. \A me \in Thread : LET y == [me EXCEPT !.io = "got", !.ans = a] IN y.pc = me.pc /\ y.plan = me.plan
      BY Zenon DEF Thread
    <3> QED BY <2>2, <2>4, <3>1
  <2>6. workers' = [workers EXCEPT ![w] = x]
    BY <1>5, <2>1, <2>3, <2>4 DEF ReadResult
  <2> QED BY <1>1, <2>2, <2>5, <2>6, CallSolo
<1>6. CASE Head(up).t = "ack" /\ ReadAck(Head(up).k)
  <2>1. UNCHANGED <<workers, file>>
    BY <1>6 DEF ReadAck, threads
  <2>2. CASE UNCHANGED flow
    BY <1>1, <2>1, <2>2, SoloSame
  <2>3. CASE flow.phase = "waiting" /\ \E ph \in {"verified", "unverified"} : flow' = [flow EXCEPT !.phase = ph]
    <3>1. flow'.plan = flow.plan
      <4>1. \A f \in Flow, ph \in Phases : [f EXCEPT !.phase = ph].plan = f.plan
        BY Zenon DEF Flow
      <4> QED BY <2>3, <4>1 DEF TypeOK, Phases
    <3>2. Awaits(k)' => Awaits(k)
      BY <2>3, <3>1 DEF Awaits
    <3> QED BY <1>6, <2>1, <2>3, <3>2, FewerSame, SoloFrame DEF Pending, Settled
  <2> QED BY <1>6, <2>2, <2>3 DEF ReadAck
<1>7. CASE ReadHello(Tail(up))
  <2>1. UNCHANGED file
    BY <1>7 DEF ReadHello
  <2>2. flow' = flow \/ flow'.phase = "failed"
    BY <1>7, FailsIs, Zenon DEF ReadHello
  <2>3. PICK keep : keep = IF flow.phase \in {"form", "preparing", "review"} THEN 0 ELSE flow.job
    OBVIOUS
  <2>4. ASSUME NEW w \in Workers PROVE Fewer(w)
    <3>1. CASE w = slot
      <4>1. PICK x : x = [workers[w] EXCEPT !.valid = FALSE, !.io = "got", !.ans = "no"]
        OBVIOUS
      <4>2. w # 0
        BY CoordinatedAssumption, SMT DEF Workers
      <4>3. workers'[w] = x /\ workers[w] \in Thread /\ workers[w].pc \in Calls
        BY <1>7, <3>1, <4>1, <4>2 DEF ReadHello, Dropped, TypeOK, Calling
      <4>4. x.pc = workers[w].pc /\ x.plan = workers[w].plan
        <5>1. \A me \in Thread : LET y == [me EXCEPT !.valid = FALSE, !.io = "got", !.ans = "no"]
                                 IN y.pc = me.pc /\ y.plan = me.plan
          BY Zenon DEF Thread
        <5> QED BY <4>1, <4>3, <5>1
      <4> QED BY <4>3, <4>4 DEF Fewer, Calls
    <3>2. CASE w # slot
      <4>1. workers'[w] = Invalidated(keep)[w]
        BY <1>7, <2>3, <3>2 DEF ReadHello
      <4> QED BY <4>1, InvalidatedIs, FewerWithdrawn
    <3> QED BY <3>1, <3>2
  <2>5. Awaits(k)' => Pending(k)
    BY <2>2 DEF Awaits, Pending
  <2> QED BY <1>1, <2>1, <2>2, <2>4, <2>5, SoloFrame DEF Settled
<1> QED BY <1>2, <1>3, <1>4, <1>5, <1>6, <1>7, Zenon DEF Read

\* The outcome is saved for the plan of the flow, that nobody acts on; the flow is done.
LEMMA SaveOutcomeSolo ==
  ASSUME IInv, SaveOutcome, NEW k \in Plans, Solo(k)
  PROVE  Solo(k)' /\ flow'.phase # "verified"
<1> USE DEF IInv
<1>1. CASE Leaves(Off)
  BY <1>1, LeavesSolo DEF Leaves, NoFlow
<1>2. CASE ~Leaves(Off)
  <2>1. flow.plan \in Plans /\ Awaits(flow.plan) /\ flow.job = 0
    BY DEF SaveOutcome, Turns, Agreed, Approved, Awaits
  <2>2. PICK n \in Plans, ph \in {"applied", "partial"} :
          n = flow.plan /\ ph = IF flow.phase = "verified" THEN "applied" ELSE "partial"
    BY <2>1
  <2>3. /\ Saves(n, ph) /\ workers' = Invalidated(0)
        /\ IF flow.phase = "verified" THEN flow' = NoFlow ELSE Fails
    BY <1>2, <2>2, Zenon DEF SaveOutcome
  <2>4. flow'.phase \in {"none", "failed"}
    BY <2>3, FailsIs, Records
  <2>5. \A w \in Workers : Fewer(w)
    BY <2>3, InvalidatedIs, FewerWithdrawn
  <2>6. CASE k = n
    <3>1. \A w \in Workers : ~Acts(w, k)
      BY <2>1, <2>2, <2>6 DEF Solo, Pending
    <3>2. \A w \in Workers : ~Acts(w, k)'
      BY <2>5, <3>1, FewerIs
    <3>3. ~Pending(k)'
      <4>1. \A w \in Workers : ~Brings(w, k)
        BY <2>1, NobodyWaits DEF Brings
      <4>2. \A w \in Workers : ~Brings(w, k)'
        BY <2>5, <4>1, FewerIs
      <4> QED BY <2>4, <4>2 DEF Pending, Awaits
    <3> HIDE DEF Acts, Pending, Settled
    <3> QED BY <2>4, <3>2, <3>3 DEF Solo
  <2>7. CASE k # n
    <3>1. file'[k] = file[k]
      BY <2>3, <2>7, SavesOne DEF FailsToSave
    <3> QED BY <2>4, <2>5, <3>1, SoloFrame DEF Awaits, Settled
  <2> QED BY <2>6, <2>7
<1> QED BY <1>1, <1>2

\* The steps that leave the flow, the workers and the plans alone.
LEMMA ElsewhereSame ==
  ASSUME UNCHANGED vars \/ Start \/ OtherInstalls \/ Enter \/ Serve \/ Draw \/ Answer \/ Refresh \/ Activate \/ Acknowledge
  PROVE  UNCHANGED <<flow, workers, file, seen>>
<1>1. ASSUME UNCHANGED vars \/ Start \/ OtherInstalls PROVE UNCHANGED <<flow, workers, file, seen>>
  BY <1>1 DEF vars, Start, OtherInstalls, ui, threads, past
<1>2. ASSUME Enter PROVE UNCHANGED <<flow, workers, file, seen>>
  BY <1>2 DEF Enter, rest, past
<1>3. ASSUME Serve \/ Draw \/ Answer \/ Refresh \/ Activate \/ Acknowledge
      PROVE  UNCHANGED <<flow, workers, file, seen>>
  BY <1>3 DEF Serve, Draw, Answer, Refresh, Activate, Acknowledge, remote, ui, threads, past
<1> QED BY <1>1, <1>2, <1>3

\* Every step leaves one worker at most to a plan.
LEMMA NextSolo == ASSUME IInv, [Next]_vars, NEW k \in Plans, Solo(k) PROVE Solo(k)'
<1>1. CASE UNCHANGED vars \/ Start \/ OtherInstalls \/ Enter \/ Serve \/ Draw \/ Answer \/ Refresh \/ Activate \/ Acknowledge
  BY <1>1, ElsewhereSame, SoloSame
<1>2. CASE Dies \/ Refuses \/ Connect
  BY <1>2, LeavesSolo, ConnectSolo DEF Dies, Refuses
<1>3. CASE Offer \/ Retry \/ Escape \/ Advanced \/ TimesOut \/ ReadEnter
  BY <1>3, ModalSolo, ReadEnterSolo
<1>4. CASE Dequeue \/ Outcome \/ Read \/ SaveOutcome
  BY <1>4, DequeueSolo, OutcomeSolo, ReadSolo, SaveOutcomeSolo
<1>5. CASE \E w \in Workers : Worker(w)
  BY <1>5, RequestSolo, ReceiveSolo, InstallSolo, BeginSolo DEF Worker
<1> QED BY <1>1, <1>2, <1>3, <1>4, <1>5, Zenon DEF Next

----------------------------------------------------------------------------
(* What changes a retained plan.                                             *)

\* A worker changes the plan it acts on, or saves a new one, and calls none applied.
LEMMA WorkerFile ==
  ASSUME IInv, NEW w \in Workers, Worker(w), NEW k \in Plans, file'[k] # file[k]
  PROVE  (file[k].phase = "none" \/ Acts(w, k)) /\ file'[k].phase # "applied"
<1> USE DEF IInv
<1>1. CASE Receive(w)
  <2>1. workers[w].pc = "apply" => workers[w].plan \in Plans
    BY DEF Duty, Acting, Approved
  <2>2. CASE workers[w].pc = "apply" /\ \E ph \in {"awaiting_frontend", "partial"} : FailsToSave(workers[w].plan, ph)
    <3>1. PICK n \in Plans : n = workers[w].plan
      BY <2>1, <2>2
    <3>2. PICK ph \in {"awaiting_frontend", "partial"} : FailsToSave(n, ph)
      BY <2>2, <3>1
    <3>3. k = n /\ file'[k].phase = ph
      BY <3>2, SavesOne
    <3> QED BY <2>2, <3>1, <3>3 DEF Acts, Acting
  <2>3. CASE Unused # {} /\ \E p \in Packages : file' = [file EXCEPT ![Lowest(Unused)] =
               [phase |-> "prepared", pkg |-> p, base |-> workers[w].base, attempt |-> 0]]
    <3>1. PICK p \in Packages : file' = [file EXCEPT ![Lowest(Unused)] =
               [phase |-> "prepared", pkg |-> p, base |-> workers[w].base, attempt |-> 0]]
      BY <2>3
    <3>2. PICK n \in Plans : n = Lowest(Unused) /\ file[n].phase = "none"
      BY <2>3, UnusedIs
    <3>3. file'[k] = IF k = n THEN [phase |-> "prepared", pkg |-> p, base |-> workers[w].base, attempt |-> 0] ELSE file[k]
      BY <3>1, <3>2 DEF TypeOK
    <3> QED BY <3>2, <3>3
  <2> QED BY <1>1, <2>2, <2>3 DEF Receive, Proceeds, FailsToSave
<1>2. CASE Record(w)
  <2>1. workers[w].pc = "record" /\ workers[w].base \in Nat /\ UNCHANGED <<companion, flow, chan, slot>>
    BY <1>2 DEF Record, TypeOK, Thread
  <2>2. PICK n \in Plans : n = workers[w].plan /\ Saved(n)
    BY <2>1, ActingKeeps
  <2>3. file' = Recorded(n, workers[w].base)
    BY <1>2, <2>2 DEF Record, Recorded
  <2>4. workers[w].base # 0
    BY <2>1 DEF Duty
  <2>5. k = n /\ file'[k].phase = "companion_installed"
    BY <2>1, <2>2, <2>3, <2>4, RecordedIs
  <2> QED BY <2>1, <2>2, <2>5 DEF Acts, Acting
<1>3. CASE Begin(w)
  <2>1. workers[w].pc = "begin" /\ UNCHANGED <<companion, flow, chan, slot>>
    BY <1>3 DEF Begin
  <2>2. PICK n \in Plans : n = workers[w].plan
    BY <2>1, ActingKeeps
  <2>3. FailsToSave(n, "applying_core")
    BY <1>3, <2>2 DEF Begin, FailsToSave
  <2>4. k = n /\ file'[k].phase = "applying_core"
    BY <2>3, SavesOne
  <2> QED BY <2>1, <2>2, <2>4 DEF Acts, Acting
<1>4. file' # file
  OBVIOUS
<1> QED BY <1>1, <1>2, <1>3, <1>4 DEF Worker, Request, Install, Verify

\* The steps that leave every plan alone.
LEMMA FileSame ==
  ASSUME [Next]_vars, ~SaveOutcome, ~ \E w \in Workers : Worker(w)
  PROVE  UNCHANGED file
<1>1. ASSUME Dies \/ Refuses \/ Connect PROVE UNCHANGED file
  BY <1>1 DEF Dies, Refuses, Connect
<1>2. ASSUME Offer \/ Retry \/ Escape \/ Advanced \/ ReadEnter PROVE UNCHANGED file
  <2>1. UNCHANGED rest
    BY <1>2, Zenon DEF Offer, Retry, Escape, Advanced, ReadEnter
  <2> QED BY <2>1 DEF rest
<1>3. ASSUME Outcome \/ TimesOut \/ Dequeue PROVE UNCHANGED file
  <2>1. UNCHANGED <<file, local>> \/ UNCHANGED file
    BY <1>3 DEF Outcome, TimesOut, Dequeue
  <2> QED BY <2>1
<1>4. ASSUME Read PROVE UNCHANGED file
  <2>1. \/ UNCHANGED <<file, seen>>
        \/ ReadOutput \/ ReadCapability \/ ReadResult(Head(up).ok) \/ ReadAck(Head(up).k) \/ ReadHello(Tail(up))
    BY <1>4, Zenon DEF Read
  <2> QED BY <2>1 DEF ReadOutput, ReadCapability, ReadResult, ReadAck, ReadHello
<1> QED BY <1>1, <1>2, <1>3, <1>4, ElsewhereSame, Zenon DEF Next

\* A plan changes while a worker acts on it, or when the outcome of its flow is saved.
LEMMA StepFile ==
  ASSUME IInv, [Next]_vars, NEW k \in Plans, Solo(k), file'[k] # file[k]
  PROVE  /\ ~Settled(k)
         /\ file'[k].phase = "applied" => flow.phase = "verified" /\ k = flow.plan
         /\ file[k].phase = "none" \/ ~Awaits(k) \/ SaveOutcome
<1> USE DEF IInv
<1>1. CASE \E w \in Workers : Worker(w)
  <2>1. PICK w \in Workers : Worker(w)
    BY <1>1
  <2>2. (file[k].phase = "none" \/ Acts(w, k)) /\ file'[k].phase # "applied"
    BY <2>1, WorkerFile
  <2>3. Acts(w, k) => ~Settled(k) /\ ~Awaits(k)
    BY DEF Solo, Pending
  <2> QED BY <2>2, <2>3 DEF Settled
<1>2. CASE SaveOutcome
  <2>1. flow.plan \in Plans /\ Awaits(flow.plan)
    BY <1>2 DEF SaveOutcome, Turns, Agreed, Approved, Awaits
  <2>2. PICK n \in Plans, ph \in {"applied", "partial"} :
          n = flow.plan /\ ph = IF flow.phase = "verified" THEN "applied" ELSE "partial"
    BY <2>1
  <2>3. FailsToSave(n, ph)
    BY <1>2, <2>2, Zenon DEF SaveOutcome, FailsToSave
  <2>4. k = n /\ file'[k].phase = ph
    BY <2>3, SavesOne
  <2> QED BY <1>2, <2>1, <2>2, <2>4 DEF Solo, Pending
<1>3. UNCHANGED file => FALSE
  OBVIOUS
<1> QED BY <1>1, <1>2, <1>3, FileSame

\* The remote core takes no application back.
LEMMA RemoteGrows ==
  ASSUME IInv, Serve \/ Draw \/ Answer \/ Refresh \/ Activate \/ Acknowledge
  PROVE  CoreGrows /\ UNCHANGED proc
<1> USE DEF IInv
<1>1. CASE Serve \/ Draw \/ Acknowledge
  BY <1>1, CoreStays DEF Serve, Draw, Acknowledge, remote
<1>2. CASE Answer
  BY <1>2, AnswerGrows DEF Answer, remote
<1>3. CASE Refresh
  BY <1>3, OrphanedGrows DEF Refresh, Replaced
<1>4. CASE Activate
  BY <1>4, OrphanedGrows, CoreStays DEF Activate, Replaced, remote
<1> QED BY <1>1, <1>2, <1>3, <1>4

\* The check that was confirmed stays confirmed until its outcome is saved.
LEMMA ConfirmedStays ==
  ASSUME IInv, [Next]_vars, \A k \in Plans : Solo(k), Confirmed, ~SaveOutcome,
         flow.phase = "verified", UNCHANGED <<flow, proc, seen>>, CoreGrows
  PROVE  Confirmed'
<1> USE DEF IInv
<1>1. PICK k \in Plans : k = flow.plan /\ Saved(k)
  BY DEF Agreed, Approved
<1>2. Awaits(k) /\ file[k].phase # "none"
  BY <1>1 DEF Awaits, Saved
<1>3. file'[k] = file[k]
  BY <1>2, StepFile
<1> QED BY <1>1, <1>3 DEF Confirmed, CoreGrows

\* The acknowledgement is of a plan that the core applied, and the check approves its package.
LEMMA ReadConfirmed ==
  ASSUME IInv, Read, flow'.phase = "verified", flow.phase = "waiting", Head(up).t = "ack", ReadAck(Head(up).k)
  PROVE  Confirmed'
<1> USE DEF IInv
<1>1. PICK k : k = Head(up).k
  OBVIOUS
<1>2. k = flow.plan /\ Verified(k) /\ seen' = local /\ flow' = [flow EXCEPT !.phase = "verified"]
  <2>1. \A f \in Flow : [f EXCEPT !.phase = "unverified"].phase = "unverified"
    BY Zenon DEF Flow
  <2> QED BY <1>1, <2>1 DEF ReadAck, TypeOK
<1>3. flow'.plan = k
  <2>1. \A f \in Flow : [f EXCEPT !.phase = "verified"].plan = f.plan
    BY Zenon DEF Flow
  <2> QED BY <1>2, <2>1 DEF TypeOK
<1>4. k \in core.applied
  <2>1. up # <<>>
    BY DEF Read
  <2> QED BY <1>1, <2>1, PacketRead DEF Sendable
<1>5. UNCHANGED <<proc, file, core>>
  BY DEF ReadAck
<1> QED BY <1>2, <1>3, <1>4, <1>5 DEF Confirmed, Verified, RunsCandidate

\* Every step keeps what a check confirmed.
LEMMA NextConfirmed ==
  ASSUME IInv, [Next]_vars, \A k \in Plans : Solo(k), Confirmed
  PROVE  Confirmed'
<1> USE DEF IInv
<1> SUFFICES ASSUME flow'.phase = "verified" PROVE Confirmed'
  BY DEF Confirmed
<1>1. PICK k \in Plans : k = flow'.plan
  <2>1. IInv'
    BY NextKeeps
  <2> QED BY <2>1 DEF Agreed, Approved
<1>2. ~Dies /\ ~Refuses /\ ~Connect
  <2>1. ASSUME NEW p, Leaves(p) PROVE FALSE
    BY <2>1 DEF Leaves, NoFlow
  <2>2. ASSUME Connect, ~Leaves(Off) PROVE FALSE
    <3>1. flow' = NoFlow \/ flow' = [NoFlow EXCEPT !.phase = "applying", !.plan = proc.resume, !.custom = TRUE]
      BY <2>2, Zenon DEF Connect
    <3>2. NoFlow.phase = "none" /\ \A q : [NoFlow EXCEPT !.phase = "applying", !.plan = q, !.custom = TRUE].phase = "applying"
      BY DEF NoFlow
    <3>3. flow'.phase \in {"none", "applying"}
      BY <3>1, <3>2
    <3> QED BY <3>3
  <2> QED BY <2>1, <2>2 DEF Dies, Refuses
<1>3. ~Offer /\ ~Retry /\ ~Escape /\ ~Advanced /\ ~TimesOut /\ ~ReadEnter /\ ~Outcome /\ ~SaveOutcome
  BY <1>1, ModalSolo, ReadEnterSolo, OutcomeSolo, SaveOutcomeSolo
<1>4. CASE Dequeue
  <2>1. flow.phase # "verified" /\ UNCHANGED flow
    BY <1>4 DEF Dequeue, Turns, ui
  <2> QED BY <2>1
<1>5. CASE Read
  BY <1>1, <1>5, ReadSolo, ReadConfirmed
<1>6. CASE UNCHANGED vars \/ OtherInstalls \/ Enter \/ Start
  <2>1. UNCHANGED <<flow, seen>>
    BY <1>6, ElsewhereSame
  <2>2. UNCHANGED core
    BY <1>6 DEF vars, OtherInstalls, Enter, Start, rest
  <2>3. UNCHANGED proc
    <3>1. ~Start
      <4>1. Start => ~Up
        BY DEF Start, Up
      <4> QED BY <2>1, <4>1 DEF Alone, NoFlow
    <3> QED BY <1>6, <3>1 DEF vars, OtherInstalls, Enter, rest
  <2> QED BY <1>3, <2>1, <2>2, <2>3, CoreStays, ConfirmedStays
<1>7. CASE Serve \/ Draw \/ Answer \/ Refresh \/ Activate \/ Acknowledge
  <2>1. UNCHANGED <<flow, seen>>
    BY <1>7, ElsewhereSame
  <2> QED BY <1>3, <1>7, <2>1, RemoteGrows, ConfirmedStays
<1>8. CASE \E w \in Workers : Worker(w)
  <2>1. UNCHANGED <<companion, flow>>
    BY <1>8 DEF Worker, Request, Receive, Install, Record, Verify, Begin, Proceeds
  <2> QED BY <1>3, <2>1, CoreStays, ConfirmedStays DEF companion, past
<1> QED BY <1>2, <1>3, <1>4, <1>5, <1>6, <1>7, <1>8, Zenon DEF Next

----------------------------------------------------------------------------
(* What a plan called applied means.                                         *)

Second == (\A k \in Plans : Solo(k)) /\ Confirmed

\* At first nobody acts on a plan, and no acknowledgement was checked.
LEMMA InitSecond == ASSUME Init PROVE Second
<1>1. flow.phase = "none" /\ \A w \in Workers : workers[w].pc = "idle"
  BY DEF Init, NoFlow, Idle
<1>2. \A k : ~Pending(k) /\ \A w \in Workers : ~Acts(w, k)
  BY <1>1 DEF Pending, Awaits, Brings, Acts, Acting
<1> HIDE DEF Pending, Acts
<1> QED BY <1>1, <1>2 DEF Second, Solo, Confirmed

\* One worker at most acts on a plan, none while its review, wait or save is open and none
\* once it is settled; and until its outcome is saved, a checked acknowledgement stays of
\* an applied plan, the installed attempt seen being the plan's (apply, packet).
THEOREM OneWorker == Spec => []Second
<1>1. Init => Second
  BY InitSecond
<1>2. IInv /\ Second /\ [Next]_vars => Second'
  BY NextSolo, NextConfirmed DEF Second
<1> QED BY <1>1, <1>2, Invariant, PTL DEF Spec

\* A plan is called applied only after the core applied it and a check found its package
\* running and installed, by the plan's own attempt; a plan that is applied or partial
\* changes no more, whatever workers outlived their generation (packet, verify_applied).
THEOREM Completion == Spec => AppliedMeansAll
<1> DEFINE Means ==
      \A k \in Plans :
        /\ (file[k].phase # "applied" /\ file'[k].phase = "applied") =>
             /\ k \in core.applied /\ proc.pkg = file[k].pkg
             /\ seen.attempt = file[k].attempt /\ seen.pkg = file[k].pkg
        /\ file[k].phase \in {"applied", "partial"} => file'[k] = file[k]
<1>1. IInv /\ Second /\ [Next]_vars => [Means]_vars
  <2> SUFFICES ASSUME IInv, Second, [Next]_vars, NEW k \in Plans, file'[k] # file[k]
               PROVE  /\ (file[k].phase # "applied" /\ file'[k].phase = "applied") =>
                           /\ k \in core.applied /\ proc.pkg = file[k].pkg
                           /\ seen.attempt = file[k].attempt /\ seen.pkg = file[k].pkg
                      /\ file[k].phase \notin {"applied", "partial"}
    OBVIOUS
  <2>1. ~Settled(k) /\ (file'[k].phase = "applied" => flow.phase = "verified" /\ k = flow.plan)
    BY StepFile DEF Second
  <2> QED BY <2>1 DEF Second, Confirmed, Settled
<1> HIDE DEF Means
<1>2. []IInv /\ []Second /\ [][Next]_vars => [][Means]_vars
  BY <1>1, PTL
<1>3. AppliedMeansAll <=> [][Means]_vars
  BY DEF AppliedMeansAll, Means
<1> QED BY <1>2, <1>3, Invariant, OneWorker, PTL DEF Spec

=============================================================================
