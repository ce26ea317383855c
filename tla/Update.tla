------------------------------- MODULE Update -------------------------------
(***************************************************************************)
(* Updating flere: updaters apply prepared plans, or direct commands. Each *)
(* installs a retained package as the stable command, under the            *)
(* installation lock and with a journal, asks the running supervisor to    *)
(* replace itself by that package, and judges from the supervisor's        *)
(* identity and its last notice whether to keep the package, or to restore *)
(* the previous one. Updaters die anywhere; other clients refresh the      *)
(* supervisor, which may also be restarted; outsiders change the command.  *)
(* Source: src/install/plan.rs, store.rs, activation.rs, cli.rs,           *)
(* src/server/refresh.rs, server.rs (run_loop, refresh).                   *)
(***************************************************************************)
EXTENDS Naturals

CONSTANTS
  Packages,    \* retained packages
  Stamp(_),    \* the build metadata a package carries
  Old,         \* the package that runs at first
  Updaters, Plans,
  Commands,    \* plans that stand for direct commands
  Absent,      \* no command
  Foreign,     \* a command no package holds
  None,
  MaxAttempt,  \* bound: installation attempts
  MaxDeaths,   \* bound: updaters that die or meet an I/O error
  MaxMishaps   \* bound: changes of the command by outsiders, refreshes asked by other
               \* clients and restarts, all together

ASSUME UpdateAssumption ==
  /\ Commands \subseteq Plans
  /\ Old \in Packages /\ {Absent, Foreign, None} \cap Packages = {}
  /\ Absent # Foreign /\ None \notin {Absent, Foreign} /\ None \notin Updaters \union Plans
  /\ MaxAttempt \in Nat /\ MaxDeaths \in Nat /\ MaxMishaps \in Nat

VARIABLES
  command,  \* the stable command, ~/.local/bin/flere
  receipt,  \* the installation receipt
  pending,  \* the journal of a replacement
  txn,      \* what the holder of the installation lock is doing
  plan,     \* plan[k]: a prepared update
  upd,      \* upd[u]: an updater process
  sup,      \* the supervisor
  attempts, \* attempts named so far
  was,      \* history: the command before the last replacement
  tries,    \* history: tries[k]: how often plan k began to install
  outside, refreshes, deaths

files == <<command, receipt, pending, was>>
vars == <<files, txn, plan, upd, sup, attempts, tries, outside, refreshes, deaths>>

Receipt == [current : Packages, previous : Packages \union {None}, attempt : 1..MaxAttempt]
Journals == [next : Receipt, prev : Packages \union {Absent}]

ASSUME NoneAssumption == None \notin Receipt /\ None \notin Journals

Unlocked == [by |-> None, pc |-> "free", next |-> None, prev |-> None]
Runtime(s) == [epoch |-> s.epoch, build |-> Stamp(s.runs)]
Process(pc, k, p, before) == [pc |-> pc, plan |-> k, want |-> p, before |-> before, attempt |-> 0,
                              prior |-> None, rejected |-> FALSE]
Gone == Process("gone", None, None, None)
Opened(k) == Process("opened", k, plan[k].want, plan[k].before)

Init ==
  /\ command \in {Absent, Old} /\ receipt = None /\ pending = None /\ was = None
  /\ txn = Unlocked /\ attempts = 0
  /\ plan = [k \in Plans |-> [st |-> "none", want |-> None, before |-> None]]
  /\ tries = [k \in Plans |-> 0]
  /\ upd = [u \in Updaters |-> Gone]
  /\ sup = [alive |-> TRUE, epoch |-> 0, runs |-> Old, from |-> None,
            wanted |-> None, by |-> None, notice |-> "other"]
  /\ outside = 0 /\ refreshes = 0 /\ deaths = 0

Replacing == {"journal", "check", "place", "receipt", "clear"}
Runtimes == [epoch : Nat, build : {Stamp(p) : p \in Packages}] \union {None}

TypeOK ==
  /\ command \in Packages \union {Absent, Foreign} /\ receipt \in Receipt \union {None}
  /\ pending \in Journals \union {None} /\ was \in Packages \union {Absent, Foreign, None}
  /\ txn \in [by : Updaters \union {None}, pc : {"free", "recover", "unjournal", "status"} \union Replacing,
              next : Receipt \union {None}, prev : Packages \union {Absent, None}]
  /\ plan \in [Plans -> [st : {"none", "prepared", "applying", "done", "command"},
                         want : Packages \union {None}, before : Runtimes]]
  /\ upd \in [Updaters ->
       [pc : {"gone", "opened", "rollback", "install", "activate", "ask", "watch", "applied?", "failed?",
              "judge", "revert", "record"},
        plan : Plans \union {None}, want : Packages \union {None}, before : Runtimes,
        attempt : 0..MaxAttempt, prior : Packages \union {None}, rejected : BOOLEAN]]
  /\ sup \in [alive : BOOLEAN, epoch : Nat, runs : Packages, from : Plans \union {None},
              wanted : Packages \union {None}, by : Plans \union {None},
              notice : {"other", "refreshed", "failed"}]
  /\ attempts \in 0..MaxAttempt /\ tries \in [Plans -> Nat]
  /\ outside \in Nat /\ refreshes \in Nat /\ deaths \in Nat

Mishap == outside + refreshes + sup.epoch < MaxMishaps

\* The turn that accepts a refresh ends with it: what a client asks next is answered after.
TurnOver == sup.wanted = None
Same(u) == sup.alive /\ Runtime(sup) = upd[u].before
Unmoved(u) == TurnOver /\ Same(u)
Moved(u) == TurnOver /\ ~Same(u)

Goes(u, pc) == upd' = [upd EXCEPT ![u].pc = pc]

----------------------------------------------------------------------------
(* Plans.  A plan is applied by whoever locks it while it is still prepared.  *)

Prepare(k, p) ==
  /\ k \notin Commands /\ plan[k].st = "none" /\ sup.alive /\ TurnOver
  /\ plan' = [plan EXCEPT ![k] = [st |-> "prepared", want |-> p, before |-> Runtime(sup)]]
  /\ UNCHANGED <<files, txn, upd, sup, attempts, tries, outside, refreshes, deaths>>

\* Mutant: the plan is read without its lock.
UnlockedPlan(k) == TRUE

PlanFree(k) == \A u \in Updaters : upd[u].plan # k

OpenPlan(u, k) ==
  /\ upd[u] = Gone /\ PlanFree(k) /\ plan[k].st = "prepared"
  /\ upd' = [upd EXCEPT ![u] = Opened(k)]
  /\ UNCHANGED <<files, txn, plan, sup, attempts, tries, outside, refreshes, deaths>>

\* The same supervisor still runs, with the build it had: the plan is marked, durably.
BeginApply(u) ==
  /\ upd[u].pc = "opened" /\ Unmoved(u)
  /\ plan' = [plan EXCEPT ![upd[u].plan].st = "applying"]
  /\ tries' = [tries EXCEPT ![upd[u].plan] = @ + 1]
  /\ Goes(u, "install")
  /\ UNCHANGED <<files, txn, sup, attempts, outside, refreshes, deaths>>

\* An error or a crash: the process ends, its locks with it, and its files stay.
Ends(u) ==
  /\ upd' = [upd EXCEPT ![u] = Gone]
  /\ txn' = IF txn.by = u THEN Unlocked ELSE txn

Dies(u) ==
  /\ upd[u] # Gone /\ deaths < MaxDeaths /\ deaths' = deaths + 1
  /\ Ends(u) /\ UNCHANGED <<files, plan, sup, attempts, tries, outside, refreshes>>

Refuses(u) ==
  /\ Ends(u) /\ UNCHANGED <<files, plan, sup, attempts, tries, outside, refreshes, deaths>>

Stale(u) == upd[u].pc = "opened" /\ Moved(u) /\ Refuses(u)

----------------------------------------------------------------------------
(* Direct commands.  One reads the identity of the supervisor it met, if any,  *)
(* and works on a plan of its own, which nobody else opens.                    *)

Met == IF sup.alive /\ TurnOver THEN {Runtime(sup)} ELSE {}

Command(u, k, pc, p, before) ==
  /\ k \in Commands /\ upd[u] = Gone /\ plan[k].st = "none"
  /\ plan' = [plan EXCEPT ![k] = [st |-> "command", want |-> p, before |-> None]]
  /\ upd' = [upd EXCEPT ![u] = Process(pc, k, p, before)]
  /\ UNCHANGED <<files, txn, sup, attempts, tries, outside, refreshes, deaths>>

\* install asks no supervisor, update the one that runs.
InstallCommand(u, k, p) == \E before \in Met \union {None} : Command(u, k, "install", p, before)

RollbackCommand(u, k) ==
  \E before \in IF sup.alive THEN Met ELSE {None} : Command(u, k, "rollback", None, before)

Direct(u) == upd[u].plan \in Commands

----------------------------------------------------------------------------
(* The installation lock; what is done under it begins by recovering.        *)

Locks == {"install", "rollback", "revert", "record"}

Lock(u) ==
  /\ upd[u].pc \in Locks /\ txn.by # u
  /\ IF txn = Unlocked
       THEN txn' = [Unlocked EXCEPT !.by = u, !.pc = "recover"] /\ UNCHANGED upd
       ELSE Ends(u)   \* "another installation owns the update lock"
  /\ UNCHANGED <<files, plan, sup, attempts, tries, outside, refreshes, deaths>>

TxnGoes(pc) == txn' = [txn EXCEPT !.pc = pc] /\ UNCHANGED upd

\* Mutant: an interrupted replacement is always forgotten.
RecoverForgets(u) ==
  /\ txn.by = u /\ txn.pc = "recover"
  /\ TxnGoes("unjournal") /\ UNCHANGED files
  /\ UNCHANGED <<plan, sup, attempts, tries, outside, refreshes, deaths>>

Recover(u) ==
  /\ txn.by = u /\ txn.pc = "recover"
  /\ \/ pending = None /\ TxnGoes("status") /\ UNCHANGED files
     \/ /\ pending # None /\ command = pending.next.current
        /\ receipt' = pending.next /\ TxnGoes("unjournal") /\ UNCHANGED <<command, pending>>
        /\ was' = IF command = pending.prev THEN command ELSE was
     \/ /\ pending # None /\ command # pending.next.current /\ command = pending.prev
        /\ TxnGoes("unjournal") /\ UNCHANGED files
     \/ /\ pending # None /\ command # pending.next.current /\ command # pending.prev
        /\ Ends(u) /\ UNCHANGED files
  /\ UNCHANGED <<plan, sup, attempts, tries, outside, refreshes, deaths>>

Unjournal(u) ==
  /\ txn.by = u /\ txn.pc = "unjournal"
  /\ pending' = None /\ TxnGoes("status")
  /\ UNCHANGED <<command, receipt, was, plan, sup, attempts, tries, outside, refreshes, deaths>>

----------------------------------------------------------------------------
(* install_checked, restore_rejected and record_activation, as far as their  *)
(* decision, which follows a look at the receipt (status).                   *)

Managed == receipt # None /\ command = receipt.current

Named == attempts < MaxAttempt /\ attempts' = attempts + 1

Replacement(new, previous, digest) ==
  /\ Named
  /\ txn' = [txn EXCEPT !.pc = "journal", !.prev = digest,
                        !.next = [current |-> new, previous |-> previous, attempt |-> attempts']]

Replaces(new, previous, digest) == Replacement(new, previous, digest) /\ UNCHANGED <<upd, receipt>>

\* The installed attempt is activated, when there was a supervisor to ask.
Installs(u, attempt, previous) ==
  upd' = [upd EXCEPT ![u].pc = IF upd[u].before = None THEN "record" ELSE "activate",
                     ![u].attempt = attempt, ![u].prior = previous]

\* A package that is installed already keeps its attempt, unless its source changes.
Joins(u) ==
  /\ Managed /\ receipt.current = upd[u].want /\ txn' = Unlocked
  /\ \/ UNCHANGED <<attempts, receipt>>
     \/ Named /\ receipt' = [receipt EXCEPT !.attempt = attempts']
  /\ Installs(u, receipt'.attempt, receipt.previous)

\* A direct command may ask for a first installation only, or not to adopt.
Refusable(u) ==
  \/ ~Managed /\ (receipt # None \/ command = Foreign)
  \/ Direct(u) /\ (receipt # None \/ command # Absent)

Install(u) ==
  LET want == upd[u].want
  IN /\ txn.by = u /\ txn.pc = "status" /\ upd[u].pc = "install"
     /\ \/ Joins(u)
        \/ Managed /\ receipt.current # want /\ Replaces(want, receipt.current, receipt.current)
        \/ receipt = None /\ command = Absent /\ Replaces(want, None, Absent)
        \/ receipt = None /\ command \in Packages /\ Replaces(want, command, command)  \* adopted
        \/ Refusable(u) /\ Ends(u) /\ UNCHANGED <<attempts, receipt>>
     /\ UNCHANGED <<command, pending, was, plan, sup, tries, outside, refreshes, deaths>>

\* The previous package is wanted back, unless it cannot take over from what runs.
Rollback(u) ==
  /\ txn.by = u /\ txn.pc = "status" /\ upd[u].pc = "rollback"
  /\ \/ /\ Managed /\ receipt.previous # None
        /\ Replacement(receipt.previous, receipt.current, receipt.current)
        /\ upd' = [upd EXCEPT ![u].pc = "install", ![u].want = receipt.previous]
        /\ plan' = [plan EXCEPT ![upd[u].plan].want = receipt.previous]
     \/ /\ (Managed /\ receipt.previous # None) => upd[u].before # None
        /\ Ends(u) /\ UNCHANGED <<attempts, plan>>
  /\ UNCHANGED <<files, sup, tries, outside, refreshes, deaths>>

\* Mutant: whatever is installed now is reverted.
AnyAttempt(u) == TRUE

OwnAttempt(u) == receipt.attempt = upd[u].attempt

MayRestore(u) ==
  Managed /\ OwnAttempt(u) /\ receipt.previous # None /\ Same(u)

Restore(u) ==
  /\ txn.by = u /\ txn.pc = "status" /\ upd[u].pc = "revert" /\ TurnOver
  /\ \/ MayRestore(u) /\ Replaces(receipt.previous, receipt.current, receipt.current)
     \/ ~MayRestore(u) /\ Ends(u) /\ UNCHANGED <<attempts, receipt>>
  /\ UNCHANGED <<command, pending, was, plan, sup, tries, outside, refreshes, deaths>>

\* The plan is over; a direct command leaves none.
Settles(k) == plan' = IF plan[k].st = "applying" THEN [plan EXCEPT ![k].st = "done"] ELSE plan

Record(u) ==
  /\ txn.by = u /\ txn.pc = "status" /\ upd[u].pc = "record"
  /\ IF Managed /\ OwnAttempt(u) THEN Settles(upd[u].plan) ELSE UNCHANGED plan
  /\ Ends(u) /\ UNCHANGED <<files, sup, attempts, tries, outside, refreshes, deaths>>

----------------------------------------------------------------------------
(* replace: journal, look again, link or rename, receipt, end of the journal. *)

Journal(u) ==
  /\ txn.by = u /\ txn.pc = "journal"
  /\ pending' = [next |-> txn.next, prev |-> txn.prev] /\ TxnGoes("check")
  /\ UNCHANGED <<command, receipt, was, plan, sup, attempts, tries, outside, refreshes, deaths>>

Check(u) ==
  /\ txn.by = u /\ txn.pc = "check"
  /\ IF command = txn.prev THEN TxnGoes("place") ELSE Ends(u)
  /\ UNCHANGED <<files, plan, sup, attempts, tries, outside, refreshes, deaths>>

\* Mutant: a first installation is renamed into place too.
MayPlaceOver == TRUE

\* A first installation links, which fails over any file; an update renames.
MayPlace == txn.prev = Absent => command = Absent

Place(u) ==
  /\ txn.by = u /\ txn.pc = "place"
  /\ \/ /\ MayPlace
        /\ command' = txn.next.current /\ was' = command /\ TxnGoes("receipt")
        /\ UNCHANGED <<receipt, pending>>
     \/ ~MayPlace /\ Ends(u) /\ UNCHANGED files
  /\ UNCHANGED <<plan, sup, attempts, tries, outside, refreshes, deaths>>

WriteReceipt(u) ==
  /\ txn.by = u /\ txn.pc = "receipt"
  /\ receipt' = txn.next /\ TxnGoes("clear")
  /\ UNCHANGED <<command, pending, was, plan, sup, attempts, tries, outside, refreshes, deaths>>

Clear(u) ==
  /\ txn.by = u /\ txn.pc = "clear"
  /\ pending' = None /\ txn' = Unlocked
  /\ IF upd[u].pc = "install"
       THEN Installs(u, txn.next.attempt, txn.next.previous) /\ UNCHANGED plan
       ELSE upd' = [upd EXCEPT ![u] = Gone] /\ Settles(upd[u].plan)
  /\ UNCHANGED <<command, receipt, was, sup, attempts, tries, outside, refreshes, deaths>>

Outsider ==
  /\ Mishap /\ outside' = outside + 1
  /\ command' \in {Absent, Foreign} \ {command}
  /\ UNCHANGED <<receipt, pending, was, txn, plan, upd, sup, attempts, tries, refreshes, deaths>>

----------------------------------------------------------------------------
(* activate: the updater asks for the refresh and watches.  The identity and  *)
(* the notice are separate requests.                                         *)

Judges(u, rejected) == upd' = [upd EXCEPT ![u].pc = "judge", ![u].rejected = rejected]
watching == <<files, txn, plan, attempts, tries, outside, refreshes, deaths>>

\* Nothing was asked yet: whatever goes wrong here is a rejection.
Activate(u) ==
  /\ upd[u].pc = "activate"
  /\ \/ Unmoved(u) /\ Goes(u, "ask")
     \/ TurnOver /\ Judges(u, TRUE)
  /\ UNCHANGED <<watching, sup>>

Wants(p, k) == [sup EXCEPT !.wanted = p, !.by = k, !.notice = "other"]

\* The request is accepted; its reply may get lost, or be an error, when the tabs are not
\* saved after it (checkpoint_tabs).  It is answered by an error; or it is not delivered.
Ask(u) ==
  /\ upd[u].pc = "ask"
  /\ \/ /\ sup.alive /\ sup.epoch = upd[u].before.epoch
        /\ sup' = Wants(upd[u].want, upd[u].plan)
        /\ (Goes(u, "watch") \/ Judges(u, FALSE) \/ Judges(u, TRUE))
     \/ sup.alive /\ Judges(u, TRUE) /\ UNCHANGED sup
     \/ Judges(u, FALSE) /\ UNCHANGED sup
  /\ UNCHANGED watching

Watch(u) ==
  /\ upd[u].pc = "watch" /\ TurnOver
  /\ \/ /\ sup.alive /\ sup.epoch = upd[u].before.epoch
        /\ Goes(u, IF Stamp(sup.runs) = Stamp(upd[u].want) THEN "applied?" ELSE "failed?")
     \/ sup.alive /\ sup.epoch # upd[u].before.epoch /\ Judges(u, FALSE)
     \/ Judges(u, FALSE)    \* the eight seconds are over
  /\ UNCHANGED <<watching, sup>>

SeesApplied(u) ==
  /\ upd[u].pc = "applied?" /\ TurnOver
  /\ \/ sup.alive /\ Goes(u, IF sup.notice = "refreshed" THEN "record" ELSE "failed?")
     \/ ~sup.alive /\ Judges(u, FALSE)
  /\ UNCHANGED <<watching, sup>>

SeesFailed(u) ==
  /\ upd[u].pc = "failed?" /\ TurnOver
  /\ IF sup.alive /\ sup.notice = "failed" THEN Judges(u, TRUE) ELSE Goes(u, "watch")
  /\ UNCHANGED <<watching, sup>>

Rejected(u) == upd[u].rejected

Judge(u) ==
  /\ upd[u].pc = "judge" /\ TurnOver
  /\ Goes(u, IF Rejected(u) /\ Same(u) /\ upd[u].prior # None THEN "revert" ELSE "record")
  /\ UNCHANGED <<watching, sup>>

----------------------------------------------------------------------------
(* The supervisor.  At the end of a turn it replaces itself by the package it *)
(* was last asked for, with the same process and epoch; a failure is noticed. *)

others == <<files, txn, plan, upd, attempts, tries, outside, deaths>>

ClientRefresh(p) ==
  /\ Mishap /\ refreshes' = refreshes + 1 /\ sup.alive
  /\ sup' = Wants(p, None) /\ UNCHANGED others

ReplaceFails ==
  /\ sup.alive /\ sup.wanted # None
  /\ sup' = [sup EXCEPT !.wanted = None, !.by = None, !.notice = "failed"]
  /\ UNCHANGED <<others, refreshes>>

Replace ==
  /\ sup.alive /\ sup.wanted # None
  /\ sup' = [sup EXCEPT !.runs = sup.wanted, !.from = sup.by, !.wanted = None, !.by = None,
                        !.notice = "refreshed"]
  /\ UNCHANGED <<others, refreshes>>

OtherNotice ==
  /\ sup.alive /\ sup.notice # "other" /\ sup' = [sup EXCEPT !.notice = "other"]
  /\ UNCHANGED <<others, refreshes>>

Stops ==
  /\ sup.alive /\ Mishap
  /\ sup' = [sup EXCEPT !.alive = FALSE, !.wanted = None, !.by = None, !.notice = "other"]
  /\ UNCHANGED <<others, refreshes>>

Starts ==
  /\ ~sup.alive /\ command \in Packages
  /\ sup' = [sup EXCEPT !.alive = TRUE, !.epoch = @ + 1, !.runs = command, !.from = None]
  /\ UNCHANGED <<others, refreshes>>

Updater(u) ==
  \/ \E k \in Plans : OpenPlan(u, k) \/ RollbackCommand(u, k) \/ \E p \in Packages : InstallCommand(u, k, p)
  \/ BeginApply(u) \/ Stale(u) \/ Dies(u) \/ Lock(u) \/ Recover(u) \/ Unjournal(u)
  \/ Install(u) \/ Rollback(u) \/ Restore(u) \/ Record(u)
  \/ Journal(u) \/ Check(u) \/ Place(u) \/ WriteReceipt(u) \/ Clear(u)
  \/ Activate(u) \/ Ask(u) \/ Watch(u) \/ SeesApplied(u) \/ SeesFailed(u) \/ Judge(u)

Next ==
  \/ \E u \in Updaters : Updater(u)
  \/ \E p \in Packages : ClientRefresh(p) \/ \E k \in Plans : Prepare(k, p)
  \/ Outsider \/ ReplaceFails \/ Replace \/ OtherNotice \/ Stops \/ Starts

Spec == Init /\ [][Next]_vars

----------------------------------------------------------------------------
(* Properties.                                                               *)

\* Whenever an updater dies, the next one can recover: without a journal the receipt
\* names the command, with one the command is what the journal replaced or its
\* replacement (replace, recover).
Recoverable ==
  outside = 0 =>
    IF pending = None THEN receipt # None => Managed
    ELSE command \in {pending.next.current, pending.prev}

\* The package kept for a rollback is what the command held before, and a receipt
\* without one was written by an installation that replaced nothing, not even a
\* command that an outsider put there at the last moment (hard_link in replace).
PreviousIsReal ==
  (pending = None /\ receipt # None) =>
    /\ receipt.previous = None => was = Absent
    /\ outside = 0 => receipt.previous = (IF was = Absent THEN None ELSE was)

\* A plan begins to install at most once, whatever dies and however many helpers
\* apply it (the plan's lock and its status "applying" in execute).
PlanInstalledOnce == \A k \in Plans : tries[k] <= 1

\* "An unknown or successfully replaced process must never trigger an automatic
\* downgrade" (restore_rejected): when an updater restores another package than the
\* one it installed, the supervisor does not run what that updater asked for.
NoDowngradeAfterSuccess ==
  \A u \in Updaters : (upd[u].pc = "revert" /\ txn.by = u /\ txn.next # None) =>
    (txn.next.current = upd[u].want \/ sup.from # upd[u].plan)

\* So it is when the package can be told from what ran before, and what an updater
\* takes back is the package it installed, not a later attempt's.
RevertsOnlyRejected ==
  \A u \in Updaters : upd[u].pc = "revert" =>
    /\ Stamp(upd[u].want) # upd[u].before.build => sup.from # upd[u].plan
    /\ (txn.by = u /\ txn.next # None) => txn.prev = upd[u].want
=============================================================================
