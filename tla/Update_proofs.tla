---------------------------- MODULE Update_proofs ----------------------------
(***************************************************************************)
(* Proofs about Update: what is on the disk can be recovered, a plan is    *)
(* installed once, and only what was rejected is taken back, for any       *)
(* number of packages, plans, updaters and mishaps.                        *)
(***************************************************************************)
EXTENDS Update, TLAPS

(* The installation lock, and what its holder has decided.                    *)
Locked ==
  /\ txn.by = None => txn = Unlocked
  /\ txn.by # None => upd[txn.by].pc \in Locks /\ txn.pc # "free"
  /\ txn.next # None <=> txn.pc \in Replacing
  /\ txn.next # None =>
       /\ txn.prev \in Packages \union {Absent}
       /\ txn.next.previous = (IF txn.prev = Absent THEN None ELSE txn.prev)
       /\ upd[txn.by].pc \in {"install", "revert"}
       /\ upd[txn.by].pc = "install" => txn.next.current = upd[txn.by].want
       /\ upd[txn.by].pc = "revert" => txn.prev = upd[txn.by].want

Consistent == receipt # None => Managed

(* How far a replacement is.                                                 *)
Progress ==
  /\ txn.pc \in {"status", "journal"} => pending = None
  /\ txn.pc \in {"check", "place", "receipt", "clear"} =>
       pending = [next |-> txn.next, prev |-> txn.prev]
  /\ txn.pc \in {"journal", "check", "place"} =>
       /\ command \in {txn.prev, Absent, Foreign}
       /\ outside = 0 => command = txn.prev
       /\ txn.prev = Absent => receipt = None
  /\ (txn.pc \in {"receipt", "clear"} /\ outside = 0) => command = txn.next.current
  /\ txn.pc = "clear" => receipt = txn.next
  /\ (txn.pc = "unjournal" /\ outside = 0) => Consistent

(* What the next updater finds.                                              *)
Found ==
  outside = 0 =>
    /\ pending = None => Consistent
    /\ pending # None => /\ command \in {pending.next.current, pending.prev}
                         /\ command # pending.next.current => Consistent

(* A receipt whose previous package is what the command was.                  *)
Real(r) ==
  /\ r.previous = None => was = Absent
  /\ outside = 0 => r.previous = (IF was = Absent THEN None ELSE was)

Placed == command = pending.next.current /\ command # pending.prev
Unplaced == pending.prev = Absent \/ (command = pending.prev /\ command # pending.next.current)

Previous ==
  /\ pending = None /\ receipt # None => Real(receipt)
  /\ pending # None =>
       /\ pending.next.previous = (IF pending.prev = Absent THEN None ELSE pending.prev)
       /\ Placed => Real(pending.next)
       /\ (Unplaced /\ receipt # None) => Real(receipt)
  /\ (txn.pc = "unjournal" /\ receipt # None) => Real(receipt)
  /\ txn.pc \in {"receipt", "clear"} => Real(txn.next)

(* Attempts are named once: whoever mentions one means the same package.      *)
Said(n, p) ==
  \/ receipt # None /\ n = receipt.attempt /\ p = receipt.current
  \/ pending # None /\ n = pending.next.attempt /\ p = pending.next.current
  \/ txn.next # None /\ n = txn.next.attempt /\ p = txn.next.current
  \/ \E u \in Updaters : upd[u].attempt # 0 /\ n = upd[u].attempt /\ p = upd[u].want

Attested ==
  /\ \A n \in 1..MaxAttempt : \A p, q \in Packages : Said(n, p) /\ Said(n, q) => p = q
  /\ \A n \in 1..MaxAttempt : \A p \in Packages : Said(n, p) => n <= attempts

(* Updaters hold the locks of the plans they apply.                          *)
Applying ==
  /\ \A u \in Updaters :
       /\ upd[u].pc = "gone" => upd[u] = Gone
       /\ upd[u].pc # "gone" =>
            /\ upd[u].plan \in Plans /\ upd[u].want = plan[upd[u].plan].want
            /\ plan[upd[u].plan].st # "none"
       /\ upd[u].pc \notin {"gone", "rollback"} => upd[u].want \in Packages
       /\ upd[u].pc = "opened" => plan[upd[u].plan].st = "prepared"
       /\ upd[u].pc = "rollback" => upd[u].want = None /\ plan[upd[u].plan].st = "command"
       /\ upd[u].pc \in {"opened", "rollback", "install"} => upd[u].attempt = 0
       /\ upd[u].pc \in {"activate", "ask", "watch", "applied?", "failed?", "judge", "revert"} => upd[u].attempt # 0
  /\ \A u, v \in Updaters : (upd[u].plan \in Plans /\ upd[u].plan = upd[v].plan) => u = v
  /\ \A k \in Plans :
       /\ plan[k].st = "none" => plan[k].want = None
       /\ plan[k].want = None => plan[k].st \in {"none", "command"}
       /\ plan[k].st \in {"none", "prepared"} => tries[k] = 0
       /\ tries[k] <= 1

(* Where the supervisor's executable comes from.                             *)
Origin ==
  /\ sup.wanted = None => sup.by = None
  /\ sup.by # None => sup.wanted = plan[sup.by].want
  /\ sup.from # None => sup.runs = plan[sup.from].want
  /\ \A u \in Updaters : upd[u].pc = "revert" =>
       /\ Stamp(upd[u].want) # upd[u].before.build => sup.from # upd[u].plan
       /\ sup.by # upd[u].plan

IInv ==
  /\ TypeOK /\ Locked /\ Progress /\ Found /\ Previous /\ Attested /\ Applying /\ Origin

TxnPcs == {"free", "recover", "unjournal", "status"} \union Replacing
UpdPcs == {"gone", "opened", "rollback", "install", "activate", "ask", "watch", "applied?", "failed?",
           "judge", "revert", "record"}
TxnType == [by : Updaters \union {None}, pc : TxnPcs, next : Receipt \union {None},
            prev : Packages \union {Absent, None}]
PlanType ==
  [st : {"none", "prepared", "applying", "done", "command"}, want : Packages \union {None}, before : Runtimes]
Flag == BOOLEAN
UpdType ==
  [pc : UpdPcs, plan : Plans \union {None}, want : Packages \union {None}, before : Runtimes,
   attempt : 0..MaxAttempt, prior : Packages \union {None}, rejected : Flag]
SupType ==
  [alive : Flag, epoch : Nat, runs : Packages, from : Plans \union {None},
   wanted : Packages \union {None}, by : Plans \union {None}, notice : {"other", "refreshed", "failed"}]

(* The type invariant by who owns the state.                                  *)
DiskOK ==
  /\ command \in Packages \union {Absent, Foreign} /\ receipt \in Receipt \union {None}
  /\ pending \in Journals \union {None} /\ was \in Packages \union {Absent, Foreign, None}
  /\ attempts \in 0..MaxAttempt
PlanOK == plan \in [Plans -> PlanType] /\ tries \in [Plans -> Nat]
CountsOK == outside \in Nat /\ refreshes \in Nat /\ deaths \in Nat

(***************************************************************************)
(* Types.                                                                  *)
(***************************************************************************)

\* The parts are the whole.
LEMMA TypeParts ==
  TypeOK <=> /\ DiskOK /\ txn \in TxnType /\ PlanOK /\ upd \in [Updaters -> UpdType] /\ sup \in SupType
             /\ CountsOK
BY Zenon DEF TypeOK, DiskOK, TxnType, TxnPcs, PlanOK, PlanType, UpdType, Flag, UpdPcs, SupType, CountsOK

\* Also after a step.
LEMMA TypePartsNext ==
  TypeOK' <=> /\ DiskOK' /\ txn' \in TxnType /\ PlanOK' /\ upd' \in [Updaters -> UpdType] /\ sup' \in SupType
              /\ CountsOK'
BY Zenon DEF TypeOK, DiskOK, TxnType, TxnPcs, PlanOK, PlanType, UpdType, Flag, UpdPcs, SupType, CountsOK

(* h is f but for u, whose plan stays the same.                              *)
SamePlan(f, h, u) ==
  /\ \A v \in Updaters \ {u} : h[v] = f[v]
  /\ h[u].plan = f[u].plan /\ h[u].want = f[u].want /\ h[u].before = f[u].before

\* The record that differs from r in where the updater is and what it learned.
LEMMA Fresh ==
  ASSUME NEW r \in UpdType, NEW a \in UpdPcs, NEW g \in Flag, NEW e \in 0..MaxAttempt,
         NEW p \in Packages \union {None}, NEW h,
         h = [pc |-> a, plan |-> r.plan, want |-> r.want, before |-> r.before, attempt |-> e,
              prior |-> p, rejected |-> g]
  PROVE  /\ h \in UpdType /\ h.plan = r.plan /\ h.want = r.want /\ h.before = r.before
         /\ h.attempt = e /\ h.pc = a
BY DEF UpdType

\* An updater that goes on, or judges.
LEMMA Goings ==
  ASSUME TypeOK, NEW u \in Updaters, NEW pc \in UpdPcs,
         Goes(u, pc) \/ \E r \in Flag : pc = "judge" /\ Judges(u, r)
  PROVE  /\ upd' \in [Updaters -> UpdType] /\ SamePlan(upd, upd', u)
         /\ upd'[u].attempt = upd[u].attempt /\ upd'[u].pc = pc
<1>1. upd \in [Updaters -> UpdType]
  BY TypeParts
<1>2. upd[u] \in UpdType /\ upd[u].rejected \in Flag /\ upd[u].attempt \in 0..MaxAttempt
      /\ upd[u].prior \in Packages \union {None}
  BY <1>1 DEF UpdType
<1>3. PICK g \in Flag :
        upd'[u] = [pc |-> pc, plan |-> upd[u].plan, want |-> upd[u].want, before |-> upd[u].before,
                   attempt |-> upd[u].attempt, prior |-> upd[u].prior, rejected |-> g]
  <2>1. CASE Goes(u, pc)
    BY <1>1, <1>2, <2>1 DEF Goes, UpdType
  <2>2. ASSUME NEW g \in Flag, Judges(u, g), pc = "judge"
        PROVE  upd'[u] = [pc |-> pc, plan |-> upd[u].plan, want |-> upd[u].want, before |-> upd[u].before,
                          attempt |-> upd[u].attempt, prior |-> upd[u].prior, rejected |-> g]
    <3>1. upd' = [upd EXCEPT ![u].pc = pc, ![u].rejected = g]
      BY <2>2 DEF Judges
    <3>2. upd'[u] = [upd[u] EXCEPT !.pc = pc, !.rejected = g]
      BY <1>1, <3>1
    <3> QED BY <1>2, <3>2 DEF UpdType
  <2> QED BY <2>1, <2>2
<1>4. /\ upd'[u] \in UpdType /\ upd'[u].plan = upd[u].plan /\ upd'[u].want = upd[u].want
      /\ upd'[u].before = upd[u].before /\ upd'[u].attempt = upd[u].attempt /\ upd'[u].pc = pc
  BY <1>2, <1>3, Fresh
<1>5. (\A v \in Updaters \ {u} : upd'[v] = upd[v]) /\ upd' = [upd EXCEPT ![u] = upd'[u]]
  BY <1>1 DEF Goes, Judges
<1> QED BY <1>1, <1>4, <1>5 DEF SamePlan

\* An updater that learns its attempt.
LEMMA Learns ==
  ASSUME TypeOK, NEW u \in Updaters, NEW e \in 0..MaxAttempt, NEW p \in Packages \union {None},
         Installs(u, e, p)
  PROVE  /\ upd' \in [Updaters -> UpdType] /\ SamePlan(upd, upd', u)
         /\ upd'[u].attempt = e /\ upd'[u].pc \in {"record", "activate"}
<1>0. PICK a \in {"record", "activate"} : upd' = [upd EXCEPT ![u].pc = a, ![u].attempt = e, ![u].prior = p]
  BY DEF Installs
<1>1. upd \in [Updaters -> UpdType] /\ a \in UpdPcs
  BY TypeParts DEF UpdPcs
<1>2. upd[u] \in UpdType /\ upd[u].rejected \in Flag
  BY <1>1 DEF UpdType
<1>3. upd'[u] = [pc |-> a, plan |-> upd[u].plan, want |-> upd[u].want, before |-> upd[u].before,
                 attempt |-> e, prior |-> p, rejected |-> upd[u].rejected]
  BY <1>0, <1>1 DEF UpdType
<1>4. /\ upd'[u] \in UpdType /\ upd'[u].plan = upd[u].plan /\ upd'[u].want = upd[u].want
      /\ upd'[u].before = upd[u].before /\ upd'[u].attempt = e /\ upd'[u].pc = a
  BY <1>1, <1>2, <1>3, Fresh
<1>5. DOMAIN upd' = Updaters /\ \A v \in Updaters \ {u} : upd'[v] = upd[v]
  BY <1>0, <1>1
<1>6. upd' = [upd EXCEPT ![u] = upd'[u]]
  BY <1>0, <1>1
<1> QED BY <1>0, <1>1, <1>4, <1>5, <1>6 DEF SamePlan

\* A plan that is over, and the others.
LEMMA Settling ==
  ASSUME IInv, NEW j \in Plans, plan' = plan \/ Settles(j)
  PROVE  /\ plan' \in [Plans -> PlanType]
         /\ \A k \in Plans : k # j => plan'[k] = plan[k]
         /\ \A k \in Plans : /\ plan'[k].want = plan[k].want
                             /\ (plan'[k].st = plan[k].st \/ (plan[k].st = "applying" /\ plan'[k].st = "done"))
<1>1. plan \in [Plans -> PlanType]
  BY TypeParts DEF IInv, PlanOK
<1>2. CASE plan' = plan
  BY <1>1, <1>2
<1>3. CASE plan[j].st = "applying" /\ plan' = [plan EXCEPT ![j].st = "done"]
  BY <1>1, <1>3, SMT DEF PlanType
<1> QED BY <1>2, <1>3 DEF Settles

\* Nobody and nothing have their types.
LEMMA Nothing ==
  /\ Gone \in UpdType /\ Gone.pc = "gone" /\ Gone.plan = None /\ Gone.attempt = 0
  /\ Unlocked \in TxnType /\ Unlocked.by = None /\ Unlocked.pc = "free" /\ Unlocked.next = None
<1>1. 0 \in 0..MaxAttempt /\ None \in Runtimes /\ "gone" \in UpdPcs
  BY UpdateAssumption, SMT DEF Runtimes, UpdPcs
<1>2. FALSE \in Flag /\ None \in Plans \union {None} /\ None \in Packages \union {None}
  BY Zenon DEF Flag
<1>3. Gone \in UpdType
  BY <1>1, <1>2, Zenon DEF Gone, Process, UpdType
<1>4. Unlocked \in TxnType
  BY SMT DEF Unlocked, TxnType, TxnPcs
<1> QED BY <1>3, <1>4, SMT DEF Gone, Process, Unlocked

\* What the fields of an updater, of the lock and of the files range over.
LEMMA Fields ==
  ASSUME TypeOK
  PROVE  /\ \A u \in Updaters :
              /\ upd[u].pc \in UpdPcs /\ upd[u].plan \in Plans \union {None}
              /\ upd[u].want \in Packages \union {None} /\ upd[u].attempt \in 0..MaxAttempt
              /\ upd[u].before \in Runtimes
         /\ txn.by \in Updaters \union {None} /\ txn.pc \in TxnPcs /\ txn.next \in Receipt \union {None}
         /\ txn.prev \in Packages \union {Absent, None}
         /\ receipt # None => receipt \in Receipt
         /\ pending # None => pending \in Journals /\ pending.next \in Receipt
                              /\ pending.prev \in Packages \union {Absent}
<1>1. txn \in TxnType /\ DiskOK
  BY TypeParts
<1>2. ASSUME NEW u \in Updaters
      PROVE  /\ upd[u].pc \in UpdPcs /\ upd[u].plan \in Plans \union {None}
             /\ upd[u].want \in Packages \union {None} /\ upd[u].attempt \in 0..MaxAttempt
             /\ upd[u].before \in Runtimes
  <2>1. upd[u] \in UpdType
    BY TypeParts
  <2> QED BY <2>1, Zenon DEF UpdType
<1> QED BY <1>1, <1>2, SMT DEF TxnType, DiskOK, Journals

\* Fields of a receipt.
LEMMA Receipts ==
  ASSUME NEW r \in Receipt
  PROVE  r.current \in Packages /\ r.previous \in Packages \union {None} /\ r.attempt \in 1..MaxAttempt /\ r # None
BY NoneAssumption, SMT DEF Receipt

(***************************************************************************)
(* What a step leaves alone.                                               *)
(***************************************************************************)

\* The disk, the lock and what they stand for do not depend on the rest.
LEMMA FilesKept ==
  ASSUME IInv, UNCHANGED <<command, receipt, pending, was, txn, outside>>
  PROVE  Progress' /\ Found' /\ Previous'
BY SMT DEF IInv, Progress, Found, Previous, Consistent, Managed, Real, Placed, Unplaced

\* Attempts that were named before say what they said.
LEMMA SaidBefore ==
  ASSUME IInv, attempts' = attempts, \A n \in 1..MaxAttempt : \A p \in Packages : Said(n, p)' => Said(n, p)
  PROVE  Attested'
BY DEF IInv, Attested

\* An updater that ends gives its locks back.
LEMMA EndsKeeps ==
  ASSUME IInv, NEW u \in Updaters, upd[u].pc # "gone", Ends(u),
         UNCHANGED <<files, sup, attempts, tries, outside, refreshes>>, deaths' \in Nat,
         plan' = plan \/ (upd[u].pc = "record" /\ Settles(upd[u].plan))
  PROVE  IInv'
<1> USE DEF IInv
<1>1. upd[u].plan \in Plans
  BY DEF Applying
<1>2. /\ upd'[u] = Gone /\ \A v \in Updaters \ {u} : upd'[v] = upd[v]
      /\ upd' \in [Updaters -> UpdType]
  BY Nothing, TypeParts DEF Ends
<1>3. txn' = (IF txn.by = u THEN Unlocked ELSE txn) /\ txn' \in TxnType
  BY Nothing, TypeParts DEF Ends
<1>4. /\ plan' \in [Plans -> PlanType]
      /\ \A k \in Plans : k # upd[u].plan => plan'[k] = plan[k]
      /\ \A k \in Plans : /\ plan'[k].want = plan[k].want
                          /\ (plan'[k].st = plan[k].st \/ (plan[k].st = "applying" /\ plan'[k].st = "done"))
  BY <1>1, Settling
<1>5. TypeOK'
  BY <1>2, <1>3, <1>4, TypeParts, TypePartsNext DEF files, DiskOK, PlanOK, CountsOK
<1>6. Locked'
  <2>1. CASE txn.by = u
    BY <2>1, <1>3, Nothing, SMT DEF Locked, Replacing
  <2>2. CASE txn.by # u
    <3>1. txn.by # None => txn.by \in Updaters \ {u}
      BY <2>2, Fields
    <3>2. txn' = txn /\ (txn.by # None => upd'[txn.by] = upd[txn.by])
      BY <2>2, <1>2, <1>3, <3>1
    <3>3. txn.next # None => txn.by # None
      BY Nothing, SMT DEF Locked
    <3> QED BY <3>2, <3>3 DEF Locked
  <2> QED BY <2>1, <2>2
<1>7. Progress' /\ Found' /\ Previous'
  BY <1>3, Nothing, SMT DEF files, Progress, Found, Previous, Consistent, Managed, Real, Placed, Unplaced
<1>8. Attested'
  <2>1. \A n \in 1..MaxAttempt : \A p \in Packages : Said(n, p)' => Said(n, p)
    BY <1>2, <1>3, Nothing, SMT DEF Said, files
  <2> QED BY <2>1, SaidBefore
<1>9. Applying'
  BY <1>1, <1>2, <1>4, Nothing, UpdateAssumption, Fields, SMT DEF Applying
<1>10. Origin'
  BY <1>1, <1>2, <1>4, Nothing, TypeParts, SMT DEF Origin, SupType, Applying
<1> QED BY <1>5, <1>6, <1>7, <1>8, <1>9, <1>10

(***************************************************************************)
(* Plans and the watch over a refresh.                                     *)
(***************************************************************************)

\* A plan is prepared.
LEMMA PrepareKeeps ==
  ASSUME IInv, NEW k \in Plans, NEW p \in Packages, Prepare(k, p) PROVE IInv'
<1> USE DEF IInv
<1>1. /\ plan[k].st = "none" /\ plan' = [plan EXCEPT ![k] = [st |-> "prepared", want |-> p, before |-> Runtime(sup)]]
      /\ UNCHANGED <<files, txn, upd, sup, attempts, tries, outside, refreshes, deaths>>
  BY DEF Prepare
<1>2. TypeOK'
  <2>1. Runtime(sup) \in Runtimes
    BY TypeParts, SMT DEF SupType, Runtime, Runtimes
  <2>2. [st |-> "prepared", want |-> p, before |-> Runtime(sup)] \in PlanType
    BY <2>1, SMT DEF PlanType
  <2>3. PlanOK'
    BY <1>1, <2>2, TypeParts, SMT DEF PlanOK
  <2> QED BY <1>1, <2>3, TypeParts, TypePartsNext DEF files, DiskOK, CountsOK
<1>3. Locked'
  BY <1>1 DEF Locked
<1>4. Progress' /\ Found' /\ Previous'
  BY <1>1, FilesKept DEF files
<1>5. Attested'
  BY <1>1, SaidBefore DEF Said, files
<1>6. \A j \in Plans : j # k => plan'[j] = plan[j]
  BY <1>1, TypeParts, SMT DEF PlanOK
<1>7. plan'[k].st = "prepared" /\ plan'[k].want = p /\ p # None
  BY <1>1, UpdateAssumption, TypeParts, SMT DEF PlanOK
<1>8. Applying'
  BY <1>1, <1>6, <1>7, SMT DEF Applying
<1>9. Origin'
  <2>1. sup.by # k /\ sup.from # k
    <3>1. k # None /\ plan[k].want = None /\ None \notin Packages
      BY <1>1, UpdateAssumption DEF Applying
    <3>2. sup.runs \in Packages
      BY TypeParts, SMT DEF SupType
    <3> QED BY <3>1, <3>2 DEF Origin
  <2> QED BY <1>1, <1>6, <2>1, TypeParts, SMT DEF Origin, SupType
<1> QED BY <1>2, <1>3, <1>4, <1>5, <1>8, <1>9

\* A plan is locked by the updater that opens it.
LEMMA OpenPlanKeeps ==
  ASSUME IInv, NEW u \in Updaters, NEW k \in Plans, OpenPlan(u, k) PROVE IInv'
<1> USE DEF IInv
<1> DEFINE new == Opened(k)
<1>1. /\ upd[u] = Gone /\ PlanFree(k) /\ plan[k].st = "prepared" /\ upd' = [upd EXCEPT ![u] = new]
      /\ UNCHANGED <<files, txn, plan, sup, attempts, tries, outside, refreshes, deaths>>
  BY DEF OpenPlan
<1>2. /\ new \in UpdType /\ new.pc = "opened" /\ new.plan = k /\ new.want = plan[k].want /\ new.attempt = 0
  <2>1. plan[k].want \in Packages \union {None} /\ plan[k].before \in Runtimes
    BY TypeParts, SMT DEF PlanOK, PlanType
  <2>2. "opened" \in UpdPcs /\ FALSE \in Flag
    BY UpdateAssumption, Zenon DEF UpdPcs, Flag
  <2>3. 0 \in 0..MaxAttempt
    BY UpdateAssumption
  <2>4. new \in UpdType
    BY <2>1, <2>2, <2>3, Zenon DEF UpdType, Opened, Process
  <2> QED BY <2>4 DEF Opened, Process
<1> HIDE DEF new
<1>3. /\ upd'[u] = new /\ \A v \in Updaters \ {u} : upd'[v] = upd[v]
      /\ upd' \in [Updaters -> UpdType]
  BY <1>1, <1>2, TypeParts
<1>4. TypeOK'
  BY <1>1, <1>3, TypeParts, TypePartsNext DEF files, DiskOK, PlanOK, CountsOK
<1>5. txn.by # u
  BY <1>1, Nothing, UpdateAssumption, SMT DEF Locked, Locks
<1>6. Locked'
  BY <1>1, <1>3, <1>5, Fields, SMT DEF Locked
<1>7. Progress' /\ Found' /\ Previous'
  BY <1>1, FilesKept DEF files
<1>8. Attested'
  <2>1. \A n \in 1..MaxAttempt : \A p \in Packages : Said(n, p)' => Said(n, p)
    BY <1>1, <1>2, <1>3, SMT DEF Said, files
  <2> QED BY <1>1, <2>1, SaidBefore
<1>9. Applying'
  <2>1. plan[k].want \in Packages
    <3>1. plan[k].want \in Packages \union {None} /\ plan[k].want # None
      BY <1>1, TypeParts, SMT DEF PlanOK, PlanType, Applying
    <3> QED BY <3>1
  <2> QED BY <1>1, <1>2, <1>3, <2>1, Fields, SMT DEF Applying, PlanFree
<1>10. Origin'
  BY <1>1, <1>2, <1>3, SMT DEF Origin
<1> QED BY <1>4, <1>6, <1>7, <1>8, <1>9, <1>10

\* An updater goes on without touching a file, and asks the supervisor at most.
LEMMA AsksKeep ==
  ASSUME IInv, NEW u \in Updaters, upd[u].pc \in {"activate", "ask", "watch", "applied?", "failed?", "judge"},
         upd' \in [Updaters -> UpdType], SamePlan(upd, upd', u), upd'[u].attempt = upd[u].attempt,
         upd'[u].pc \notin {"gone", "opened", "rollback", "install"},
         UNCHANGED watching, sup' \in SupType, Origin', upd'[u].pc = "revert" => upd[u].attempt # 0
  PROVE  IInv'
<1> USE DEF IInv, SamePlan
<1>1. TypeOK'
  BY TypeParts, TypePartsNext DEF watching, files, DiskOK, PlanOK, CountsOK
<1>2. txn.by # u
  BY UpdateAssumption, SMT DEF Locked, Locks
<1>3. Locked'
  <2>1. txn.by # None => upd'[txn.by] = upd[txn.by]
    BY <1>2, Fields
  <2>2. txn.next # None => txn.by # None
    BY Nothing DEF Locked
  <2> QED BY <2>1, <2>2 DEF Locked, watching
<1>4. Progress' /\ Found' /\ Previous'
  BY FilesKept DEF watching, files
<1>5. Attested'
  <2>1. \A n \in 1..MaxAttempt : \A p \in Packages : Said(n, p)' => Said(n, p)
    BY SMT DEF Said, watching, files
  <2> QED BY <2>1, SaidBefore DEF watching
<1>6. Applying'
  BY SMT DEF Applying, watching
<1> QED BY <1>1, <1>3, <1>4, <1>5, <1>6

\* An updater goes on, and the supervisor does not notice.
LEMMA MovesKeep ==
  ASSUME IInv, NEW u \in Updaters, upd[u].pc \in {"activate", "ask", "watch", "applied?", "failed?", "judge"},
         upd' \in [Updaters -> UpdType], SamePlan(upd, upd', u), upd'[u].attempt = upd[u].attempt,
         upd'[u].pc \notin {"gone", "opened", "rollback", "install"},
         UNCHANGED <<watching, sup>>,
         upd'[u].pc = "revert" =>
           /\ upd[u].attempt # 0 /\ sup.by = None
           /\ Stamp(upd[u].want) # upd[u].before.build => sup.from # upd[u].plan
  PROVE  IInv'
<1>1. Origin'
  BY UpdateAssumption, SMT DEF IInv, SamePlan, Origin, Applying, watching
<1>2. sup' \in SupType
  BY TypeParts DEF IInv
<1> QED BY <1>1, <1>2, AsksKeep

\* A step of the watch that keeps the supervisor as it is and does not revert.
LEMMA WatchKeeps ==
  ASSUME IInv, NEW u \in Updaters, Activate(u) \/ Watch(u) \/ SeesApplied(u) \/ SeesFailed(u)
  PROVE  IInv'
<1>1. /\ upd[u].pc \in {"activate", "watch", "applied?", "failed?"} /\ UNCHANGED <<watching, sup>>
  BY DEF Activate, Watch, SeesApplied, SeesFailed
<1>2. PICK pc \in {"ask", "judge", "applied?", "failed?", "record", "watch"} :
        Goes(u, pc) \/ \E r \in Flag : pc = "judge" /\ Judges(u, r)
  BY Zenon DEF Flag, Activate, Watch, SeesApplied, SeesFailed
<1>3. pc \in UpdPcs /\ pc \notin {"gone", "opened", "rollback", "install", "revert"}
  BY SMT DEF UpdPcs
<1>4. TypeOK
  BY DEF IInv
<1> QED BY <1>1, <1>2, <1>3, <1>4, Goings, MovesKeep

\* A rejection that leads back is of a supervisor that was not replaced.
LEMMA JudgeKeeps == ASSUME IInv, NEW u \in Updaters, Judge(u) PROVE IInv'
<1> USE DEF IInv
<1>1. upd[u].pc = "judge" /\ TurnOver /\ UNCHANGED <<watching, sup>>
  BY DEF Judge
<1>2. PICK pc \in {"revert", "record"} : Goes(u, pc) /\ (pc = "revert" => Same(u) /\ upd[u].prior # None)
  BY DEF Judge
<1>3. pc \in UpdPcs /\ pc \notin {"gone", "opened", "rollback", "install"}
  BY SMT DEF UpdPcs
<1>4. pc = "revert" =>
        /\ upd[u].attempt # 0 /\ sup.by = None
        /\ Stamp(upd[u].want) # upd[u].before.build => sup.from # upd[u].plan
  <2> SUFFICES ASSUME pc = "revert" PROVE
        /\ upd[u].attempt # 0 /\ sup.by = None
        /\ Stamp(upd[u].want) # upd[u].before.build => sup.from # upd[u].plan
    OBVIOUS
  <2>1. sup.by = None
    BY <1>1 DEF TurnOver, Origin
  <2>2. upd[u].before.build = Stamp(sup.runs)
    BY <1>2 DEF Same, Runtime
  <2>3. upd[u].plan \in Plans /\ upd[u].want = plan[upd[u].plan].want
    BY <1>1, SMT DEF Applying
  <2>4. sup.from = upd[u].plan => sup.runs = upd[u].want
    BY <2>3, UpdateAssumption DEF Origin
  <2>5. upd[u].attempt # 0
    BY <1>1, SMT DEF Applying
  <2> QED BY <2>1, <2>2, <2>4, <2>5
<1> QED BY <1>1, <1>2, <1>3, <1>4, Goings, MovesKeep

\* The supervisor's fields.
LEMMA SupFields ==
  ASSUME sup \in SupType
  PROVE  /\ sup.alive \in Flag /\ sup.epoch \in Nat /\ sup.runs \in Packages
         /\ sup.from \in Plans \union {None} /\ sup.wanted \in Packages \union {None}
         /\ sup.by \in Plans \union {None} /\ sup.notice \in {"other", "refreshed", "failed"}
BY Zenon DEF SupType

\* The refresh is asked for: the plans of two updaters are different.
LEMMA AskKeeps == ASSUME IInv, NEW u \in Updaters, Ask(u) PROVE IInv'
<1> USE DEF IInv
<1>1. upd[u].pc = "ask" /\ UNCHANGED watching
  BY DEF Ask
<1>2. PICK pc \in {"watch", "judge"} : Goes(u, pc) \/ \E r \in Flag : pc = "judge" /\ Judges(u, r)
  BY Zenon DEF Ask, Flag
<1>3. pc \in UpdPcs /\ pc \notin {"gone", "opened", "rollback", "install", "revert"}
  BY SMT DEF UpdPcs
<1>4. /\ upd' \in [Updaters -> UpdType] /\ SamePlan(upd, upd', u)
      /\ upd'[u].attempt = upd[u].attempt /\ upd'[u].pc = pc
  BY <1>2, <1>3, Goings
<1>5. CASE sup' = Wants(upd[u].want, upd[u].plan)
  <2>1. upd[u].plan \in Plans /\ upd[u].want \in Packages /\ upd[u].want = plan[upd[u].plan].want
    BY <1>1, SMT DEF Applying
  <2>2. sup \in SupType
    BY TypeParts
  <2>3. sup' \in SupType /\ sup'.wanted = upd[u].want /\ sup'.by = upd[u].plan
        /\ sup'.from = sup.from /\ sup'.runs = sup.runs
    <3>1. sup' = [alive |-> sup.alive, epoch |-> sup.epoch, runs |-> sup.runs,
               from |-> sup.from, wanted |-> upd[u].want, by |-> upd[u].plan, notice |-> "other"]
      BY <1>5, <2>2 DEF Wants, SupType
    <3>2. sup \in SupType
      BY TypeParts
    <3> QED BY <3>1, <3>2, SupFields, <2>1, <2>2, Zenon DEF SupType
  <2>4. \A v \in Updaters : upd'[v].pc = "revert" =>
          v # u /\ upd[v].pc = "revert" /\ upd'[v] = upd[v] /\ upd[v].plan # upd[u].plan
    BY <1>3, <1>4, <2>1, SMT DEF SamePlan, Applying
  <2>5. Origin'
    BY <1>1, <2>1, <2>3, <2>4, UpdateAssumption, SMT DEF Origin, watching
  <2> QED BY <1>1, <1>3, <1>4, <2>3, <2>5, AsksKeep
<1>6. CASE UNCHANGED sup
  BY <1>1, <1>3, <1>4, <1>6, MovesKeep
<1> QED BY <1>5, <1>6 DEF Ask

\* A direct command begins, on a plan that nobody has.
LEMMA CommandKeeps ==
  ASSUME IInv, NEW u \in Updaters, NEW k \in Plans,
         RollbackCommand(u, k) \/ \E p \in Packages : InstallCommand(u, k, p)
  PROVE  IInv'
<1> USE DEF IInv
<1>1. PICK pc \in {"install", "rollback"}, p \in Packages \union {None}, before \in Runtimes :
        Command(u, k, pc, p, before) /\ (pc = "install" => p \in Packages) /\ (pc = "rollback" => p = None)
  <2>1. Met \subseteq Runtimes /\ None \in Runtimes
    BY TypeParts, SupFields, SMT DEF Met, Runtime, Runtimes
  <2>2. CASE RollbackCommand(u, k)
    BY <2>1, <2>2, Zenon DEF RollbackCommand
  <2>3. ASSUME NEW q \in Packages, InstallCommand(u, k, q)
        PROVE  \E before \in Runtimes : Command(u, k, "install", q, before)
    BY <2>1, <2>3, Zenon DEF InstallCommand
  <2> QED BY <2>2, <2>3
<1> DEFINE new == Process(pc, k, p, before)
           made == [st |-> "command", want |-> p, before |-> None]
<1>2. /\ upd[u] = Gone /\ plan[k].st = "none" /\ upd' = [upd EXCEPT ![u] = new] /\ plan' = [plan EXCEPT ![k] = made]
      /\ UNCHANGED <<files, txn, sup, attempts, tries, outside, refreshes, deaths>>
  BY <1>1 DEF Command
<1>3. new \in UpdType /\ new.pc = pc /\ new.plan = k /\ new.want = p /\ new.attempt = 0
  <2>1. FALSE \in Flag
    BY Zenon DEF Flag
  <2>2. 0 \in 0..MaxAttempt
    BY UpdateAssumption
  <2>3. pc \in UpdPcs
    BY DEF UpdPcs
  <2>4. new \in UpdType
    BY <2>1, <2>2, <2>3, Zenon DEF UpdType, Process
  <2> QED BY <2>4 DEF Process
<1>4. made \in PlanType /\ made.st = "command" /\ made.want = p
  BY SMT DEF PlanType, Runtimes
<1> HIDE DEF new, made
<1>5. /\ upd'[u] = new /\ \A v \in Updaters \ {u} : upd'[v] = upd[v]
      /\ upd' \in [Updaters -> UpdType]
  BY <1>2, <1>3, TypeParts
<1>6. plan'[k] = made /\ PlanOK' /\ \A j \in Plans : j # k => plan'[j] = plan[j]
  BY <1>2, <1>4, TypeParts, SMT DEF PlanOK
<1>7. TypeOK'
  BY <1>2, <1>5, <1>6, TypeParts, TypePartsNext DEF files, DiskOK, CountsOK
<1>8. txn.by # u
  BY <1>2, Nothing, UpdateAssumption, SMT DEF Locked, Locks
<1>9. Locked'
  <2>1. txn.by # None => upd'[txn.by] = upd[txn.by]
    BY <1>5, <1>8, Fields
  <2>2. txn.next # None => txn.by # None
    BY Nothing DEF Locked
  <2> QED BY <1>2, <2>1, <2>2 DEF Locked
<1>10. Progress' /\ Found' /\ Previous'
  BY <1>2, FilesKept DEF files
<1>11. Attested'
  <2>1. \A n \in 1..MaxAttempt : \A q \in Packages : Said(n, q)' => Said(n, q)
    BY <1>2, <1>3, <1>5, SMT DEF Said, files
  <2> QED BY <1>2, <2>1, SaidBefore
<1>12. \A v \in Updaters : upd[v].plan # k
  <2>1. \A v \in Updaters : upd[v].pc = "gone" => upd[v].plan = None
    BY Nothing DEF Applying
  <2> QED BY <1>2, <2>1, UpdateAssumption DEF Applying
<1>13. plan[k].want = None /\ tries[k] = 0 /\ k # None /\ None \notin Packages
  BY <1>2, UpdateAssumption, SMT DEF Applying
<1>14. Applying'
  BY <1>1, <1>2, <1>3, <1>4, <1>5, <1>6, <1>12, <1>13, SMT DEF Applying
<1>15. Origin'
  <2>1. sup.runs \in Packages
    BY TypeParts, SupFields
  <2>2. sup.by # k /\ sup.from # k
    BY <1>13, <2>1 DEF Origin
  <2>3. sup.by \in Plans \union {None} /\ sup.from \in Plans \union {None}
    BY TypeParts, SupFields
  <2> QED BY <1>1, <1>2, <1>3, <1>5, <1>6, <2>2, <2>3, SMT DEF Origin
<1> QED BY <1>7, <1>9, <1>10, <1>11, <1>14, <1>15

(***************************************************************************)
(* The supervisor.                                                         *)
(***************************************************************************)

\* What the supervisor does to itself touches nothing else.
LEMMA SupKeeps ==
  ASSUME IInv, sup' \in SupType, Origin', CountsOK', UNCHANGED <<files, txn, plan, upd, attempts, tries, outside>>
  PROVE  IInv'
<1> USE DEF IInv
<1>1. TypeOK'
  BY TypeParts, TypePartsNext DEF files, DiskOK, PlanOK
<1>2. Locked' /\ Applying'
  BY DEF Locked, Applying
<1>3. Progress' /\ Found' /\ Previous'
  BY FilesKept DEF files
<1>4. Attested'
  BY SaidBefore DEF Said, files
<1> QED BY <1>1, <1>2, <1>3, <1>4

\* A client asks for a refresh.
LEMMA ClientRefreshKeeps == ASSUME IInv, NEW p \in Packages, ClientRefresh(p) PROVE IInv'
<1> USE DEF IInv
<1>1. sup' = Wants(p, None) /\ refreshes' = refreshes + 1 /\ UNCHANGED others
  BY DEF ClientRefresh
<1>2. sup \in SupType /\ CountsOK
  BY TypeParts
<1>3. /\ sup' \in SupType /\ sup'.by = None /\ sup'.wanted = p
      /\ sup'.from = sup.from /\ sup'.runs = sup.runs
  <2>1. sup' = [alive |-> sup.alive, epoch |-> sup.epoch, runs |-> sup.runs,
               from |-> sup.from, wanted |-> p, by |-> None, notice |-> "other"]
    BY <1>1, <1>2 DEF Wants, SupType
  <2>2. sup \in SupType
    BY TypeParts
  <2> QED BY <2>1, <2>2, SupFields, <1>2, Zenon DEF SupType
<1>4. Origin'
  BY <1>1, <1>3, UpdateAssumption, SMT DEF Origin, Applying, others
<1>5. CountsOK'
  BY <1>1, <1>2, SMT DEF CountsOK, others
<1> QED BY <1>1, <1>3, <1>4, <1>5, SupKeeps DEF others

\* The supervisor replaces itself, fails to, forgets its notice, stops or starts.
LEMMA SupervisorKeeps ==
  ASSUME IInv, ReplaceFails \/ Replace \/ OtherNotice \/ Stops \/ Starts PROVE IInv'
<1> USE DEF IInv
<1>1. sup \in SupType /\ UNCHANGED <<others, refreshes>> /\ CountsOK
  BY TypeParts DEF ReplaceFails, Replace, OtherNotice, Stops, Starts
<1>2. CountsOK'
  BY <1>1 DEF CountsOK, others
<1>3. \A u \in Updaters : upd[u].pc = "revert" => upd[u].plan \in Plans
  BY SMT DEF Applying
<1>4. TRUE \in Flag /\ FALSE \in Flag
  BY Zenon DEF Flag
<1>5. CASE ReplaceFails
  <2>1. /\ sup' \in SupType /\ sup'.by = None /\ sup'.wanted = None
        /\ sup'.from = sup.from /\ sup'.runs = sup.runs
    <3>1. sup' = [alive |-> sup.alive, epoch |-> sup.epoch, runs |-> sup.runs,
               from |-> sup.from, wanted |-> None, by |-> None, notice |-> "failed"]
      BY <1>1, <1>5 DEF ReplaceFails, SupType
    <3>2. sup \in SupType
      BY TypeParts
    <3> QED BY <3>1, <3>2, SupFields, <1>1, Zenon DEF SupType
  <2>2. Origin'
    BY <1>1, <1>3, <2>1, UpdateAssumption, SMT DEF Origin, others
  <2> QED BY <1>1, <1>2, <2>1, <2>2, SupKeeps DEF others
<1>6. CASE Replace
  <2>0. sup.wanted \in Packages
    BY <1>1, <1>6, SupFields DEF Replace
  <2>1. /\ sup' \in SupType /\ sup'.by = None /\ sup'.wanted = None
        /\ sup'.from = sup.by /\ sup'.runs = sup.wanted
    <3>1. sup' = [alive |-> sup.alive, epoch |-> sup.epoch, runs |-> sup.wanted,
               from |-> sup.by, wanted |-> None, by |-> None, notice |-> "refreshed"]
      BY <1>1, <1>6 DEF Replace, SupType
    <3>2. sup \in SupType
      BY TypeParts
    <3> QED BY <3>1, <3>2, SupFields, <1>1, <2>0, Zenon DEF SupType
  <2>2. Origin'
    BY <1>1, <1>3, <2>1, UpdateAssumption, SMT DEF Origin, others
  <2> QED BY <1>1, <1>2, <2>1, <2>2, SupKeeps DEF others
<1>7. CASE OtherNotice
  <2>1. /\ sup' \in SupType /\ sup'.by = sup.by /\ sup'.wanted = sup.wanted
        /\ sup'.from = sup.from /\ sup'.runs = sup.runs
    <3>1. sup' = [alive |-> sup.alive, epoch |-> sup.epoch, runs |-> sup.runs,
               from |-> sup.from, wanted |-> sup.wanted, by |-> sup.by, notice |-> "other"]
      BY <1>1, <1>7 DEF OtherNotice, SupType
    <3>2. sup \in SupType
      BY TypeParts
    <3> QED BY <3>1, <3>2, SupFields, <1>1, Zenon DEF SupType
  <2>2. Origin'
    BY <1>1, <2>1, SMT DEF Origin, others
  <2> QED BY <1>1, <1>2, <2>1, <2>2, SupKeeps DEF others
<1>8. CASE Stops
  <2>1. /\ sup' \in SupType /\ sup'.by = None /\ sup'.wanted = None
        /\ sup'.from = sup.from /\ sup'.runs = sup.runs
    <3>1. sup' = [alive |-> FALSE, epoch |-> sup.epoch, runs |-> sup.runs,
               from |-> sup.from, wanted |-> None, by |-> None, notice |-> "other"]
      BY <1>1, <1>8 DEF Stops, SupType
    <3>2. sup \in SupType
      BY TypeParts
    <3> QED BY <3>1, <3>2, SupFields, <1>1, <1>4, Zenon DEF SupType
  <2>2. Origin'
    BY <1>1, <1>3, <2>1, UpdateAssumption, SMT DEF Origin, others
  <2> QED BY <1>1, <1>2, <2>1, <2>2, SupKeeps DEF others
<1>9. CASE Starts
  <2>0. command \in Packages /\ sup.epoch + 1 \in Nat
    BY <1>1, <1>9, SupFields DEF Starts
  <2>1. /\ sup' \in SupType /\ sup'.by = sup.by /\ sup'.wanted = sup.wanted /\ sup'.from = None
    <3>1. sup' = [alive |-> TRUE, epoch |-> sup.epoch + 1, runs |-> command,
               from |-> None, wanted |-> sup.wanted, by |-> sup.by, notice |-> sup.notice]
      BY <1>1, <1>9 DEF Starts, SupType
    <3>2. sup \in SupType
      BY TypeParts
    <3> QED BY <3>1, <3>2, SupFields, <1>1, <1>4, <2>0, Zenon DEF SupType
  <2>2. Origin'
    BY <1>1, <1>3, <2>1, UpdateAssumption, SMT DEF Origin, others
  <2> QED BY <1>1, <1>2, <2>1, <2>2, SupKeeps DEF others
<1> QED BY <1>5, <1>6, <1>7, <1>8, <1>9

\* Somebody else changes the command: only what the disk held before matters from then on.
LEMMA OutsiderKeeps == ASSUME IInv, Outsider PROVE IInv'
<1> USE DEF IInv
<1>1. /\ outside' = outside + 1 /\ command' \in {Absent, Foreign} /\ outside \in Nat
      /\ UNCHANGED <<receipt, pending, was, txn, plan, upd, sup, attempts, tries, refreshes, deaths>>
  BY TypeParts DEF Outsider, CountsOK
<1>2. outside' \in Nat /\ outside' # 0
  BY <1>1
<1>3. TypeOK'
  BY <1>1, <1>2, TypeParts, TypePartsNext, SMT DEF DiskOK, PlanOK, CountsOK
<1>4. Locked' /\ Applying' /\ Origin'
  BY <1>1 DEF Locked, Applying, Origin
<1>5. Progress' /\ Found'
  BY <1>1, <1>2, SMT DEF Progress, Found
<1>6. pending # None => pending.next.current \in Packages /\ pending.prev \in Packages \union {Absent}
  BY Fields, Receipts
<1>7. command' \notin Packages /\ Absent \notin Packages /\ Foreign \notin Packages /\ Absent # Foreign
  BY <1>1, UpdateAssumption
<1>8. pending # None => ~Placed' /\ (Unplaced' => Unplaced)
  BY <1>1, <1>6, <1>7, SMT DEF Placed, Unplaced
<1>9. Previous'
  BY <1>1, <1>2, <1>8, SMT DEF Previous, Real
<1>10. Attested'
  BY <1>1, SaidBefore DEF Said
<1> QED BY <1>3, <1>4, <1>5, <1>9, <1>10

(***************************************************************************)
(* Beginning and ending.                                                   *)
(***************************************************************************)

\* A plan that begins was not begun before.
LEMMA BeginApplyKeeps == ASSUME IInv, NEW u \in Updaters, BeginApply(u) PROVE IInv'
<1> USE DEF IInv
<1>1. /\ upd[u].pc = "opened" /\ Goes(u, "install")
      /\ plan' = [plan EXCEPT ![upd[u].plan].st = "applying"]
      /\ tries' = [tries EXCEPT ![upd[u].plan] = @ + 1]
      /\ UNCHANGED <<files, txn, sup, attempts, outside, refreshes, deaths>>
  BY DEF BeginApply
<1>2. upd[u].plan \in Plans /\ plan[upd[u].plan].st = "prepared" /\ tries[upd[u].plan] = 0 /\ upd[u].attempt = 0
  BY <1>1, SMT DEF Applying
<1>3. "install" \in UpdPcs
  BY DEF UpdPcs
<1>4. /\ upd' \in [Updaters -> UpdType] /\ SamePlan(upd, upd', u)
      /\ upd'[u].attempt = upd[u].attempt /\ upd'[u].pc = "install"
  BY <1>1, <1>3, Goings
<1>5. /\ PlanOK'
      /\ \A k \in Plans : k # upd[u].plan => plan'[k] = plan[k] /\ tries'[k] = tries[k]
      /\ plan'[upd[u].plan].st = "applying" /\ tries'[upd[u].plan] = 1
      /\ \A k \in Plans : plan'[k].want = plan[k].want
  BY <1>1, <1>2, TypeParts, SMT DEF PlanOK, PlanType
<1>6. TypeOK'
  BY <1>1, <1>4, <1>5, TypeParts, TypePartsNext DEF files, DiskOK, CountsOK
<1>7. txn.by # u
  BY <1>1, UpdateAssumption, SMT DEF Locked, Locks
<1>8. Locked'
  <2>1. txn.by # None => upd'[txn.by] = upd[txn.by]
    BY <1>4, <1>7, Fields DEF SamePlan
  <2>2. txn.next # None => txn.by # None
    BY Nothing DEF Locked
  <2> QED BY <1>1, <2>1, <2>2 DEF Locked
<1>9. Progress' /\ Found' /\ Previous'
  BY <1>1, FilesKept DEF files
<1>10. Attested'
  <2>1. \A n \in 1..MaxAttempt : \A p \in Packages : Said(n, p)' => Said(n, p)
    BY <1>1, <1>4, SMT DEF Said, files, SamePlan
  <2> QED BY <1>1, <2>1, SaidBefore
<1>11. Applying'
  <2>1. \A v \in Updaters : v # u => upd'[v] = upd[v] /\ upd[v].plan # upd[u].plan
    BY <1>2, <1>4 DEF SamePlan, Applying
  <2>2. \A v \in Updaters : upd'[v].plan = upd[v].plan /\ upd'[v].want = upd[v].want
    BY <1>4 DEF SamePlan
  <2>3. plan[upd[u].plan].want # None
    BY <1>2, SMT DEF Applying
  <2>4. \A k \in Plans : /\ plan'[k].st = "none" => plan'[k].want = None
                         /\ plan'[k].want = None => plan'[k].st \in {"none", "command"}
                         /\ plan'[k].st \in {"none", "prepared"} => tries'[k] = 0
                         /\ tries'[k] <= 1
    BY <1>5, <2>3, SMT DEF Applying
  <2>5. \A v, w \in Updaters : (upd'[v].plan \in Plans /\ upd'[v].plan = upd'[w].plan) => v = w
    BY <2>2 DEF Applying
  <2>6. \A v \in Updaters : v # u =>
          /\ upd'[v].pc = "gone" => upd'[v] = Gone
          /\ upd'[v].pc # "gone" =>
               /\ upd'[v].plan \in Plans /\ upd'[v].want = plan'[upd'[v].plan].want
               /\ plan'[upd'[v].plan].st # "none"
          /\ upd'[v].pc \notin {"gone", "rollback"} => upd'[v].want \in Packages
          /\ upd'[v].pc = "opened" => plan'[upd'[v].plan].st = "prepared"
          /\ upd'[v].pc = "rollback" => upd'[v].want = None /\ plan'[upd'[v].plan].st = "command"
          /\ upd'[v].pc \in {"opened", "rollback", "install"} => upd'[v].attempt = 0
          /\ upd'[v].pc \in {"activate", "ask", "watch", "applied?", "failed?", "judge", "revert"} => upd'[v].attempt # 0
    BY <1>5, <2>1, SMT DEF Applying
  <2>7. /\ upd'[u].plan \in Plans /\ upd'[u].want \in Packages
        /\ upd'[u].want = plan'[upd'[u].plan].want
        /\ plan'[upd'[u].plan].st # "none" /\ upd'[u].attempt = 0
    BY <1>1, <1>2, <1>4, <1>5, <2>2, SMT DEF Applying
  <2> QED BY <1>4, <2>4, <2>5, <2>6, <2>7, SMT DEF Applying
<1>12. Origin'
  BY <1>1, <1>4, <1>5, TypeParts, SMT DEF Origin, SupType, SamePlan
<1> QED BY <1>6, <1>8, <1>9, <1>10, <1>11, <1>12

\* An updater that dies or refuses, or records what it did.
LEMMA EndingsKeep == ASSUME IInv, NEW u \in Updaters, Stale(u) \/ Dies(u) \/ Record(u) PROVE IInv'
<1>1. Ends(u) /\ UNCHANGED <<files, sup, attempts, tries, outside, refreshes>>
  BY DEF Stale, Dies, Record, Refuses
<1>2. deaths' \in Nat
  <2>1. deaths \in Nat
    BY TypeParts DEF IInv, CountsOK
  <2>2. deaths' = deaths \/ deaths' = deaths + 1
    BY DEF Stale, Dies, Record, Refuses
  <2> QED BY <2>1, <2>2
<1>3. upd[u].pc # "gone"
  <2>1. upd[u].pc = "gone" => upd[u] = Gone
    BY SMT DEF IInv, Applying
  <2> QED BY <2>1 DEF Stale, Dies, Record
<1>4. plan' = plan \/ (upd[u].pc = "record" /\ Settles(upd[u].plan))
  BY DEF Stale, Dies, Record, Refuses
<1> QED BY <1>1, <1>2, <1>3, <1>4, EndsKeeps

\* An error while the plans stay as they are.
LEMMA ErrorKeeps ==
  ASSUME IInv, NEW u \in Updaters, upd[u].pc # "gone", Ends(u),
         UNCHANGED <<files, plan, sup, attempts, tries, outside, refreshes, deaths>>
  PROVE  IInv'
<1>1. deaths' \in Nat
  BY TypeParts DEF IInv, CountsOK
<1> QED BY <1>1, EndsKeeps

(***************************************************************************)
(* Under the lock.                                                         *)
(***************************************************************************)

\* The holder of the lock is at work.
LEMMA Holds ==
  ASSUME IInv, NEW u \in Updaters, txn.by = u
  PROVE  /\ upd[u].pc \in Locks /\ upd[u].pc # "gone" /\ u # None
         /\ upd[u].plan \in Plans /\ upd[u].want = plan[upd[u].plan].want
         /\ upd[u].pc # "rollback" => upd[u].want \in Packages
<1>1. u # None
  BY UpdateAssumption
<1>2. upd[u].pc \in Locks
  BY <1>1, SMT DEF IInv, Locked
<1> QED BY <1>1, <1>2, SMT DEF IInv, Applying, Locks

\* The lock is taken by one who finds it free.
LEMMA LockKeeps == ASSUME IInv, NEW u \in Updaters, Lock(u) PROVE IInv'
<1> USE DEF IInv
<1>1. /\ upd[u].pc \in Locks /\ upd[u].pc # "gone"
      /\ UNCHANGED <<files, plan, sup, attempts, tries, outside, refreshes, deaths>>
  BY SMT DEF Lock, Locks
<1>2. CASE txn = Unlocked
  <2>1. txn' = [Unlocked EXCEPT !.by = u, !.pc = "recover"] /\ upd' = upd
    BY <1>2, UpdateAssumption DEF Lock
  <2>2. txn' = [by |-> u, pc |-> "recover", next |-> None, prev |-> None]
    BY <2>1 DEF Unlocked
  <2>3. txn' \in TxnType
    BY <2>2, SMT DEF TxnType, TxnPcs
  <2>9. /\ txn'.by = u /\ txn'.pc = "recover" /\ txn'.next = None /\ upd' = upd /\ u # None
        /\ receipt' = receipt /\ pending' = pending
    <3>1. u # None
      BY UpdateAssumption
    <3>2. txn'.by = u /\ txn'.pc = "recover" /\ txn'.next = None
      BY <2>2
    <3> QED BY <1>1, <2>1, <3>1, <3>2 DEF files
  <2>4. TypeOK'
    BY <1>1, <2>1, <2>3, TypeParts, TypePartsNext DEF files, DiskOK, PlanOK, CountsOK
  <2>5. Locked'
    BY <1>1, <2>9, SMT DEF Locked, Replacing
  <2>6. Progress' /\ Found' /\ Previous'
    BY <1>1, <2>2, SMT DEF files, Progress, Found, Previous, Consistent, Managed, Real, Placed, Unplaced
  <2>7. Attested'
    <3>1. \A n \in 1..MaxAttempt : \A p \in Packages : Said(n, p)' => Said(n, p)
      BY <2>9 DEF Said
    <3> QED BY <1>1, <3>1, SaidBefore
  <2>8. Applying' /\ Origin'
    BY <1>1, <2>1 DEF Applying, Origin
  <2> QED BY <2>4, <2>5, <2>6, <2>7, <2>8
<1>3. CASE txn # Unlocked
  BY <1>1, <1>3, ErrorKeeps DEF Lock
<1> QED BY <1>2, <1>3

\* The holder of the lock goes on to pc with the decision it has.
LEMMA TxnMoves ==
  ASSUME IInv, NEW u \in Updaters, txn.by = u, NEW pc \in TxnPcs \ {"free"}, TxnGoes(pc),
         pc \in Replacing <=> txn.pc \in Replacing, DiskOK', attempts' = attempts,
         UNCHANGED <<plan, sup, tries, outside, refreshes, deaths>>,
         \/ receipt' = receipt
         \/ receipt' = pending.next /\ pending # None
         \/ receipt' = txn.next /\ txn.next # None,
         pending' = pending \/ pending' = None \/ (pending'.next = txn.next /\ txn.next # None)
  PROVE  /\ TypeOK' /\ Locked' /\ Attested' /\ Applying' /\ Origin'
         /\ txn'.pc = pc /\ txn'.next = txn.next /\ txn'.prev = txn.prev
<1> USE DEF IInv
<1>1. txn \in TxnType /\ txn' = [txn EXCEPT !.pc = pc] /\ upd' = upd
  BY TypeParts DEF TxnGoes
<1>2. /\ txn' \in TxnType /\ txn'.by = u /\ txn'.pc = pc /\ txn'.next = txn.next /\ txn'.prev = txn.prev
  BY <1>1, SMT DEF TxnType
<1>3. TypeOK'
  BY <1>1, <1>2, TypeParts, TypePartsNext DEF PlanOK, CountsOK
<1>4. Locked'
  BY <1>1, <1>2, UpdateAssumption, SMT DEF Locked
<1>5. Attested'
  <2>1. \A n \in 1..MaxAttempt : \A p \in Packages : Said(n, p)' => Said(n, p)
    BY <1>1, <1>2, SMT DEF Said
  <2> QED BY <2>1, SaidBefore
<1>6. Applying' /\ Origin'
  BY <1>1 DEF Applying, Origin
<1> QED BY <1>2, <1>3, <1>4, <1>5, <1>6

\* An interrupted replacement is finished when its package is in place, and forgotten
\* when the command is still the one before.
LEMMA RecoverKeeps == ASSUME IInv, NEW u \in Updaters, Recover(u) PROVE IInv'
<1> USE DEF IInv
<1>1. /\ txn.by = u /\ txn.pc = "recover"
      /\ UNCHANGED <<plan, sup, attempts, tries, outside, refreshes, deaths>>
  BY DEF Recover
<1>2. DiskOK /\ txn.pc \notin Replacing
  BY <1>1, TypeParts, SMT DEF Replacing
<1>3. pending # None => /\ pending.next \in Receipt /\ pending.next # None
                        /\ pending.next.current \in Packages /\ pending.prev \in Packages \union {Absent}
  BY Fields, Receipts
<1>4. Absent \notin Packages /\ None \notin Packages /\ None # Absent
  BY UpdateAssumption
<1>5. ASSUME pending = None, TxnGoes("status"), UNCHANGED files PROVE IInv'
  <2>1. "status" \in TxnPcs \ {"free"} /\ "status" \notin Replacing
    BY SMT DEF TxnPcs, Replacing
  <2>2. DiskOK'
    BY <1>1, <1>2, <1>5 DEF DiskOK, files
  <2>3. receipt' = receipt /\ pending' = pending /\ command' = command /\ was' = was
    BY <1>5 DEF files
  <2>4. TypeOK' /\ Locked' /\ Attested' /\ Applying' /\ Origin' /\ txn'.pc = "status"
    BY <1>1, <1>2, <1>5, <2>1, <2>2, <2>3, TxnMoves
  <2>5. Progress' /\ Found' /\ Previous'
    BY <1>1, <1>5, <2>3, <2>4, SMT DEF Progress, Found, Previous, Consistent, Managed, Real, Placed, Unplaced
  <2> QED BY <2>4, <2>5
<1>6. ASSUME pending # None, command = pending.next.current, receipt' = pending.next, TxnGoes("unjournal"),
             UNCHANGED <<command, pending>>, was' = IF command = pending.prev THEN command ELSE was
      PROVE  IInv'
  <2>1. "unjournal" \in TxnPcs \ {"free"} /\ "unjournal" \notin Replacing
    BY SMT DEF TxnPcs, Replacing
  <2>2. DiskOK'
    BY <1>1, <1>2, <1>3, <1>6, SMT DEF DiskOK
  <2>3. TypeOK' /\ Locked' /\ Attested' /\ Applying' /\ Origin' /\ txn'.pc = "unjournal"
    BY <1>1, <1>2, <1>3, <1>6, <2>1, <2>2, TxnMoves
  <2>4. Consistent'
    BY <1>6 DEF Consistent, Managed
  <2>5. Progress' /\ Found'
    BY <1>1, <1>6, <2>3, <2>4, SMT DEF Progress, Found
  <2>6. Real(pending.next)'
    <3>1. CASE command = pending.prev
      BY <1>1, <1>3, <1>4, <1>6, <3>1 DEF Real, Previous
    <3>2. CASE command # pending.prev
      BY <1>1, <1>6, <3>2 DEF Real, Previous, Placed
    <3> QED BY <3>1, <3>2
  <2>7. Previous'
    BY <1>6, <2>3, <2>6, SMT DEF Previous, Real
  <2> QED BY <2>3, <2>5, <2>7
<1>7. ASSUME pending # None, command # pending.next.current, command = pending.prev,
             TxnGoes("unjournal"), UNCHANGED files
      PROVE  IInv'
  <2>1. "unjournal" \in TxnPcs \ {"free"} /\ "unjournal" \notin Replacing
    BY SMT DEF TxnPcs, Replacing
  <2>2. DiskOK'
    BY <1>1, <1>2, <1>7 DEF DiskOK, files
  <2>3. receipt' = receipt /\ pending' = pending /\ command' = command /\ was' = was
    BY <1>7 DEF files
  <2>4. TypeOK' /\ Locked' /\ Attested' /\ Applying' /\ Origin' /\ txn'.pc = "unjournal"
    BY <1>1, <1>2, <1>7, <2>1, <2>2, <2>3, TxnMoves
  <2>5. Progress' /\ Found'
    BY <1>1, <1>7, <2>3, <2>4, SMT DEF Progress, Found, Consistent, Managed
  <2>6. receipt # None => Real(receipt)
    BY <1>7 DEF Previous, Unplaced
  <2>7. Previous'
    BY <1>1, <1>7, <2>3, <2>4, <2>6, SMT DEF Previous, Real, Placed, Unplaced
  <2> QED BY <2>4, <2>5, <2>7
<1>8. ASSUME Ends(u), UNCHANGED files PROVE IInv'
  BY <1>1, <1>8, Holds, ErrorKeeps
<1> QED BY <1>5, <1>6, <1>7, <1>8 DEF Recover

\* The journal of a finished or abandoned replacement is removed.
LEMMA UnjournalKeeps == ASSUME IInv, NEW u \in Updaters, Unjournal(u) PROVE IInv'
<1> USE DEF IInv
<1>1. /\ txn.by = u /\ txn.pc = "unjournal" /\ pending' = None /\ TxnGoes("status")
      /\ UNCHANGED <<command, receipt, was, plan, sup, attempts, tries, outside, refreshes, deaths>>
  BY DEF Unjournal
<1>2. "status" \in TxnPcs \ {"free"} /\ "status" \notin Replacing /\ txn.pc \notin Replacing
  BY <1>1, SMT DEF TxnPcs, Replacing
<1>3. DiskOK'
  BY <1>1, TypeParts, SMT DEF DiskOK
<1>4. TypeOK' /\ Locked' /\ Attested' /\ Applying' /\ Origin' /\ txn'.pc = "status"
  BY <1>1, <1>2, <1>3, TxnMoves
<1>5. Progress' /\ Found'
  BY <1>1, <1>4, SMT DEF Progress, Found, Consistent, Managed
<1>6. Previous'
  BY <1>1, <1>4, SMT DEF Previous, Real
<1> QED BY <1>4, <1>5, <1>6

\* The replacement is written down before anything is replaced.
LEMMA JournalKeeps == ASSUME IInv, NEW u \in Updaters, Journal(u) PROVE IInv'
<1> USE DEF IInv
<1>1. /\ txn.by = u /\ txn.pc = "journal" /\ pending' = [next |-> txn.next, prev |-> txn.prev]
      /\ TxnGoes("check")
      /\ UNCHANGED <<command, receipt, was, plan, sup, attempts, tries, outside, refreshes, deaths>>
  BY DEF Journal
<1>2. "check" \in TxnPcs \ {"free"} /\ "check" \in Replacing /\ txn.pc \in Replacing /\ txn.next # None
  BY <1>1, SMT DEF TxnPcs, Replacing, Locked
<1>3. /\ txn.next \in Receipt /\ txn.next.current \in Packages /\ txn.prev \in Packages \union {Absent}
      /\ txn.next.previous = (IF txn.prev = Absent THEN None ELSE txn.prev)
  BY <1>2, Fields, Receipts, SMT DEF Locked
<1>4. pending' \in Journals /\ pending' # None /\ pending'.next = txn.next /\ pending'.prev = txn.prev
  BY <1>1, <1>3, NoneAssumption, SMT DEF Journals
<1>5. DiskOK'
  BY <1>1, <1>4, TypeParts, SMT DEF DiskOK
<1>6. /\ TypeOK' /\ Locked' /\ Attested' /\ Applying' /\ Origin'
      /\ txn'.pc = "check" /\ txn'.next = txn.next /\ txn'.prev = txn.prev
  BY <1>1, <1>2, <1>4, <1>5, TxnMoves
<1>7. /\ pending = None /\ command \in {txn.prev, Absent, Foreign} /\ (outside = 0 => command = txn.prev)
      /\ txn.prev = Absent => receipt = None
  BY <1>1, SMT DEF Progress
<1>8. Progress' /\ Found'
  BY <1>1, <1>4, <1>6, <1>7, SMT DEF Progress, Found, Consistent, Managed
<1>9. ~Placed'
  <2>1. Absent \notin Packages /\ Foreign \notin Packages
    BY UpdateAssumption
  <2> QED BY <1>1, <1>3, <1>4, <1>7, <2>1 DEF Placed
<1>10. Previous'
  BY <1>1, <1>3, <1>4, <1>6, <1>7, <1>9, SMT DEF Previous, Real
<1> QED BY <1>6, <1>8, <1>10

\* The command is looked at once more.
LEMMA CheckKeeps == ASSUME IInv, NEW u \in Updaters, Check(u) PROVE IInv'
<1> USE DEF IInv
<1>1. /\ txn.by = u /\ txn.pc = "check"
      /\ UNCHANGED <<files, plan, sup, attempts, tries, outside, refreshes, deaths>>
  BY DEF Check
<1>2. ASSUME TxnGoes("place") PROVE IInv'
  <2>1. "place" \in TxnPcs \ {"free"} /\ "place" \in Replacing /\ txn.pc \in Replacing
    BY <1>1, SMT DEF TxnPcs, Replacing
  <2>2. DiskOK'
    BY <1>1, TypeParts DEF DiskOK, files
  <2>3. receipt' = receipt /\ pending' = pending /\ command' = command /\ was' = was
    BY <1>1 DEF files
  <2>4. /\ TypeOK' /\ Locked' /\ Attested' /\ Applying' /\ Origin'
        /\ txn'.pc = "place" /\ txn'.next = txn.next /\ txn'.prev = txn.prev
    BY <1>1, <1>2, <2>1, <2>2, <2>3, TxnMoves
  <2>5. Progress' /\ Found'
    BY <1>1, <2>3, <2>4, SMT DEF Progress, Found, Consistent, Managed
  <2>6. Previous'
    BY <1>1, <2>3, <2>4, SMT DEF Previous, Real, Placed, Unplaced
  <2> QED BY <2>4, <2>5, <2>6
<1> QED BY <1>1, <1>2, Holds, ErrorKeeps DEF Check

\* The package takes the place of what the journal says.
LEMMA PlaceKeeps == ASSUME IInv, NEW u \in Updaters, Place(u) PROVE IInv'
<1> USE DEF IInv
<1>1. /\ txn.by = u /\ txn.pc = "place"
      /\ UNCHANGED <<plan, sup, attempts, tries, outside, refreshes, deaths>>
  BY DEF Place
<1>2. ASSUME MayPlace, command' = txn.next.current, was' = command, TxnGoes("receipt"),
             UNCHANGED <<receipt, pending>>
      PROVE  IInv'
  <2>1. "receipt" \in TxnPcs \ {"free"} /\ "receipt" \in Replacing /\ txn.pc \in Replacing /\ txn.next # None
    BY <1>1, SMT DEF TxnPcs, Replacing, Locked
  <2>2. /\ txn.next \in Receipt /\ txn.next.current \in Packages /\ txn.prev \in Packages \union {Absent}
        /\ txn.next.previous = (IF txn.prev = Absent THEN None ELSE txn.prev)
    BY <2>1, Fields, Receipts, SMT DEF Locked
  <2>3. DiskOK'
    BY <1>1, <1>2, <2>2, TypeParts, SMT DEF DiskOK
  <2>4. /\ TypeOK' /\ Locked' /\ Attested' /\ Applying' /\ Origin'
        /\ txn'.pc = "receipt" /\ txn'.next = txn.next /\ txn'.prev = txn.prev
    BY <1>1, <1>2, <2>1, <2>3, TxnMoves
  <2>5. /\ pending = [next |-> txn.next, prev |-> txn.prev] /\ (outside = 0 => command = txn.prev)
        /\ txn.prev = Absent => receipt = None
    BY <1>1, SMT DEF Progress
  <2>6. pending' # None /\ pending'.next = txn.next /\ pending'.prev = txn.prev
    BY <1>2, <2>2, <2>5, NoneAssumption, SMT DEF Journals
  <2>7. Progress' /\ Found'
    BY <1>1, <1>2, <2>4, <2>5, <2>6, SMT DEF Progress, Found
  <2>8. Real(txn.next)'
    <3>1. txn.next.previous = None => was' = Absent
      BY <1>2, <2>2, UpdateAssumption DEF MayPlace
    <3>2. outside' = 0 => txn.next.previous = (IF was' = Absent THEN None ELSE was')
      BY <1>1, <1>2, <2>2, <2>5
    <3> QED BY <2>4, <3>1, <3>2 DEF Real
  <2>9. Unplaced' => receipt' = None
    BY <1>2, <2>5, <2>6 DEF Unplaced
  <2>10. Previous'
    BY <2>2, <2>4, <2>6, <2>8, <2>9, SMT DEF Previous, Real
  <2> QED BY <2>4, <2>7, <2>10
<1>3. ASSUME Ends(u), UNCHANGED files PROVE IInv'
  BY <1>1, <1>3, Holds, ErrorKeeps
<1> QED BY <1>2, <1>3 DEF Place

\* The receipt follows the command.
LEMMA WriteReceiptKeeps == ASSUME IInv, NEW u \in Updaters, WriteReceipt(u) PROVE IInv'
<1> USE DEF IInv
<1>1. /\ txn.by = u /\ txn.pc = "receipt" /\ receipt' = txn.next /\ TxnGoes("clear")
      /\ UNCHANGED <<command, pending, was, plan, sup, attempts, tries, outside, refreshes, deaths>>
  BY DEF WriteReceipt
<1>2. "clear" \in TxnPcs \ {"free"} /\ "clear" \in Replacing /\ txn.pc \in Replacing /\ txn.next # None
  BY <1>1, SMT DEF TxnPcs, Replacing, Locked
<1>3. txn.next \in Receipt
  BY <1>2, Fields
<1>4. DiskOK'
  BY <1>1, <1>3, TypeParts, SMT DEF DiskOK
<1>5. pending = [next |-> txn.next, prev |-> txn.prev] /\ (outside = 0 => command = txn.next.current)
  BY <1>1, SMT DEF Progress
<1>6. pending # None /\ pending.next = txn.next /\ pending.prev = txn.prev
  <2>1. txn.prev \in Packages \union {Absent}
    BY <1>2 DEF Locked
  <2> QED BY <1>3, <1>5, <2>1, NoneAssumption, SMT DEF Journals
<1>7. /\ TypeOK' /\ Locked' /\ Attested' /\ Applying' /\ Origin'
      /\ txn'.pc = "clear" /\ txn'.next = txn.next /\ txn'.prev = txn.prev
  BY <1>1, <1>2, <1>4, <1>6, TxnMoves
<1>8. Progress' /\ Found'
  BY <1>1, <1>5, <1>6, <1>7, SMT DEF Progress, Found
<1>9. Real(txn.next)
  BY <1>1, SMT DEF Previous
<1>10. Previous'
  BY <1>1, <1>6, <1>7, <1>9, SMT DEF Previous, Real, Placed, Unplaced
<1> QED BY <1>7, <1>8, <1>10

\* An attempt is named: nobody has used the name before.
LEMMA NamedKeeps ==
  ASSUME IInv, Named, NEW new \in Packages,
         \A n \in 1..MaxAttempt : \A p \in Packages : Said(n, p)' => Said(n, p) \/ (n = attempts' /\ p = new)
  PROVE  Attested' /\ attempts' = attempts + 1 /\ attempts' \in 1..MaxAttempt
<1> USE DEF IInv
<1>1. attempts < MaxAttempt /\ attempts' = attempts + 1
  BY DEF Named
<1>2. attempts \in Nat /\ attempts' \in 1..MaxAttempt
  <2>1. DiskOK
    BY TypeParts
  <2> QED BY <1>1, <2>1, UpdateAssumption DEF DiskOK
<1>3. ASSUME NEW n \in 1..MaxAttempt, NEW p \in Packages, Said(n, p)'
      PROVE  (Said(n, p) /\ n <= attempts) \/ (n = attempts' /\ p = new)
  BY <1>3 DEF Attested
<1>4. \A n \in 1..MaxAttempt : \A p \in Packages : Said(n, p)' => n <= attempts'
  BY <1>1, <1>2, <1>3
<1>5. ASSUME NEW n \in 1..MaxAttempt, NEW p \in Packages, NEW q \in Packages, Said(n, p)', Said(n, q)'
      PROVE  p = q
  <2>1. (Said(n, p) /\ n <= attempts) \/ (n = attempts' /\ p = new)
    BY <1>3, <1>5
  <2>2. (Said(n, q) /\ n <= attempts) \/ (n = attempts' /\ q = new)
    BY <1>3, <1>5
  <2>3. ~(n <= attempts /\ n = attempts')
    BY <1>1, <1>2
  <2> QED BY <2>1, <2>2, <2>3 DEF Attested
<1> QED BY <1>1, <1>2, <1>4, <1>5 DEF Attested

\* A replacement is decided, with an attempt of its own.
LEMMA Decides ==
  ASSUME IInv, NEW u \in Updaters, txn.by = u, txn.pc = "status",
         NEW new \in Packages, NEW previous, NEW digest \in Packages \union {Absent},
         previous = (IF digest = Absent THEN None ELSE digest), Replacement(new, previous, digest),
         command = digest, digest = Absent => receipt = None, UNCHANGED <<files, outside>>,
         \A v \in Updaters : upd'[v].attempt # 0 => upd'[v].attempt = upd[v].attempt /\ upd'[v].want = upd[v].want
  PROVE  /\ DiskOK' /\ Progress' /\ Found' /\ Previous' /\ Attested'
         /\ txn' \in TxnType /\ txn'.by = u /\ txn'.pc = "journal" /\ txn'.prev = digest /\ txn'.next # None
         /\ txn'.next.current = new /\ txn'.next.previous = previous
<1> USE DEF IInv
<1> DEFINE next == [current |-> new, previous |-> previous, attempt |-> attempts']
<1>1. Named /\ txn' = [txn EXCEPT !.pc = "journal", !.prev = digest, !.next = next]
  BY DEF Replacement
<1>2. attempts' \in 1..MaxAttempt /\ DiskOK
  <2>1. DiskOK
    BY TypeParts
  <2> QED BY <1>1, <2>1, UpdateAssumption DEF DiskOK, Named
<1>3. next \in Receipt /\ next.current = new /\ next.previous = previous /\ next.attempt = attempts'
  BY <1>1, <1>2, SMT DEF Receipt
<1> HIDE DEF next
<1>4. /\ txn' \in TxnType /\ txn'.by = u /\ txn'.pc = "journal" /\ txn'.next = next /\ txn'.prev = digest
  <2>1. txn \in TxnType
    BY TypeParts
  <2>2. txn' = [by |-> u, pc |-> "journal", next |-> next, prev |-> digest]
    BY <1>1, <2>1 DEF TxnType
  <2> QED BY <1>3, <2>2, SMT DEF TxnType, TxnPcs, Replacing
<1>5. receipt' = receipt /\ pending' = pending /\ command' = command /\ was' = was
  BY DEF files
<1>6. DiskOK'
  BY <1>2, <1>5, SMT DEF DiskOK
<1>7. next # None
  BY <1>3, NoneAssumption
<1>8. pending = None
  BY SMT DEF Progress
<1>9. Progress' /\ Found' /\ Previous'
  BY <1>4, <1>5, <1>8, SMT DEF Progress, Found, Previous, Consistent, Managed, Real
<1>10. \A n \in 1..MaxAttempt : \A p \in Packages : Said(n, p)' => Said(n, p) \/ (n = attempts' /\ p = new)
  BY <1>3, <1>4, <1>5, SMT DEF Said
<1>11. Attested'
  BY <1>1, <1>10, NamedKeeps
<1> QED BY <1>3, <1>4, <1>6, <1>7, <1>9, <1>11

\* An update replaces the command, or a rejected one is taken back.
LEMMA ReplacesKeeps ==
  ASSUME IInv, NEW u \in Updaters, txn.by = u, txn.pc = "status", upd[u].pc \in {"install", "revert"},
         NEW new \in Packages, NEW previous, NEW digest \in Packages \union {Absent},
         previous = (IF digest = Absent THEN None ELSE digest), Replaces(new, previous, digest),
         command = digest, digest = Absent => receipt = None,
         upd[u].pc = "install" => new = upd[u].want, upd[u].pc = "revert" => digest = upd[u].want,
         UNCHANGED <<command, pending, was, plan, sup, tries, outside, refreshes, deaths>>
  PROVE  IInv'
<1> USE DEF IInv
<1>1. upd' = upd /\ UNCHANGED files /\ Replacement(new, previous, digest)
  BY DEF Replaces, files
<1>2. /\ DiskOK' /\ Progress' /\ Found' /\ Previous' /\ Attested'
      /\ txn' \in TxnType /\ txn'.by = u /\ txn'.pc = "journal" /\ txn'.prev = digest /\ txn'.next # None
      /\ txn'.next.current = new /\ txn'.next.previous = previous
  BY <1>1, Decides
<1>3. TypeOK'
  BY <1>1, <1>2, TypeParts, TypePartsNext DEF PlanOK, CountsOK
<1>4. u # None
  BY UpdateAssumption
<1>5. Locked'
  BY <1>1, <1>2, <1>4, SMT DEF Locked, Replacing, Locks
<1>6. Applying' /\ Origin'
  BY <1>1 DEF Applying, Origin
<1> QED BY <1>2, <1>3, <1>5, <1>6

\* An installation joins the attempt that installed its package, under a new name when
\* that package gets another source.
LEMMA JoinsKeeps ==
  ASSUME IInv, NEW u \in Updaters, txn.by = u, txn.pc = "status", upd[u].pc = "install", Joins(u),
         UNCHANGED <<command, pending, was, plan, sup, tries, outside, refreshes, deaths>>
  PROVE  IInv'
<1> USE DEF IInv
<1>1. /\ Managed /\ receipt.current = upd[u].want /\ txn' = Unlocked
      /\ Installs(u, receipt'.attempt, receipt.previous)
  BY DEF Joins
<1>2. /\ upd[u].want \in Packages /\ upd[u].plan \in Plans /\ upd[u].want = plan[upd[u].plan].want
      /\ upd[u].attempt = 0 /\ plan[upd[u].plan].st # "none"
  BY Holds, SMT DEF Applying
<1>3. /\ receipt \in Receipt /\ receipt.previous \in Packages \union {None} /\ receipt # None
      /\ receipt.attempt \in 1..MaxAttempt /\ receipt.current \in Packages
  BY <1>1, Fields, Receipts DEF Managed
<1>4. pending = None
  BY SMT DEF Progress
<1>5. /\ receipt' \in Receipt /\ receipt'.current = receipt.current
      /\ receipt'.previous = receipt.previous /\ attempts' \in 0..MaxAttempt
  <2>1. CASE UNCHANGED <<attempts, receipt>>
    BY <1>3, <2>1, TypeParts DEF DiskOK
  <2>2. CASE Named /\ receipt' = [receipt EXCEPT !.attempt = attempts']
    <3>1. attempts' \in 1..MaxAttempt
      BY <2>2, TypeParts, UpdateAssumption DEF DiskOK, Named
    <3> QED BY <1>3, <2>2, <3>1, SMT DEF Receipt
  <2> QED BY <2>1, <2>2 DEF Joins
<1>6. receipt' # None /\ receipt'.attempt \in 0..MaxAttempt /\ receipt'.attempt # 0
  BY <1>5, Receipts
<1>7. /\ upd' \in [Updaters -> UpdType] /\ SamePlan(upd, upd', u)
      /\ upd'[u].attempt = receipt'.attempt /\ upd'[u].pc \in {"record", "activate"}
  BY <1>1, <1>3, <1>6, Learns
<1>8. txn' \in TxnType /\ txn'.by = None /\ txn'.pc = "free" /\ txn'.next = None
  BY <1>1, Nothing
<1>9. TypeOK'
  <2>1. DiskOK'
    BY <1>4, <1>5, TypeParts, SMT DEF DiskOK
  <2> QED BY <1>7, <1>8, <2>1, TypeParts, TypePartsNext DEF PlanOK, CountsOK
<1>10. Locked'
  BY <1>1, <1>8, SMT DEF Locked, Replacing
<1>11. Progress' /\ Found' /\ Previous'
  BY <1>1, <1>3, <1>4, <1>5, <1>6, <1>8, SMT DEF Progress, Found, Previous, Consistent, Managed, Real
<1>12. Attested'
  <2>1. ASSUME NEW n \in 1..MaxAttempt, NEW p \in Packages, Said(n, p)'
        PROVE  Said(n, p) \/ (n = receipt'.attempt /\ p = receipt.current)
    <3>1. ASSUME NEW v \in Updaters, upd'[v].attempt # 0, n = upd'[v].attempt, p = upd'[v].want
          PROVE  Said(n, p) \/ (n = receipt'.attempt /\ p = receipt.current)
      <4>1. CASE v = u
        BY <1>1, <1>7, <3>1, <4>1 DEF SamePlan
      <4>2. CASE v # u
        BY <1>7, <3>1, <4>2 DEF Said, SamePlan
      <4> QED BY <4>1, <4>2
    <3> QED BY <1>4, <1>5, <1>8, <2>1, <3>1 DEF Said
  <2>2. CASE UNCHANGED <<attempts, receipt>>
    BY <1>3, <2>1, <2>2, SaidBefore DEF Said
  <2>3. CASE Named /\ receipt' = [receipt EXCEPT !.attempt = attempts']
    <3>1. receipt'.attempt = attempts'
      BY <1>3, <2>3 DEF Receipt
    <3> QED BY <1>3, <2>1, <2>3, <3>1, NamedKeeps
  <2> QED BY <2>2, <2>3 DEF Joins
<1>13. Applying'
  BY <1>2, <1>6, <1>7, SMT DEF Applying, SamePlan
<1>14. Origin'
  BY <1>7, SMT DEF Origin, SamePlan
<1> QED BY <1>9, <1>10, <1>11, <1>12, <1>13, <1>14

\* An installation joins, replaces, adopts or refuses.
LEMMA InstallKeeps == ASSUME IInv, NEW u \in Updaters, Install(u) PROVE IInv'
<1> USE DEF IInv
<1>1. /\ txn.by = u /\ txn.pc = "status" /\ upd[u].pc = "install"
      /\ UNCHANGED <<command, pending, was, plan, sup, tries, outside, refreshes, deaths>>
  BY DEF Install
<1>2. upd[u].want \in Packages
  BY <1>1, Holds
<1>3. Managed => receipt.current \in Packages
  BY Fields, Receipts DEF Managed
<1>4. Absent \notin Packages /\ None \notin Packages
  BY UpdateAssumption
<1>5. ASSUME Joins(u) PROVE IInv'
  BY <1>1, <1>5, JoinsKeeps
<1>6. ASSUME Managed, Replaces(upd[u].want, receipt.current, receipt.current) PROVE IInv'
  <2>1. receipt.current # Absent /\ command = receipt.current
    BY <1>3, <1>4, <1>6 DEF Managed
  <2> QED BY <1>1, <1>2, <1>3, <1>6, <2>1, ReplacesKeeps
<1>7. ASSUME receipt = None, command = Absent, Replaces(upd[u].want, None, Absent) PROVE IInv'
  BY <1>1, <1>2, <1>7, ReplacesKeeps
<1>8. ASSUME receipt = None, command \in Packages, Replaces(upd[u].want, command, command) PROVE IInv'
  <2>1. command # Absent
    BY <1>4, <1>8
  <2> QED BY <1>1, <1>2, <1>8, <2>1, ReplacesKeeps
<1>9. ASSUME Ends(u), UNCHANGED <<attempts, receipt>> PROVE IInv'
  BY <1>1, <1>9, ErrorKeeps DEF files
<1> QED BY <1>5, <1>6, <1>7, <1>8, <1>9 DEF Install

\* A direct command asks for the package kept by the receipt, which becomes its own.
LEMMA RollbackKeeps == ASSUME IInv, NEW u \in Updaters, Rollback(u) PROVE IInv'
<1> USE DEF IInv
<1>1. /\ txn.by = u /\ txn.pc = "status" /\ upd[u].pc = "rollback" /\ u # None
      /\ UNCHANGED <<files, sup, tries, outside, refreshes, deaths>>
  BY Holds DEF Rollback
<1>2. ASSUME Ends(u), UNCHANGED <<attempts, plan>> PROVE IInv'
  BY <1>1, <1>2, ErrorKeeps
<1> DEFINE new == receipt.previous
           old == receipt.current
           k == upd[u].plan
<1>3. ASSUME Managed, new # None, Replacement(new, old, old),
             upd' = [upd EXCEPT ![u].pc = "install", ![u].want = new], plan' = [plan EXCEPT ![k].want = new]
      PROVE  IInv'
  <2>1. new \in Packages /\ old \in Packages /\ old # Absent /\ command = old
    BY <1>3, Fields, Receipts, UpdateAssumption DEF Managed
  <2>2. k \in Plans /\ plan[k].st = "command" /\ upd[u].attempt = 0
    BY <1>1, SMT DEF Applying
  <2>3. /\ upd' \in [Updaters -> UpdType] /\ \A v \in Updaters \ {u} : upd'[v] = upd[v]
        /\ upd'[u].pc = "install" /\ upd'[u].want = new /\ upd'[u].plan = k /\ upd'[u].attempt = 0
    <3>1. upd \in [Updaters -> UpdType]
      BY TypeParts
    <3>2. upd'[u] = [pc |-> "install", plan |-> k, want |-> new, before |-> upd[u].before,
                     attempt |-> upd[u].attempt, prior |-> upd[u].prior, rejected |-> upd[u].rejected]
      BY <1>3, <3>1 DEF UpdType
    <3>3. upd[u] \in UpdType /\ "install" \in UpdPcs
      BY <3>1 DEF UpdPcs
    <3>4. upd'[u] \in UpdType
      BY <2>1, <3>2, <3>3 DEF UpdType
    <3>5. (\A v \in Updaters \ {u} : upd'[v] = upd[v]) /\ upd' = [upd EXCEPT ![u] = upd'[u]]
      BY <1>3, <3>1
    <3> QED BY <2>2, <3>1, <3>2, <3>4, <3>5
  <2>4. /\ PlanOK' /\ \A j \in Plans : j # k => plan'[j] = plan[j]
        /\ plan'[k].st = "command" /\ plan'[k].want = new
    BY <1>1, <1>3, <2>1, <2>2, TypeParts, SMT DEF PlanOK, PlanType
  <2>5. /\ DiskOK' /\ Progress' /\ Found' /\ Previous' /\ Attested'
        /\ txn' \in TxnType /\ txn'.by = u /\ txn'.pc = "journal" /\ txn'.prev = old /\ txn'.next # None
        /\ txn'.next.current = new /\ txn'.next.previous = old
    <3>1. \A v \in Updaters : upd'[v].attempt # 0 => upd'[v].attempt = upd[v].attempt /\ upd'[v].want = upd[v].want
      BY <2>3
    <3> HIDE DEF new, old
    <3> QED BY <1>1, <1>3, <2>1, <3>1, Decides
  <2>6. TypeOK'
    BY <1>1, <2>3, <2>4, <2>5, TypeParts, TypePartsNext DEF CountsOK
  <2>7. Locked'
    BY <1>1, <2>1, <2>3, <2>5, SMT DEF Locked, Replacing, Locks
  <2>8. Applying'
    <3>1. new # None /\ tries' = tries
      BY <1>1, <1>3
    <3>2. \A v \in Updaters : v # u => upd[v].plan # k
      BY <2>2 DEF Applying
    <3> HIDE DEF new, k
    <3> QED BY <2>1, <2>2, <2>3, <2>4, <3>1, <3>2, SMT DEF Applying
  <2>9. Origin'
    <3>1. sup.runs \in Packages /\ None \notin Packages /\ plan[k].want = None /\ k # None
      BY <1>1, <2>2, TypeParts, SupFields, UpdateAssumption DEF Applying
    <3>2. sup.by # k /\ sup.from # k
      BY <3>1 DEF Origin
    <3>3. sup.by \in Plans \union {None} /\ sup.from \in Plans \union {None}
      BY TypeParts, SupFields
    <3> HIDE DEF new, k
    <3> QED BY <1>1, <2>3, <2>4, <3>2, <3>3, SMT DEF Origin
  <2> QED BY <2>5, <2>6, <2>7, <2>8, <2>9
<1> QED BY <1>2, <1>3 DEF Rollback

\* What is taken back is what this updater installed: its attempt is the receipt's.
LEMMA RestoreKeeps == ASSUME IInv, NEW u \in Updaters, Restore(u) PROVE IInv'
<1> USE DEF IInv
<1>1. /\ txn.by = u /\ txn.pc = "status" /\ upd[u].pc = "revert"
      /\ UNCHANGED <<command, pending, was, plan, sup, tries, outside, refreshes, deaths>>
  BY DEF Restore
<1>2. ASSUME MayRestore(u), Replaces(receipt.previous, receipt.current, receipt.current) PROVE IInv'
  <2>1. receipt # None /\ command = receipt.current /\ receipt.attempt = upd[u].attempt /\ receipt.previous # None
    BY <1>2 DEF MayRestore, Managed, OwnAttempt
  <2>2. /\ receipt.current \in Packages /\ receipt.previous \in Packages
        /\ receipt.attempt \in 1..MaxAttempt
    BY <2>1, Fields, Receipts
  <2>3. upd[u].want \in Packages /\ upd[u].attempt # 0
    BY <1>1, Holds, SMT DEF Applying
  <2>4. Said(receipt.attempt, receipt.current) /\ Said(receipt.attempt, upd[u].want)
    BY <2>1, <2>3 DEF Said
  <2>5. receipt.current = upd[u].want
    BY <2>2, <2>3, <2>4 DEF Attested
  <2>6. receipt.current # Absent
    BY <2>2, UpdateAssumption
  <2> QED BY <1>1, <1>2, <2>1, <2>2, <2>5, <2>6, ReplacesKeeps
<1>3. ASSUME Ends(u), UNCHANGED <<attempts, receipt>> PROVE IInv'
  BY <1>1, <1>3, ErrorKeeps DEF files
<1> QED BY <1>2, <1>3 DEF Restore

\* The end of a replacement.
LEMMA ClearKeeps == ASSUME IInv, NEW u \in Updaters, Clear(u) PROVE IInv'
<1> USE DEF IInv
<1>1. /\ txn.by = u /\ txn.pc = "clear" /\ pending' = None /\ txn' = Unlocked
      /\ UNCHANGED <<command, receipt, was, sup, attempts, tries, outside, refreshes, deaths>>
  BY DEF Clear
<1>2. /\ receipt = txn.next /\ (outside = 0 => command = txn.next.current) /\ txn.next # None
      /\ upd[u].pc \in {"install", "revert"} /\ (upd[u].pc = "install" => txn.next.current = upd[u].want)
  BY <1>1, SMT DEF Progress, Locked, Replacing
<1>3. /\ txn.next \in Receipt /\ txn.next.attempt \in 1..MaxAttempt
      /\ txn.next.previous \in Packages \union {None}
  BY <1>2, Fields, Receipts
<1>4. upd[u].want \in Packages /\ upd[u].plan \in Plans /\ upd[u].want = plan[upd[u].plan].want
  BY <1>1, <1>2, Holds
<1>5. txn' \in TxnType /\ txn'.by = None /\ txn'.pc = "free" /\ txn'.next = None
  BY <1>1, Nothing
<1>6. DiskOK'
  BY <1>1, TypeParts, SMT DEF DiskOK
<1>7. Locked'
  BY <1>1, <1>5, SMT DEF Locked, Replacing
<1>8. Consistent' \/ outside' # 0
  BY <1>1, <1>2 DEF Consistent, Managed
<1>9. Real(txn.next)
  BY <1>1, SMT DEF Previous
<1>10. Progress' /\ Found' /\ Previous'
  BY <1>1, <1>2, <1>5, <1>8, <1>9, SMT DEF Progress, Found, Previous, Real
<1>11. CASE upd[u].pc = "install"
  <2>1. Installs(u, txn.next.attempt, txn.next.previous) /\ plan' = plan
    BY <1>11 DEF Clear
  <2>2. txn.next.attempt \in 0..MaxAttempt /\ txn.next.attempt # 0
    BY <1>3
  <2>3. /\ upd' \in [Updaters -> UpdType] /\ SamePlan(upd, upd', u)
        /\ upd'[u].attempt = txn.next.attempt /\ upd'[u].pc \in {"record", "activate"}
    BY <1>3, <2>1, <2>2, Learns
  <2>4. TypeOK'
    BY <1>1, <1>5, <1>6, <2>1, <2>3, TypeParts, TypePartsNext DEF PlanOK, CountsOK
  <2>5. Attested'
    <3>1. ASSUME NEW n \in 1..MaxAttempt, NEW p \in Packages, Said(n, p)' PROVE Said(n, p)
      <4>1. upd'[u].want = upd[u].want /\ \A v \in Updaters \ {u} : upd'[v] = upd[v]
        BY <2>3 DEF SamePlan
      <4>2. ASSUME NEW v \in Updaters, upd'[v].attempt # 0, n = upd'[v].attempt, p = upd'[v].want
            PROVE  Said(n, p)
        <5>1. CASE v = u
          BY <1>2, <1>11, <2>3, <4>1, <4>2, <5>1 DEF Said
        <5>2. CASE v # u
          BY <4>1, <4>2, <5>2 DEF Said
        <5> QED BY <5>1, <5>2
      <4> QED BY <1>1, <1>5, <3>1, <4>2 DEF Said
    <3> QED BY <1>1, <3>1, SaidBefore
  <2>6. Applying'
    <3>1. upd[u].attempt = 0 /\ upd[u].pc # "gone"
      BY <1>11, SMT DEF Applying
    <3>2. \A v \in Updaters : upd'[v].plan = upd[v].plan /\ upd'[v].want = upd[v].want
      BY <2>3 DEF SamePlan
    <3>3. \A v \in Updaters : v # u => upd'[v] = upd[v]
      BY <2>3 DEF SamePlan
    <3>4. plan[upd[u].plan].st # "none"
      BY <1>11, SMT DEF Applying
    <3>5. /\ upd'[u].plan \in Plans /\ upd'[u].want \in Packages
          /\ upd'[u].want = plan[upd'[u].plan].want /\ plan[upd'[u].plan].st # "none"
          /\ upd'[u].pc \in {"record", "activate"} /\ upd'[u].attempt # 0
      BY <1>4, <2>2, <2>3, <3>2, <3>4
    <3>6. tries' = tries /\ plan' = plan
      BY <1>1, <2>1
    <3> QED BY <3>2, <3>3, <3>5, <3>6, SMT DEF Applying
  <2>7. Origin'
    BY <1>1, <2>1, <2>3, SMT DEF Origin, SamePlan
  <2> QED BY <1>7, <1>10, <2>4, <2>5, <2>6, <2>7
<1>12. CASE upd[u].pc = "revert"
  <2>1. upd' = [upd EXCEPT ![u] = Gone] /\ Settles(upd[u].plan)
    BY <1>12 DEF Clear
  <2>2. /\ upd'[u] = Gone /\ \A v \in Updaters \ {u} : upd'[v] = upd[v]
        /\ upd' \in [Updaters -> UpdType]
    BY <2>1, Nothing, TypeParts
  <2>3. /\ plan' \in [Plans -> PlanType]
        /\ \A k \in Plans : k # upd[u].plan => plan'[k] = plan[k]
        /\ \A k \in Plans : /\ plan'[k].want = plan[k].want
                            /\ (plan'[k].st = plan[k].st \/ (plan[k].st = "applying" /\ plan'[k].st = "done"))
    BY <1>4, <2>1, Settling
  <2>4. TypeOK'
    BY <1>1, <1>5, <1>6, <2>2, <2>3, TypeParts, TypePartsNext DEF PlanOK, CountsOK
  <2>5. Attested'
    <3>1. \A n \in 1..MaxAttempt : \A p \in Packages : Said(n, p)' => Said(n, p)
      BY <1>1, <1>5, <2>2, Nothing, SMT DEF Said
    <3> QED BY <1>1, <3>1, SaidBefore
  <2>6. Applying'
    BY <1>1, <1>4, <1>12, <2>2, <2>3, Nothing, UpdateAssumption, Fields, SMT DEF Applying
  <2>7. Origin'
    BY <1>1, <1>4, <2>2, <2>3, Nothing, TypeParts, SMT DEF Origin, SupType, Applying
  <2> QED BY <1>7, <1>10, <2>4, <2>5, <2>6, <2>7
<1> QED BY <1>2, <1>11, <1>12

(***************************************************************************)
(* The specification.                                                      *)
(***************************************************************************)

\* The invariant holds at first.
LEMMA InitHolds == Init => IInv
<1> SUFFICES ASSUME Init PROVE IInv
  OBVIOUS
<1>1. /\ command \in {Absent, Old} /\ receipt = None /\ pending = None /\ was = None
      /\ txn = Unlocked /\ attempts = 0 /\ outside = 0 /\ refreshes = 0 /\ deaths = 0
      /\ plan = [k \in Plans |-> [st |-> "none", want |-> None, before |-> None]]
      /\ tries = [k \in Plans |-> 0] /\ upd = [u \in Updaters |-> Gone]
  BY DEF Init
<1>2. /\ sup = [alive |-> TRUE, epoch |-> 0, runs |-> Old, from |-> None,
                wanted |-> None, by |-> None, notice |-> "other"]
  BY DEF Init
<1>3. sup \in SupType /\ sup.by = None /\ sup.wanted = None /\ sup.from = None
  <2>1. TRUE \in Flag /\ 0 \in Nat /\ Old \in Packages
    BY UpdateAssumption, Zenon DEF Flag
  <2>2. sup \in SupType
    BY <1>2, <2>1, Zenon DEF SupType
  <2> QED BY <1>2, <2>2
<1>4. PlanOK
  <2>1. [st |-> "none", want |-> None, before |-> None] \in PlanType
    BY SMT DEF PlanType, Runtimes
  <2> QED BY <1>1, <2>1, SMT DEF PlanOK
<1>5. TypeOK
  <2>1. DiskOK /\ CountsOK
    BY <1>1, UpdateAssumption, SMT DEF DiskOK, CountsOK
  <2>2. upd \in [Updaters -> UpdType]
    BY <1>1, Nothing
  <2> QED BY <1>1, <1>3, <1>4, <2>1, <2>2, Nothing, TypeParts
<1>6. Locked /\ Progress /\ Found /\ Previous
  BY <1>1, Nothing, SMT DEF Locked, Progress, Found, Previous, Replacing, Consistent
<1>7. Attested
  BY <1>1, Nothing, SMT DEF Attested, Said
<1>8. Applying
  BY <1>1, Nothing, UpdateAssumption, SMT DEF Applying
<1>9. Origin
  BY <1>1, <1>3, Nothing, SMT DEF Origin
<1> QED BY <1>5, <1>6, <1>7, <1>8, <1>9 DEF IInv

\* Every step keeps it.
LEMMA NextKeeps == IInv /\ [Next]_vars => IInv'
<1> SUFFICES ASSUME IInv, [Next]_vars PROVE IInv'
  OBVIOUS
<1>1. CASE UNCHANGED vars
  BY <1>1 DEF vars, files, IInv, TypeOK, Locked, Progress, Found, Previous, Attested, Applying, Origin,
              Consistent, Managed, Real, Placed, Unplaced, Said
<1>2. ASSUME NEW u \in Updaters, Updater(u) PROVE IInv'
  BY <1>2, OpenPlanKeeps, CommandKeeps, BeginApplyKeeps, EndingsKeep, LockKeeps, RecoverKeeps, UnjournalKeeps,
     InstallKeeps, RollbackKeeps, RestoreKeeps, JournalKeeps, CheckKeeps, PlaceKeeps, WriteReceiptKeeps, ClearKeeps,
     WatchKeeps, AskKeeps, JudgeKeeps DEF Updater
<1>3. ASSUME NEW p \in Packages, ClientRefresh(p) \/ \E k \in Plans : Prepare(k, p) PROVE IInv'
  BY <1>3, ClientRefreshKeeps, PrepareKeeps
<1>4. CASE Outsider \/ ReplaceFails \/ Replace \/ OtherNotice \/ Stops \/ Starts
  BY <1>4, OutsiderKeeps, SupervisorKeeps
<1> QED BY <1>1, <1>2, <1>3, <1>4 DEF Next

\* The invariant holds always.
THEOREM Invariant == Spec => []IInv
<1>1. Init => IInv
  BY InitHolds
<1>2. IInv /\ [Next]_vars => IInv'
  BY NextKeeps
<1> QED BY <1>1, <1>2, PTL DEF Spec

\* Every variable keeps its type.
THEOREM TypeCorrect == Spec => []TypeOK
<1>1. IInv => TypeOK
  BY DEF IInv
<1> QED BY <1>1, Invariant, PTL

\* Wherever an updater dies, the next one can tell from the journal, the receipt and the
\* command what was done (replace, recover).
THEOREM DiskIsRecoverable == Spec => []Recoverable
<1>1. IInv => Recoverable
  BY SMT DEF IInv, Found, Consistent, Recoverable
<1> QED BY <1>1, Invariant, PTL

\* The package named for a rollback is what the command held before it was replaced, in
\* every receipt that no journal contradicts (install_checked, replace, recover).
THEOREM PreviousIsTrue == Spec => []PreviousIsReal
<1>1. IInv => PreviousIsReal
  BY SMT DEF IInv, Previous, Real, PreviousIsReal
<1> QED BY <1>1, Invariant, PTL

\* No plan begins to install twice (the lock of a plan and its status in execute).
THEOREM InstalledOnce == Spec => []PlanInstalledOnce
<1>1. IInv => PlanInstalledOnce
  BY DEF IInv, Applying, PlanInstalledOnce
<1> QED BY <1>1, Invariant, PTL

\* An updater takes back only the package it installed, and only while the supervisor does
\* not run it on this updater's behalf, if the packages' metadata tell them apart
\* (restore_rejected).
THEOREM OnlyRejectedReverted == Spec => []RevertsOnlyRejected
<1>1. IInv => RevertsOnlyRejected
  BY UpdateAssumption, SMT DEF IInv, Origin, Locked, RevertsOnlyRejected
<1> QED BY <1>1, Invariant, PTL
=============================================================================
