--------------------------- MODULE Dispatch_proofs ---------------------------
(***************************************************************************)
(* Proofs about Dispatch: its invariants, that phases never go back, and   *)
(* that it implements DispatchPromise, for all values of its constants.    *)
(***************************************************************************)
EXTENDS Dispatch, TLAPS

Launched == Launching \union Over
Store == [Ds -> Dispatched \union {None}]

\* Run r is a dispatched worker, or the host of one that has still to report.
Busy == {"born", "announce", "working", "report", "failing"}
IsWorker(r, t, h, c) == t[r].d # 0 /\ (h[r] \in Busy \/ c[r] = "alive")

(* What holds of the store in memory and of the store on disk.               *)

\* No two dispatches hold one workspace, share a request or a run.
Distinct(s) ==
  \A d, e \in Ds : (d # e /\ s[d] # None /\ s[e] # None) =>
    /\ s[d].key # s[e].key
    /\ (Holds(s[d]) /\ Holds(s[e])) => s[d].ws # s[e].ws
    /\ s[d].run # 0 => s[d].run # s[e].run

\* A run was given to a launched dispatch, and its tab, if any, names it.
Given(s, t, n) ==
  \A d \in Ds : (s[d] # None /\ s[d].run # 0) =>
    /\ s[d].run <= n /\ s[d].phase \in Launched
    /\ t[s[d].run].ws = None \/ t[s[d].run].d = d

\* A worker's dispatch holds the workspace of its tab.
Held(s, t, h, c) ==
  \A r \in RunIds : IsWorker(r, t, h, c) =>
    /\ s[t[r].d] # None /\ s[t[r].d].run = r
    /\ s[t[r].d].ws = t[r].ws /\ s[t[r].d].phase \in Launching

\* A dispatch that was started once is recorded as launched.
Recorded(s, sp) ==
  \A d \in Ds : sp[d] # 0 => s[d] # None /\ s[d].phase \in Launched

\* A refusal that was reported is recorded.
Refused(s, rf) ==
  \A d \in rf : s[d] # None /\ s[d].phase \in {"blocked", "cancelled"}

Replied(s, rp) == \A x \in rp : s[x[2]] # None /\ s[x[2]].key = x[1]

Acked(s, t, ak) ==
  \A d \in Ds : \A r \in ak[d] :
    /\ t[r].d = d /\ s[d] # None /\ s[d].run = r
    /\ s[d].surfaced /\ s[d].acked

Good(s, t, h, c, n, sp, rf, rp, ak) ==
  /\ s \in Store /\ Distinct(s) /\ Given(s, t, n) /\ Held(s, t, h, c)
  /\ Recorded(s, sp) /\ Refused(s, rf) /\ Replied(s, rp) /\ Acked(s, t, ak)

\* Store q is store s or comes after it.
Advances(s, q) ==
  \A d \in Ds : s[d] # None =>
    /\ q[d] # None /\ q[d].key = s[d].key /\ q[d].ws = s[d].ws
    /\ Follows(s[d].phase, q[d].phase)
    /\ s[d].run # 0 => q[d].run = s[d].run
    /\ s[d].surfaced => q[d].surfaced
    /\ s[d].acked => q[d].acked

\* What a host reports is true of its child, and unused runs have neither.
Honest(t, h, c, n) ==
  \A r \in RunIds :
    /\ h[r] = "report" => c[r] = "over"
    /\ h[r] \in {"none", "born", "failing"} => c[r] = "none"
    /\ r > n => t[r].ws = None
    /\ t[r].ws = None => h[r] = "none" /\ t[r].d = 0 /\ ~t[r].open

\* While start_worker runs, its reservation is in memory and, before the spawn, on
\* disk, and nothing else can run in the workspace.
Starting ==
  /\ srv.pc # "idle" =>
       /\ srv.d \in Ds /\ srv.run \in 1..runs
       /\ ds[srv.d] # None /\ ds[srv.d].phase = "reserved"
  /\ srv.pc = "spawn" =>
       /\ diskDs = ds /\ ds[srv.d].run = srv.run /\ spawns[srv.d] = 0
       /\ tab[srv.run].ws = None
       /\ \A r \in RunIds : IsWorker(r, tab, host, child) => tab[r].ws # ds[srv.d].ws

\* What the invariant adds to the types.
Safe ==
  /\ \A d \in Ds : spawns[d] \in {0, 1}
  /\ Good(ds, tab, host, child, runs, spawns, refused, replies, acker)
  /\ Good(diskDs, tab, host, child, runs, spawns, refused, replies, acker)
  /\ Advances(ds, diskDs) /\ Honest(tab, host, child, runs) /\ Starting

IInv == TypeOK /\ Safe

----------------------------------------------------------------------------
(* Lemmas about stores.                                                      *)

Tabs == [RunIds -> [ws : Works \union {None}, d : 0..MaxDispatch,
                    native : BOOLEAN, open : BOOLEAN]]

\* Closing a tab, or returning it to a shell, keeps what it was opened for.
LEMMA TabFlags ==
  ASSUME NEW t \in Tabs, NEW r \in RunIds
  PROVE  /\ [t[r] EXCEPT !.open = FALSE] \in [ws : Works \union {None}, d : 0..MaxDispatch,
                                             native : BOOLEAN, open : BOOLEAN]
         /\ [t[r] EXCEPT !.open = FALSE].d = t[r].d
         /\ [t[r] EXCEPT !.open = FALSE].ws = t[r].ws
         /\ [t[r] EXCEPT !.open = FALSE].open = FALSE
         /\ [t EXCEPT ![r].open = FALSE] = [t EXCEPT ![r] = [t[r] EXCEPT !.open = FALSE]]
         /\ [t EXCEPT ![r].open = FALSE] \in Tabs
         /\ [t EXCEPT ![r].native = FALSE] \in Tabs
         /\ [t EXCEPT ![r].native = FALSE] = [t EXCEPT ![r] = [t[r] EXCEPT !.native = FALSE]]
         /\ [t[r] EXCEPT !.native = FALSE].d = t[r].d
         /\ [t[r] EXCEPT !.native = FALSE].ws = t[r].ws
         /\ [t[r] EXCEPT !.native = FALSE].open = t[r].open
<1> DEFINE R == [ws : Works \union {None}, d : 0..MaxDispatch, native : BOOLEAN, open : BOOLEAN]
<1>1. t[r] \in R
  BY DEF Tabs
<1>2. /\ [t[r] EXCEPT !.open = FALSE] \in R /\ [t[r] EXCEPT !.native = FALSE] \in R
  BY <1>1
<1>3. \A x \in R : [t EXCEPT ![r] = x] \in Tabs
  BY DEF Tabs
<1>4. [t EXCEPT ![r].open = FALSE] = [t EXCEPT ![r] = [t[r] EXCEPT !.open = FALSE]]
  OBVIOUS
<1>5. [t EXCEPT ![r].native = FALSE] = [t EXCEPT ![r] = [t[r] EXCEPT !.native = FALSE]]
  OBVIOUS
<1>7. /\ [t[r] EXCEPT !.open = FALSE].d = t[r].d
      /\ [t[r] EXCEPT !.open = FALSE].ws = t[r].ws
      /\ [t[r] EXCEPT !.open = FALSE].open = FALSE
      /\ [t[r] EXCEPT !.native = FALSE].d = t[r].d
      /\ [t[r] EXCEPT !.native = FALSE].ws = t[r].ws
      /\ [t[r] EXCEPT !.native = FALSE].open = t[r].open
  BY <1>1
<1>8. [t EXCEPT ![r].open = FALSE] \in Tabs /\ [t EXCEPT ![r].native = FALSE] \in Tabs
  BY <1>2, <1>3, <1>4, <1>5
<1> QED BY <1>2, <1>4, <1>5, <1>7, <1>8

\* A store stays good when workers end, tabs close and runs are given out.
LEMMA Fewer ==
  ASSUME NEW s, NEW t \in Tabs, NEW h, NEW c, NEW n \in Nat, NEW sp, NEW rf, NEW rp, NEW ak,
         NEW t2 \in Tabs, NEW h2, NEW c2, NEW n2 \in Nat,
         Good(s, t, h, c, n, sp, rf, rp, ak), n <= n2, ak \in [Ds -> SUBSET RunIds],
         \A r \in RunIds :
           /\ t2[r].d = t[r].d
           /\ IsWorker(r, t2, h2, c2) => IsWorker(r, t, h, c) /\ t2[r].ws = t[r].ws
           /\ (r <= n /\ t[r].ws = None) => t2[r].ws = None
  PROVE  Good(s, t2, h2, c2, n2, sp, rf, rp, ak)
<1> USE DispatchAssumption
<1>1. \A d \in Ds : s[d] # None => s[d].run \in 0..MaxRun
  BY NoDispatchAssumption DEF Good, Store, Dispatched
<1>2. Given(s, t2, n2)
  <2> SUFFICES ASSUME NEW d \in Ds, s[d] # None, s[d].run # 0
               PROVE  /\ s[d].run <= n2 /\ s[d].phase \in Launched
                      /\ t2[s[d].run].ws = None \/ t2[s[d].run].d = d
    BY DEF Given
  <2>1. s[d].run \in RunIds /\ s[d].run <= n /\ s[d].run <= n2
    BY <1>1 DEF Good, Given, RunIds
  <2>2. t[s[d].run].ws = None \/ t[s[d].run].d = d
    BY DEF Good, Given
  <2>3. s[d].phase \in Launched
    BY DEF Good, Given
  <2> QED BY <2>1, <2>2, <2>3
<1>3. Held(s, t2, h2, c2)
  BY DEF Good, Held
<1>4. Acked(s, t2, ak)
  BY DEF Good, Acked
<1> QED BY <1>2, <1>3, <1>4 DEF Good

\* A store stays good when one dispatch changes as the supervisor changes it.
LEMMA Amended ==
  ASSUME NEW s, NEW t \in Tabs, NEW h, NEW c, NEW n \in Nat, NEW sp, NEW rf, NEW rp, NEW ak,
         Good(s, t, h, c, n, sp, rf, rp, ak), ak \in [Ds -> SUBSET RunIds],
         rf \subseteq Ds, rp \subseteq Keys \X Ds, sp \in [Ds -> Nat],
         NEW d \in Ds, s[d] # None, NEW e \in Dispatched,
         e.key = s[d].key, e.ws = s[d].ws,
         Holds(e) => Holds(s[d]),
         e.run # 0 => e.phase \in Launched,
         \/ e.run = s[d].run
         \/ /\ s[d].run = 0 /\ e.run = n /\ t[n].ws = None
            /\ \A k \in Ds : s[k] # None => s[k].run # n,
         \A r \in RunIds : (IsWorker(r, t, h, c) /\ t[r].d = d) => e.phase \in Launching,
         sp[d] # 0 => e.phase \in Launched,
         d \in rf => e.phase \in {"blocked", "cancelled"},
         s[d].surfaced => e.surfaced, s[d].acked => e.acked
  PROVE  Good([s EXCEPT ![d] = e], t, h, c, n, sp, rf, rp, ak)
<1> DEFINE q == [s EXCEPT ![d] = e]
<1>1. e # None
  BY NoDispatchAssumption
<1>2. q \in Store /\ q[d] = e /\ \A k \in Ds \ {d} : q[k] = s[k]
  BY DEF Good, Store
<1> HIDE DEF q
<1>3. Distinct(q)
  <2> SUFFICES ASSUME NEW a \in Ds, NEW b \in Ds, a # b, q[a] # None, q[b] # None
               PROVE  /\ q[a].key # q[b].key
                      /\ (Holds(q[a]) /\ Holds(q[b])) => q[a].ws # q[b].ws
                      /\ q[a].run # 0 => q[a].run # q[b].run
    BY DEF Distinct
  <2>1. s[a] # None /\ s[b] # None
    BY <1>2
  <2>2. /\ s[a].key # s[b].key
        /\ (Holds(s[a]) /\ Holds(s[b])) => s[a].ws # s[b].ws
        /\ s[a].run # 0 => s[a].run # s[b].run
        /\ s[b].run # 0 => s[b].run # s[a].run
    BY <2>1 DEF Good, Distinct
  <2>3. CASE a = d
    BY <1>2, <2>1, <2>2, <2>3
  <2>4. CASE b = d
    BY <1>2, <2>1, <2>2, <2>4
  <2>5. CASE a # d /\ b # d
    BY <1>2, <2>2, <2>5
  <2> QED BY <2>3, <2>4, <2>5
<1>4. Given(q, t, n)
  <2> SUFFICES ASSUME NEW k \in Ds, q[k] # None, q[k].run # 0
               PROVE  /\ q[k].run <= n /\ q[k].phase \in Launched
                      /\ t[q[k].run].ws = None \/ t[q[k].run].d = k
    BY DEF Given
  <2>1. CASE k = d
    BY <1>2, <2>1 DEF Good, Given
  <2>2. CASE k # d
    BY <1>2, <2>2 DEF Good, Given
  <2> QED BY <2>1, <2>2
<1>5. Held(q, t, h, c)
  <2> SUFFICES ASSUME NEW r \in RunIds, IsWorker(r, t, h, c)
               PROVE  /\ q[t[r].d] # None /\ q[t[r].d].run = r
                      /\ q[t[r].d].ws = t[r].ws /\ q[t[r].d].phase \in Launching
    BY DEF Held
  <2>1. t[r].d \in Ds
    BY DEF Tabs, IsWorker, Ds
  <2>2. /\ s[t[r].d] # None /\ s[t[r].d].run = r
        /\ s[t[r].d].ws = t[r].ws /\ s[t[r].d].phase \in Launching
    BY DEF Good, Held
  <2>3. r # 0
    BY DEF RunIds
  <2> QED BY <1>1, <1>2, <2>1, <2>2, <2>3
<1>6. Recorded(q, sp) /\ Refused(q, rf)
  BY <1>1, <1>2 DEF Good, Recorded, Refused
<1>7. Replied(q, rp)
  <2> SUFFICES ASSUME NEW x \in rp PROVE q[x[2]] # None /\ q[x[2]].key = x[1]
    BY DEF Replied
  <2>1. x[2] \in Ds
    OBVIOUS
  <2> QED BY <1>1, <1>2, <2>1 DEF Good, Replied
<1>8. Acked(q, t, ak)
  <2> SUFFICES ASSUME NEW k \in Ds, NEW r \in ak[k]
               PROVE  /\ t[r].d = k /\ q[k] # None /\ q[k].run = r
                      /\ q[k].surfaced /\ q[k].acked
    BY DEF Acked
  <2>1. r # 0
    BY DEF RunIds
  <2>2. /\ t[r].d = k /\ s[k] # None /\ s[k].run = r
        /\ s[k].surfaced /\ s[k].acked
    BY DEF Good, Acked
  <2> QED BY <1>1, <1>2, <2>1, <2>2
<1> QED BY <1>2, <1>3, <1>4, <1>5, <1>6, <1>7, <1>8 DEF Good, q

\* A store that changed one dispatch forward comes after the old one.
LEMMA Forward ==
  ASSUME NEW s \in Store, NEW d \in Ds, s[d] # None, NEW e \in Dispatched,
         e.key = s[d].key, e.ws = s[d].ws, Follows(s[d].phase, e.phase),
         s[d].run # 0 => e.run = s[d].run,
         s[d].surfaced => e.surfaced, s[d].acked => e.acked
  PROVE  Advances(s, [s EXCEPT ![d] = e])
<1>1. e # None
  BY NoDispatchAssumption
<1> QED BY <1>1 DEF Advances, Store, Follows

\* A store comes after itself.
LEMMA AdvancesToItself ==
  ASSUME NEW s \in Store PROVE Advances(s, s)
BY DEF Advances, Follows

----------------------------------------------------------------------------
(* Every variable keeps its type.                                            *)

\* A changed dispatch is a dispatch.
LEMMA ChangedType ==
  ASSUME NEW s \in Store, NEW d \in Ds, s[d] # None
  PROVE  /\ \A p \in Unlaunched \union Launched :
              /\ [s[d] EXCEPT !.phase = p] \in Dispatched
              /\ [s EXCEPT ![d].phase = p] = [s EXCEPT ![d] = [s[d] EXCEPT !.phase = p]]
              /\ [s EXCEPT ![d].phase = p] \in Store
              /\ \A r \in RunIds :
                   /\ [s[d] EXCEPT !.phase = p, !.run = r] \in Dispatched
                   /\ [s EXCEPT ![d].phase = p, ![d].run = r]
                        = [s EXCEPT ![d] = [s[d] EXCEPT !.phase = p, !.run = r]]
                   /\ [s EXCEPT ![d].phase = p, ![d].run = r] \in Store
         /\ [s[d] EXCEPT !.surfaced = TRUE] \in Dispatched
         /\ [s EXCEPT ![d].surfaced = TRUE] = [s EXCEPT ![d] = [s[d] EXCEPT !.surfaced = TRUE]]
         /\ [s EXCEPT ![d].surfaced = TRUE] \in Store
         /\ [s[d] EXCEPT !.acked = TRUE] \in Dispatched
         /\ [s EXCEPT ![d].acked = TRUE] = [s EXCEPT ![d] = [s[d] EXCEPT !.acked = TRUE]]
         /\ [s EXCEPT ![d].acked = TRUE] \in Store
<1>1. s[d] \in Dispatched
  BY DEF Store
<1>2. \A e \in Dispatched : [s EXCEPT ![d] = e] \in Store
  BY DEF Store
<1>3. ASSUME NEW p \in Unlaunched \union Launched
      PROVE  /\ [s[d] EXCEPT !.phase = p] \in Dispatched
             /\ [s EXCEPT ![d].phase = p] = [s EXCEPT ![d] = [s[d] EXCEPT !.phase = p]]
             /\ [s EXCEPT ![d].phase = p] \in Store
  <2>1. [s[d] EXCEPT !.phase = p] \in Dispatched
    BY <1>1 DEF Dispatched, Launched
  <2>2. [s EXCEPT ![d].phase = p] = [s EXCEPT ![d] = [s[d] EXCEPT !.phase = p]]
    OBVIOUS
  <2> QED BY <2>1, <2>2, <1>2
<1>4. ASSUME NEW p \in Unlaunched \union Launched, NEW r \in RunIds
      PROVE  /\ [s[d] EXCEPT !.phase = p, !.run = r] \in Dispatched
             /\ [s EXCEPT ![d].phase = p, ![d].run = r]
                  = [s EXCEPT ![d] = [s[d] EXCEPT !.phase = p, !.run = r]]
             /\ [s EXCEPT ![d].phase = p, ![d].run = r] \in Store
  <2>1. r \in 0..MaxRun
    BY DispatchAssumption DEF RunIds
  <2>2. [s[d] EXCEPT !.phase = p, !.run = r] \in Dispatched
    BY <1>1, <2>1 DEF Dispatched, Launched
  <2>3. [s EXCEPT ![d].phase = p, ![d].run = r]
          = [s EXCEPT ![d] = [s[d] EXCEPT !.phase = p, !.run = r]]
    BY DEF Store
  <2> QED BY <2>2, <2>3, <1>2
<1>5. /\ [s[d] EXCEPT !.surfaced = TRUE] \in Dispatched
      /\ [s EXCEPT ![d].surfaced = TRUE] = [s EXCEPT ![d] = [s[d] EXCEPT !.surfaced = TRUE]]
  BY <1>1 DEF Dispatched, Store
<1>6. /\ [s[d] EXCEPT !.acked = TRUE] \in Dispatched
      /\ [s EXCEPT ![d].acked = TRUE] = [s EXCEPT ![d] = [s[d] EXCEPT !.acked = TRUE]]
  BY <1>1 DEF Dispatched, Store
<1>7. [s EXCEPT ![d].surfaced = TRUE] \in Store /\ [s EXCEPT ![d].acked = TRUE] \in Store
  BY <1>2, <1>5, <1>6
<1> QED BY <1>3, <1>4, <1>5, <1>6, <1>7

\* The types of what a save reads and writes.
StoreTypes ==
  /\ ds \in Store /\ diskDs \in Store
  /\ chats \subseteq Works /\ diskChats \subseteq Works /\ faults \in Nat

\* A save that succeeds or fails keeps the stores well typed.
LEMMA SaveTypes ==
  ASSUME StoreTypes, NEW next \in Store,
         Commits(next) \/ CommitFails(next)
  PROVE  StoreTypes'
BY DispatchAssumption DEF StoreTypes, Commits, CommitFails

\* The types of the variables, with those of the stores named.
LEMMA Types ==
  TypeOK =>
    /\ StoreTypes /\ epoch \in Nat
    /\ srv \in [pc : {"idle", "spawn", "hosted"}, d : 0..MaxDispatch, run : 0..MaxRun]
    /\ runs \in 0..MaxRun /\ tab \in Tabs
    /\ host \in [RunIds -> Hosts] /\ child \in [RunIds -> {"none", "alive", "over"}]
    /\ spawns \in [Ds -> Nat] /\ refused \subseteq Ds /\ replies \subseteq Keys \X Ds
    /\ acker \in [Ds -> SUBSET RunIds] /\ crashes \in Nat
BY DEF TypeOK, StoreTypes, Store, Tabs

\* No step takes a variable out of its type.
LEMMA TypeStep ==
  TypeOK /\ Starting /\ Honest(tab, host, child, runs) /\ [Next]_vars => TypeOK'
<1> SUFFICES ASSUME TypeOK, Starting, Honest(tab, host, child, runs), [Next]_vars
             PROVE  TypeOK'
  OBVIOUS
<1> USE DispatchAssumption
<1>0. /\ StoreTypes /\ epoch \in Nat
      /\ srv \in [pc : {"idle", "spawn", "hosted"}, d : 0..MaxDispatch, run : 0..MaxRun]
      /\ runs \in 0..MaxRun /\ tab \in Tabs
      /\ host \in [RunIds -> Hosts] /\ child \in [RunIds -> {"none", "alive", "over"}]
      /\ spawns \in [Ds -> Nat] /\ refused \subseteq Ds /\ replies \subseteq Keys \X Ds
      /\ acker \in [Ds -> SUBSET RunIds] /\ crashes \in Nat
  BY Types
<1>1. ASSUME NEW k \in Keys, NEW w \in Works, PrepareWorker(k, w) PROVE TypeOK'
  <2>1. Fresh(k, w, epoch) \in Dispatched
    BY <1>0 DEF Fresh, Dispatched, Unlaunched
  <2>2. \A d \in Ds : [ds EXCEPT ![d] = Fresh(k, w, epoch)] \in Store
    BY <1>0, <2>1 DEF StoreTypes, Store
  <2>3. StoreTypes'
    <3>1. CASE UNCHANGED store
      BY <1>0, <3>1 DEF StoreTypes, store
    <3>2. ASSUME NEW d \in Ds, Commits([ds EXCEPT ![d] = Fresh(k, w, epoch)])
                   \/ CommitFails([ds EXCEPT ![d] = Fresh(k, w, epoch)])
          PROVE  StoreTypes'
      BY <1>0, <2>2, <3>2, SaveTypes
    <3> QED BY <1>1, <3>1, <3>2 DEF PrepareWorker
  <2>4. replies' \subseteq Keys \X Ds
    <3>1. \A d \in Ds : replies \union {<<k, d>>} \subseteq Keys \X Ds
      BY <1>0
    <3>2. \/ \E d \in Ds : replies' = replies \union {<<k, d>>}
          \/ UNCHANGED replies
      BY <1>1 DEF PrepareWorker, SameRequest, SavedDs
    <3> QED BY <1>0, <3>1, <3>2
  <2> QED BY <1>0, <1>1, <2>3, <2>4 DEF PrepareWorker, processes, TypeOK, StoreTypes, Store, Tabs
<1>2. ASSUME NEW d \in Ds, NEW p \in {"cancelled", "blocked"}, Refuse(d, p) PROVE TypeOK'
  <2>1. [ds EXCEPT ![d].phase = p] \in Store
    BY <1>0, <1>2, ChangedType DEF Refuse, SavedDs, StoreTypes, Unlaunched
  <2>2. StoreTypes'
    BY <1>0, <1>2, <2>1, SaveTypes DEF Refuse
  <2>3. refused' \subseteq Ds
    BY <1>0, <1>2 DEF Refuse
  <2> QED BY <1>0, <1>2, <2>2, <2>3 DEF Refuse, processes, TypeOK, StoreTypes, Store, Tabs
<1>3. ASSUME NEW d \in Ds, StartWorker(d) PROVE TypeOK'
  <2>1. runs' \in RunIds /\ runs' \in 0..MaxRun
    BY <1>0, <1>3 DEF StartWorker, RunIds
  <2>2. [ds EXCEPT ![d].phase = "reserved", ![d].run = runs'] \in Store
    BY <1>0, <1>3, <2>1, ChangedType DEF StartWorker, SavedDs, StoreTypes, Launched, Launching
  <2>3. StoreTypes'
    BY <1>0, <1>3, <2>2, SaveTypes DEF StartWorker
  <2>4. srv' \in [pc : {"idle", "spawn", "hosted"}, d : 0..MaxDispatch, run : 0..MaxRun]
    BY <1>0, <1>3, <2>1 DEF StartWorker, Ds
  <2> QED BY <1>0, <1>3, <2>1, <2>3, <2>4 DEF StartWorker, processes, history, TypeOK, StoreTypes, Store, Tabs
<1>4. CASE Spawn
  <2>1. srv.d \in Ds /\ srv.run \in RunIds /\ ds[srv.d] \in Dispatched
    BY <1>0, <1>4 DEF Spawn, Starting, StoreTypes, Store, RunIds
  <2>2. tab' \in Tabs
    BY <1>0, <1>4, <2>1 DEF Spawn, Tabs, Dispatched, Ds
  <2>3. host' \in [RunIds -> Hosts] /\ spawns' \in [Ds -> Nat]
    BY <1>0, <1>4, <2>1 DEF Spawn, Hosts
  <2>4. srv' \in [pc : {"idle", "spawn", "hosted"}, d : 0..MaxDispatch, run : 0..MaxRun]
    BY <1>0, <1>4 DEF Spawn
  <2> QED BY <1>0, <1>4, <2>2, <2>3, <2>4 DEF Spawn, store, TypeOK, StoreTypes, Store, Tabs
<1>5. ASSUME NEW p \in {"failed", "hosted"}, srv.pc # "idle",
             \/ Commits([ds EXCEPT ![srv.d].phase = p])
             \/ CommitFails([ds EXCEPT ![srv.d].phase = p]),
             srv' = Idle, UNCHANGED <<epoch, processes, history, crashes, runs>>
      PROVE  TypeOK'
  <2>1. srv.d \in Ds /\ ds[srv.d] # None
    BY <1>5 DEF Starting
  <2>2. [ds EXCEPT ![srv.d].phase = p] \in Store
    BY <1>0, <2>1, ChangedType DEF StoreTypes, Launched, Launching, Over
  <2>3. StoreTypes'
    BY <1>0, <1>5, <2>2, SaveTypes
  <2>4. srv' \in [pc : {"idle", "spawn", "hosted"}, d : 0..MaxDispatch, run : 0..MaxRun]
    BY <1>5 DEF Idle
  <2> QED BY <1>0, <1>5, <2>3, <2>4 DEF processes, history, TypeOK, StoreTypes, Store, Tabs
<1>6. CASE OtherSave
  BY <1>6 DEF OtherSave, processes, history, TypeOK
<1>7. ASSUME NEW r \in RunIds, HostSpawns(r) \/ ChildEnds(r) \/ HostWaits(r)
                               \/ ReportLost(r) \/ HostDies(r)
      PROVE  TypeOK'
  BY <1>0, <1>7 DEF HostSpawns, ChildEnds, HostWaits, ReportLost, HostDies, Reported,
     store, history, TypeOK, Hosts
<1>8. ASSUME NEW r \in RunIds, WorkerEvent(r) PROVE TypeOK'
  <2>1. PICK d \in SavedDs : \/ Commits([ds EXCEPT ![d].phase = Report(r)])
                             \/ CommitFails([ds EXCEPT ![d].phase = Report(r)])
    BY <1>8 DEF WorkerEvent
  <2>2. Report(r) \in Launched
    BY <1>8 DEF WorkerEvent, Report, Launched, Launching, Over
  <2>3. [ds EXCEPT ![d].phase = Report(r)] \in Store
    BY <1>0, <2>1, <2>2, ChangedType DEF SavedDs, StoreTypes
  <2>4. StoreTypes'
    BY <1>0, <2>1, <2>3, SaveTypes
  <2>5. host' \in [RunIds -> Hosts]
    BY <1>0, <1>8 DEF WorkerEvent, Reported, Hosts
  <2> QED BY <1>0, <1>8, <2>4, <2>5 DEF WorkerEvent, history, TypeOK, StoreTypes, Store, Tabs
<1>9. ASSUME NEW r \in RunIds, NativeEnded(r) \/ TabCloses(r) PROVE TypeOK'
  <2>1. tab' \in Tabs
    <3>1. /\ [tab EXCEPT ![r].open = FALSE] \in Tabs
          /\ [tab EXCEPT ![r].native = FALSE] \in Tabs
      BY <1>0, TabFlags
    <3> QED BY <1>0, <1>9, <3>1 DEF NativeEnded, TabCloses
  <2>2. host' \in [RunIds -> Hosts]
    BY <1>0, <1>9 DEF NativeEnded, TabCloses, Hosts
  <2> QED BY <1>0, <1>9, <2>1, <2>2 DEF NativeEnded, TabCloses, store, history, TypeOK, Tabs
<1>10. ASSUME NEW r \in RunIds, GetContext(r) PROVE TypeOK'
  <2>1. PICK d \in SavedDs : \/ Commits([ds EXCEPT ![d].surfaced = TRUE])
                             \/ CommitFails([ds EXCEPT ![d].surfaced = TRUE])
    BY <1>10 DEF GetContext, Assignment
  <2>2. [ds EXCEPT ![d].surfaced = TRUE] \in Store
    BY <1>0, <2>1, ChangedType DEF SavedDs, StoreTypes
  <2>3. StoreTypes'
    BY <1>0, <2>1, <2>2, SaveTypes
  <2> QED BY <1>0, <1>10, <2>3 DEF GetContext, processes, history, TypeOK, StoreTypes, Store, Tabs
<1>11. ASSUME NEW r \in RunIds, NEW d \in Ds, AckAssignment(r, d) PROVE TypeOK'
  <2>1. [ds EXCEPT ![d].acked = TRUE] \in Store
    BY <1>0, <1>11, ChangedType DEF AckAssignment, SavedDs, StoreTypes
  <2>2. StoreTypes'
    <3>1. CASE UNCHANGED store
      BY <1>0, <3>1 DEF StoreTypes, store
    <3> QED BY <1>0, <1>11, <2>1, <3>1, SaveTypes DEF AckAssignment
  <2>3. acker' \in [Ds -> SUBSET RunIds]
    BY <1>0, <1>11 DEF AckAssignment
  <2> QED BY <1>0, <1>11, <2>2, <2>3 DEF AckAssignment, processes, TypeOK, StoreTypes, Store, Tabs
<1>12. ASSUME NEW r \in RunIds, Observe(r) PROVE TypeOK'
  <2>1. tab[r].ws \in Works
    <3>1. tab[r].open
      BY <1>12 DEF Observe, Agent
    <3>2. tab[r].ws # None
      BY <3>1 DEF Honest
    <3> QED BY <1>0, <3>2 DEF Tabs, Honest
  <2>2. chats' \subseteq Works /\ diskChats' \subseteq Works
    BY <1>0, <1>12, <2>1 DEF Observe, StoreTypes
  <2>3. StoreTypes'
    BY <1>0, <1>12, <2>2 DEF Observe, StoreTypes
  <2> QED BY <1>0, <1>12, <2>3 DEF Observe, processes, history, TypeOK, StoreTypes, Store, Tabs
<1>13. ASSUME NEW w \in Works, HumanStart(w) PROVE TypeOK'
  <2>1. runs' \in RunIds /\ runs' \in 0..MaxRun
    BY <1>0, <1>13 DEF HumanStart, RunIds
  <2>2. tab' \in Tabs
    BY <1>0, <1>13, <2>1 DEF HumanStart, Tabs
  <2>3. host' \in [RunIds -> Hosts] /\ child' \in [RunIds -> {"none", "alive", "over"}]
    BY <1>0, <1>13, <2>1 DEF HumanStart, Hosts
  <2> QED BY <1>0, <1>13, <2>1, <2>2, <2>3 DEF HumanStart, store, history, TypeOK, Tabs
<1>14. CASE Crash
  <2>1. tab' \in Tabs
    <3>1. tab' = [r \in RunIds |-> [tab[r] EXCEPT !.open = FALSE]]
      BY <1>14 DEF Crash
    <3>2. \A r \in RunIds : [tab[r] EXCEPT !.open = FALSE]
                             \in [ws : Works \union {None}, d : 0..MaxDispatch,
                                 native : BOOLEAN, open : BOOLEAN]
      BY <1>0, TabFlags
    <3> QED BY <3>1, <3>2 DEF Tabs
  <2>2. host' \in [RunIds -> Hosts]
    BY <1>14 DEF Crash, Hosts
  <2>3. child' \in [RunIds -> {"none", "alive", "over"}]
    BY <1>0, <1>14 DEF Crash
  <2> QED BY <1>0, <1>14, <2>1, <2>2, <2>3 DEF Crash, Idle, history, TypeOK, StoreTypes, Store, Tabs
<1>15. CASE UNCHANGED vars
  BY <1>15 DEF vars, store, processes, history, TypeOK
<1>16. CASE SpawnFails
  BY <1>5, <1>16 DEF SpawnFails
<1>17. CASE Hosted
  BY <1>5, <1>17 DEF Hosted
<1> QED
  BY <1>1, <1>2, <1>3, <1>4, <1>6, <1>7, <1>8, <1>9, <1>10, <1>11, <1>12, <1>13, <1>14,
     <1>15, <1>16, <1>17 DEF Next, Supervisor, Processes
----------------------------------------------------------------------------
(* The invariant.                                                            *)

\* A save of one changed dispatch keeps both stores good, the disk no older than
\* the memory, and the memory no older than it was.
LEMMA Saves ==
  ASSUME TypeOK, NEW h, NEW n \in Nat, Advances(ds, diskDs),
         Good(ds, tab, h, child, n, spawns, refused, replies, acker),
         Good(diskDs, tab, h, child, n, spawns, refused, replies, acker),
         NEW d \in Ds, ds[d] # None, NEW e \in Dispatched,
         e.key = ds[d].key, e.ws = ds[d].ws, Follows(ds[d].phase, e.phase),
         Holds(e) => Holds(ds[d]),
         e.run # 0 => e.phase \in Launched,
         \/ e.run = ds[d].run
         \/ /\ ds[d].run = 0 /\ e.run = n /\ tab[n].ws = None
            /\ \A k \in Ds : ds[k] # None => ds[k].run # n,
         \A r \in RunIds : (IsWorker(r, tab, h, child) /\ tab[r].d = d) => e.phase \in Launching,
         spawns[d] # 0 => e.phase \in Launched,
         d \in refused => e.phase \in {"blocked", "cancelled"},
         ds[d].surfaced => e.surfaced, ds[d].acked => e.acked,
         Commits([ds EXCEPT ![d] = e]) \/ CommitFails([ds EXCEPT ![d] = e])
  PROVE  /\ Good(ds', tab, h, child, n, spawns, refused, replies, acker)
         /\ Good(diskDs', tab, h, child, n, spawns, refused, replies, acker)
         /\ Advances(ds', diskDs') /\ Advances(ds, ds')
<1> DEFINE next == [ds EXCEPT ![d] = e]
<1>0. /\ tab \in Tabs /\ acker \in [Ds -> SUBSET RunIds] /\ refused \subseteq Ds
      /\ replies \subseteq Keys \X Ds /\ spawns \in [Ds -> Nat] /\ ds \in Store
  BY Types DEF StoreTypes
<1>1. Good(next, tab, h, child, n, spawns, refused, replies, acker)
  BY <1>0, Amended
<1>2. ds[d].run # 0 => e.run = ds[d].run
  OBVIOUS
<1>3. Advances(ds, next) /\ Advances(ds, ds)
  BY <1>0, <1>2, Forward, AdvancesToItself
<1>4. Advances(next, next)
  BY <1>1, AdvancesToItself DEF Good
<1>5. CASE Commits(next)
  <2>1. ds' = next /\ diskDs' = next
    BY <1>5 DEF Commits
  <2> QED BY <2>1, <1>1, <1>3, <1>4
<1>6. CASE CommitFails(next)
  <2>1. ds' = ds /\ (diskDs' = next \/ diskDs' = diskDs)
    BY <1>6 DEF CommitFails
  <2> QED BY <2>1, <1>1, <1>3
<1> QED BY <1>5, <1>6

\* A step that saves nothing keeps the invariant if no worker appears, no tab
\* changes its dispatch and hosts stay honest.
LEMMA ProcessStep ==
  ASSUME TypeOK, TypeOK', Safe,
         ds' = ds, diskDs' = diskDs, srv' = srv, spawns' = spawns, refused' = refused,
         replies' = replies, acker' = acker, runs <= runs',
         Honest(tab', host', child', runs'),
         \A r \in RunIds :
           /\ tab'[r].d = tab[r].d
           /\ IsWorker(r, tab', host', child') =>
                IsWorker(r, tab, host, child) /\ tab'[r].ws = tab[r].ws
           /\ (r <= runs /\ tab[r].ws = None) => tab'[r].ws = None
  PROVE  Safe'
<1>0. /\ tab \in Tabs /\ tab' \in Tabs /\ runs \in Nat /\ runs' \in Nat
      /\ runs' \in 0..MaxRun /\ acker \in [Ds -> SUBSET RunIds]
  BY DispatchAssumption DEF TypeOK, Tabs
<1>1. Good(ds, tab', host', child', runs', spawns, refused, replies, acker)
  BY <1>0, Fewer DEF Safe
<1>2. Good(diskDs, tab', host', child', runs', spawns, refused, replies, acker)
  BY <1>0, Fewer DEF Safe
<1>3. Starting'
  <2>1. srv.pc # "idle" => srv.run \in 1..runs /\ srv.run \in RunIds
    BY <1>0, DispatchAssumption DEF Safe, Starting, RunIds, TypeOK
  <2> QED BY <1>0, <2>1 DEF Safe, Starting
<1> QED BY <1>1, <1>2, <1>3 DEF Safe

\* What the steps of the invariant's proof assume of the variables.
LEMMA Known ==
  ASSUME IInv
  PROVE  /\ tab \in Tabs /\ acker \in [Ds -> SUBSET RunIds] /\ refused \subseteq Ds
         /\ replies \subseteq Keys \X Ds /\ spawns \in [Ds -> Nat]
         /\ ds \in Store /\ diskDs \in Store
         /\ runs \in 0..MaxRun /\ runs \in Nat
         /\ host \in [RunIds -> Hosts] /\ child \in [RunIds -> {"none", "alive", "over"}]
         /\ Advances(ds, ds) /\ Advances(diskDs, diskDs)
<1>1. /\ tab \in Tabs /\ acker \in [Ds -> SUBSET RunIds] /\ refused \subseteq Ds
      /\ replies \subseteq Keys \X Ds /\ spawns \in [Ds -> Nat]
      /\ ds \in Store /\ diskDs \in Store
      /\ runs \in 0..MaxRun /\ runs \in Nat
      /\ host \in [RunIds -> Hosts] /\ child \in [RunIds -> {"none", "alive", "over"}]
  BY Types, DispatchAssumption DEF IInv, StoreTypes
<1> QED BY <1>1, AdvancesToItself

\* A dispatch that no process and no start_worker can be at work for.
LEMMA Unborn ==
  ASSUME IInv, NEW d \in Ds, ds[d] # None, ds[d].phase \in Unlaunched
  PROVE  /\ ds[d].run = 0 /\ spawns[d] = 0
         /\ \A r \in RunIds : IsWorker(r, tab, host, child) => tab[r].d # d
<1>1. ds[d].phase \notin Launched
  BY DEF Unlaunched, Launched, Launching, Over
<1>2. ds[d].phase \notin Launching
  BY DEF Unlaunched, Launching
<1>3. ds[d].run = 0
  BY <1>1 DEF IInv, Safe, Good, Given
<1>4. spawns[d] = 0
  BY <1>1 DEF IInv, Safe, Good, Recorded
<1>5. \A r \in RunIds : IsWorker(r, tab, host, child) => tab[r].d # d
  BY <1>2 DEF IInv, Safe, Good, Held
<1> QED BY <1>3, <1>4, <1>5

\* Nothing runs in the workspace of a prepared dispatch.
LEMMA AloneWhenPrepared ==
  ASSUME IInv, NEW d \in Ds, ds[d] # None, ds[d].phase = "prepared"
  PROVE  \A r \in RunIds : IsWorker(r, tab, host, child) => tab[r].ws # ds[d].ws
<1> SUFFICES ASSUME NEW r \in RunIds, IsWorker(r, tab, host, child)
             PROVE  tab[r].ws # ds[d].ws
  OBVIOUS
<1>1. tab[r].d \in Ds
  BY Known DEF Tabs, IsWorker, Ds
<1>2. /\ ds[tab[r].d] # None /\ ds[tab[r].d].ws = tab[r].ws
      /\ ds[tab[r].d].phase \in Launching
  BY DEF IInv, Safe, Good, Held
<1>3. Holds(ds[tab[r].d]) /\ Holds(ds[d]) /\ tab[r].d # d
  BY <1>2 DEF Holds, Launching
<1> QED BY <1>1, <1>2, <1>3 DEF IInv, Safe, Good, Distinct

\* A refusal that succeeds or fails keeps the invariant.
LEMMA RefuseStep ==
  ASSUME IInv, TypeOK', NEW d \in Ds, NEW p \in {"cancelled", "blocked"}, Refuse(d, p)
  PROVE  Safe' /\ Advances(ds, ds')
<1> DEFINE e == [ds[d] EXCEPT !.phase = p]
<1>0. ds[d] # None /\ ds[d].phase \in {"prepared", "blocked"}
  BY DEF Refuse, SavedDs, Refusable
<1>1. ds[d] \in Dispatched
  BY <1>0, Known DEF Store
<1>2. e \in Dispatched /\ [ds EXCEPT ![d].phase = p] = [ds EXCEPT ![d] = e]
  BY <1>0, Known, ChangedType DEF Unlaunched
<1>3. /\ e.key = ds[d].key /\ e.ws = ds[d].ws /\ e.phase = p /\ e.run = ds[d].run
      /\ e.surfaced = ds[d].surfaced /\ e.acked = ds[d].acked
  BY <1>1 DEF Dispatched
<1>4. /\ ds[d].run = 0 /\ spawns[d] = 0
      /\ \A r \in RunIds : IsWorker(r, tab, host, child) => tab[r].d # d
  BY <1>0, Unborn DEF Unlaunched
<1>5. Commits([ds EXCEPT ![d] = e]) \/ CommitFails([ds EXCEPT ![d] = e])
  BY <1>2 DEF Refuse
<1>6. Follows(ds[d].phase, e.phase) /\ ~Holds(e)
  BY <1>0, <1>3 DEF Follows, Holds, Launching
<1> HIDE DEF e
<1>7. /\ Good(ds', tab, host, child, runs, spawns, refused, replies, acker)
      /\ Good(diskDs', tab, host, child, runs, spawns, refused, replies, acker)
      /\ Advances(ds', diskDs') /\ Advances(ds, ds')
  BY <1>0, <1>2, <1>3, <1>4, <1>5, <1>6, Known, Saves DEF IInv, Safe
<1>8. /\ tab' = tab /\ host' = host /\ child' = child /\ runs' = runs /\ spawns' = spawns
      /\ replies' = replies /\ acker' = acker /\ srv' = srv /\ srv = Idle
  BY DEF Refuse, processes
<1>9. Starting' /\ Honest(tab', host', child', runs')
  BY <1>8 DEF IInv, Safe, Starting, Idle
<1>10. Refused(ds', refused') /\ Refused(diskDs', refused')
  <2>1. CASE refused' = refused
    BY <1>7, <2>1 DEF Good
  <2>2. CASE Commits([ds EXCEPT ![d] = e]) /\ refused' = refused \union {d}
    <3>1. ds'[d] = e /\ diskDs' = ds' /\ e # None
      BY <1>2, <2>2, Known, NoDispatchAssumption DEF Commits, Store
    <3> QED BY <1>3, <1>7, <2>2, <3>1 DEF Good, Refused
  <2> QED BY <1>2, <2>1, <2>2 DEF Refuse
<1> QED BY <1>7, <1>8, <1>9, <1>10 DEF IInv, Safe, Good

\* A reservation that is saved, or fails to be, keeps the invariant.
LEMMA StartWorkerStep ==
  ASSUME IInv, TypeOK', NEW d \in Ds, StartWorker(d)
  PROVE  Safe' /\ Advances(ds, ds')
<1> DEFINE e == [ds[d] EXCEPT !.phase = "reserved", !.run = runs']
<1>0. ds[d] # None /\ ds[d].phase = "prepared" /\ runs' = runs + 1 /\ runs' \in RunIds
  BY Known, DispatchAssumption DEF StartWorker, SavedDs, Startable, RunIds
<1>1. ds[d] \in Dispatched
  BY <1>0, Known DEF Store
<1>2. /\ e \in Dispatched
      /\ [ds EXCEPT ![d].phase = "reserved", ![d].run = runs'] = [ds EXCEPT ![d] = e]
  <2>1. "reserved" \in Unlaunched \union Launched
    BY DEF Launched, Launching
  <2>2. ASSUME NEW r \in RunIds
        PROVE  [ds[d] EXCEPT !.phase = "reserved", !.run = r] \in Dispatched
    <3>1. r \in 0..MaxRun
      BY DispatchAssumption DEF RunIds
    <3> QED BY <1>1, <2>1, <3>1 DEF Dispatched, Launched
  <2>3. [ds EXCEPT ![d].phase = "reserved", ![d].run = runs']
               = [ds EXCEPT ![d] = [ds[d] EXCEPT !.phase = "reserved", !.run = runs']]
    BY Known DEF Store
  <2> QED BY <1>0, <2>2, <2>3
<1>3. /\ e.key = ds[d].key /\ e.ws = ds[d].ws /\ e.phase = "reserved" /\ e.run = runs'
      /\ e.surfaced = ds[d].surfaced /\ e.acked = ds[d].acked
  BY <1>1 DEF Dispatched
<1>4. /\ ds[d].run = 0 /\ spawns[d] = 0
      /\ \A r \in RunIds : IsWorker(r, tab, host, child) => tab[r].d # d
  BY <1>0, Unborn DEF Unlaunched
<1>5. Commits([ds EXCEPT ![d] = e]) \/ CommitFails([ds EXCEPT ![d] = e])
  BY <1>2 DEF StartWorker
<1>6. Follows(ds[d].phase, e.phase) /\ Holds(ds[d]) /\ e.phase \in Launched
      /\ e.phase \in Launching
  BY <1>0, <1>3 DEF Follows, Holds, Launched, Launching
<1>7. tab[runs'].ws = None /\ d \notin refused
  BY <1>0, Known DEF IInv, Safe, Honest, Good, Refused
<1>8. \A k \in Ds : ds[k] # None => ds[k].run # runs'
  <2> SUFFICES ASSUME NEW k \in Ds, ds[k] # None, ds[k].run = runs' PROVE FALSE
    OBVIOUS
  <2>1. ds[k].run # 0
    BY <1>0 DEF RunIds
  <2>2. ds[k].run <= runs
    BY <2>1 DEF IInv, Safe, Good, Given
  <2> QED BY <2>2, <1>0, Known
<1> HIDE DEF e
<1>9. runs' \in Nat /\ runs <= runs'
  BY <1>0, Known
<1>10. /\ Good(ds, tab, host, child, runs', spawns, refused, replies, acker)
       /\ Good(diskDs, tab, host, child, runs', spawns, refused, replies, acker)
  BY <1>9, Known, Fewer DEF IInv, Safe
<1>11. /\ Good(ds', tab, host, child, runs', spawns, refused, replies, acker)
       /\ Good(diskDs', tab, host, child, runs', spawns, refused, replies, acker)
       /\ Advances(ds', diskDs') /\ Advances(ds, ds')
  BY <1>0, <1>2, <1>3, <1>4, <1>5, <1>6, <1>7, <1>8, <1>9, <1>10, Saves DEF IInv, Safe
<1>12. /\ tab' = tab /\ host' = host /\ child' = child /\ spawns' = spawns
       /\ refused' = refused /\ replies' = replies /\ acker' = acker /\ srv = Idle
  BY DEF StartWorker, processes, history
<1>13. Honest(tab', host', child', runs')
  BY <1>0, <1>12, Known DEF IInv, Safe, Honest, RunIds
<1>14. Starting'
  <2>1. CASE CommitFails([ds EXCEPT ![d] = e])  /\ srv' = srv
    BY <1>12, <2>1 DEF Starting, Idle
  <2>2. CASE Commits([ds EXCEPT ![d] = e]) /\ srv' = [pc |-> "spawn", d |-> d, run |-> runs']
    <3>1. ds'[d] = e /\ diskDs' = ds' /\ e # None
      BY <1>2, <2>2, Known, NoDispatchAssumption DEF Commits, Store
    <3>2. srv'.pc = "spawn" /\ srv'.d = d /\ srv'.run = runs' /\ runs' \in 1..runs'
      BY <1>0, <2>2 DEF RunIds
    <3>3. \A r \in RunIds : IsWorker(r, tab, host, child) => tab[r].ws # e.ws
      BY <1>0, <1>3, AloneWhenPrepared
    <3> QED BY <1>3, <1>4, <1>7, <1>12, <3>1, <3>2, <3>3 DEF Starting
  <2> QED BY <1>2, <2>1, <2>2 DEF StartWorker
<1> QED BY <1>11, <1>12, <1>13, <1>14 DEF IInv, Safe

\* The new tab belongs to the only dispatch that holds its workspace.
LEMMA SpawnStep ==
  ASSUME IInv, TypeOK', Spawn
  PROVE  Safe' /\ Advances(ds, ds')
<1> DEFINE d == srv.d
           r == srv.run
<1>0. /\ d \in Ds /\ r \in 1..runs /\ r \in RunIds /\ ds[d] # None
      /\ ds[d].phase = "reserved" /\ ds[d].run = r /\ spawns[d] = 0 /\ diskDs = ds
      /\ tab[r].ws = None /\ tab[r].d = 0 /\ child[r] = "none"
      /\ \A q \in RunIds : IsWorker(q, tab, host, child) => tab[q].ws # ds[d].ws
  BY Known, DispatchAssumption DEF IInv, Safe, Starting, Spawn, RunIds, Honest
<1>1. /\ tab' = [tab EXCEPT ![r] = [ws |-> ds[d].ws, d |-> d, native |-> TRUE, open |-> TRUE]]
      /\ host' = [host EXCEPT ![r] = "born"] /\ spawns' = [spawns EXCEPT ![d] = @ + 1]
      /\ srv' = [srv EXCEPT !.pc = "hosted"] /\ child' = child /\ ds' = ds /\ diskDs' = diskDs
      /\ refused' = refused /\ replies' = replies /\ acker' = acker /\ runs' = runs
  BY DEF Spawn, store
<1>2. /\ tab'[r].d = d /\ tab'[r].ws = ds[d].ws
      /\ \A q \in RunIds : q # r => tab'[q] = tab[q]
  BY <1>0, <1>1, Known DEF Tabs
<1>3. host'[r] = "born" /\ \A q \in RunIds : q # r => host'[q] = host[q]
  BY <1>0, <1>1, Known
<1>4. spawns'[d] = 1 /\ \A k \in Ds : k # d => spawns'[k] = spawns[k]
  BY <1>0, <1>1, Known
<1>5. srv'.pc = "hosted" /\ srv'.d = d /\ srv'.run = r
  BY <1>1 DEF IInv, TypeOK
<1>6. ds[d].ws # None
  BY <1>0, Known, DispatchAssumption DEF Store, Dispatched
<1> HIDE DEF d, r
<1>7. Honest(tab', host', child', runs')
  <2> SUFFICES ASSUME NEW q \in RunIds
               PROVE  /\ host'[q] = "report" => child[q] = "over"
                      /\ host'[q] \in {"none", "born", "failing"} => child[q] = "none"
                      /\ q > runs => tab'[q].ws = None
                      /\ tab'[q].ws = None => host'[q] = "none" /\ tab'[q].d = 0 /\ ~tab'[q].open
    BY <1>1 DEF Honest
  <2>1. CASE q = r
    BY <1>0, <1>2, <1>3, <1>6, <2>1, Known
  <2>2. CASE q # r
    BY <1>2, <1>3, <2>2 DEF IInv, Safe, Honest
  <2> QED BY <2>1, <2>2
<1>8. Given(ds, tab', runs)
  <2> SUFFICES ASSUME NEW k \in Ds, ds[k] # None, ds[k].run # 0
               PROVE  /\ ds[k].run <= runs /\ ds[k].phase \in Launched
                      /\ tab'[ds[k].run].ws = None \/ tab'[ds[k].run].d = k
    BY DEF Given
  <2>1. /\ ds[k].run <= runs /\ ds[k].phase \in Launched
        /\ tab[ds[k].run].ws = None \/ tab[ds[k].run].d = k
    BY DEF IInv, Safe, Good, Given
  <2>2. CASE k = d
    BY <1>0, <1>2, <2>1, <2>2
  <2>3. CASE k # d
    <3>1. ds[k].run # r
      BY <1>0, <2>3 DEF IInv, Safe, Good, Distinct
    <3>2. ds[k].run \in RunIds
      BY Known, DispatchAssumption, NoDispatchAssumption DEF Store, Dispatched, RunIds
    <3> QED BY <1>2, <2>1, <3>1, <3>2
  <2> QED BY <2>2, <2>3
<1>9. Held(ds, tab', host', child)
  <2> SUFFICES ASSUME NEW q \in RunIds, IsWorker(q, tab', host', child)
               PROVE  /\ ds[tab'[q].d] # None /\ ds[tab'[q].d].run = q
                      /\ ds[tab'[q].d].ws = tab'[q].ws /\ ds[tab'[q].d].phase \in Launching
    BY DEF Held
  <2>1. CASE q = r
    BY <1>0, <1>2, <2>1 DEF Launching
  <2>2. CASE q # r
    <3>1. IsWorker(q, tab, host, child) /\ tab'[q] = tab[q]
      BY <1>2, <1>3, <2>2 DEF IsWorker
    <3> QED BY <3>1 DEF IInv, Safe, Good, Held
  <2> QED BY <2>1, <2>2
<1>10. Recorded(ds, spawns')
  BY <1>0, <1>4 DEF IInv, Safe, Good, Recorded, Launched, Launching
<1>11. Acked(ds, tab', acker)
  <2> SUFFICES ASSUME NEW k \in Ds, NEW q \in acker[k]
               PROVE  /\ tab'[q].d = k /\ ds[k] # None /\ ds[k].run = q
                      /\ ds[k].surfaced /\ ds[k].acked
    BY DEF Acked
  <2>1. /\ tab[q].d = k /\ ds[k] # None /\ ds[k].run = q /\ ds[k].surfaced /\ ds[k].acked
    BY DEF IInv, Safe, Good, Acked
  <2>2. q \in RunIds /\ q # r
    BY <1>0, <2>1, Known DEF Ds
  <2> QED BY <1>2, <2>1, <2>2
<1>12. Good(ds, tab', host', child, runs, spawns', refused, replies, acker)
  BY <1>8, <1>9, <1>10, <1>11 DEF IInv, Safe, Good
<1>13. Starting'
  BY <1>0, <1>1, <1>5 DEF Starting
<1>14. \A k \in Ds : spawns'[k] \in {0, 1}
  BY <1>4 DEF IInv, Safe
<1> QED BY <1>0, <1>1, <1>7, <1>12, <1>13, <1>14, Known DEF IInv, Safe

\* What start_worker records after the spawn, or of a spawn that failed.
LEMMA HostedStep ==
  ASSUME IInv, TypeOK', SpawnFails \/ Hosted
  PROVE  Safe' /\ Advances(ds, ds')
<1> DEFINE d == srv.d
<1>0. /\ d \in Ds /\ ds[d] # None /\ ds[d].phase = "reserved"
      /\ srv' = Idle /\ tab' = tab /\ host' = host /\ child' = child /\ runs' = runs
      /\ spawns' = spawns /\ refused' = refused /\ replies' = replies /\ acker' = acker
  BY DEF IInv, Safe, Starting, SpawnFails, Hosted, processes, history
<1>1. PICK p \in {"failed", "hosted"} :
        /\ p = "failed" => SpawnFails
        /\ \/ Commits([ds EXCEPT ![d].phase = p])
           \/ CommitFails([ds EXCEPT ![d].phase = p])
  BY DEF SpawnFails, Hosted
<1> DEFINE e == [ds[d] EXCEPT !.phase = p]
<1> HIDE DEF d
<1>2. ds[d] \in Dispatched
  BY <1>0, Known DEF Store
<1>3. e \in Dispatched /\ [ds EXCEPT ![d].phase = p] = [ds EXCEPT ![d] = e]
  BY <1>0, Known, ChangedType DEF Launched, Launching, Over
<1>4. /\ e.key = ds[d].key /\ e.ws = ds[d].ws /\ e.phase = p /\ e.run = ds[d].run
      /\ e.surfaced = ds[d].surfaced /\ e.acked = ds[d].acked
  BY <1>2 DEF Dispatched
<1>5. Commits([ds EXCEPT ![d] = e]) \/ CommitFails([ds EXCEPT ![d] = e])
  BY <1>1, <1>3
<1>6. /\ Follows(ds[d].phase, e.phase) /\ Holds(ds[d]) /\ e.phase \in Launched
  BY <1>0, <1>4 DEF Follows, Holds, Launched, Launching, Over
<1>7. d \notin refused
  BY <1>0 DEF IInv, Safe, Good, Refused
<1>8. ASSUME NEW q \in RunIds, IsWorker(q, tab, host, child), tab[q].d = d
      PROVE  e.phase \in Launching
  <2>1. CASE p = "hosted"
    BY <1>4, <2>1 DEF Launching
  <2>2. CASE p = "failed"
    <3>1. tab[q].ws # ds[d].ws
      BY <1>1, <1>8, <2>2 DEF IInv, Safe, Starting, SpawnFails, d
    <3>2. tab[q].ws = ds[d].ws
      BY <1>8 DEF IInv, Safe, Good, Held
    <3> QED BY <3>1, <3>2
  <2> QED BY <2>1, <2>2
<1> HIDE DEF e
<1>9. /\ Good(ds', tab, host, child, runs, spawns, refused, replies, acker)
      /\ Good(diskDs', tab, host, child, runs, spawns, refused, replies, acker)
      /\ Advances(ds', diskDs') /\ Advances(ds, ds')
  BY <1>0, <1>3, <1>4, <1>5, <1>6, <1>7, <1>8, Known, Saves DEF IInv, Safe
<1>10. Starting'
  BY <1>0 DEF Starting, Idle
<1> QED BY <1>0, <1>9, <1>10 DEF IInv, Safe

\* A step of a host or a child that touches only itself.
LEMMA HostStep ==
  ASSUME IInv, TypeOK', NEW r \in RunIds,
         HostSpawns(r) \/ ChildEnds(r) \/ HostWaits(r) \/ ReportLost(r) \/ HostDies(r)
  PROVE  Safe' /\ Advances(ds, ds')
<1>0. /\ ds' = ds /\ diskDs' = diskDs /\ srv' = srv /\ spawns' = spawns /\ refused' = refused
      /\ replies' = replies /\ acker' = acker /\ runs' = runs /\ tab' = tab
  BY DEF HostSpawns, ChildEnds, HostWaits, ReportLost, HostDies, store, history
<1>1. \A q \in RunIds : q # r => host'[q] = host[q] /\ child'[q] = child[q]
  BY Known DEF HostSpawns, ChildEnds, HostWaits, ReportLost, HostDies
<1>2. /\ IsWorker(r, tab, host', child') => IsWorker(r, tab, host, child)
      /\ host'[r] = "report" => child'[r] = "over"
      /\ host'[r] \in {"none", "born", "failing"} => child'[r] = "none"
      /\ tab[r].ws = None => host'[r] = "none"
  <2>0. /\ host[r] = "report" => child[r] = "over"
        /\ host[r] \in {"none", "born", "failing"} => child[r] = "none"
        /\ tab[r].ws = None => host[r] = "none"
    BY DEF IInv, Safe, Honest
  <2>1. CASE HostSpawns(r)
    BY <2>0, <2>1, Known DEF HostSpawns, IsWorker, Busy
  <2>2. CASE ChildEnds(r)
    BY <2>0, <2>2, Known DEF ChildEnds, IsWorker
  <2>3. CASE HostWaits(r)
    BY <2>0, <2>3, Known DEF HostWaits, IsWorker, Busy
  <2>4. CASE ReportLost(r)
    BY <2>0, <2>4, Known DEF ReportLost, Report, Reported, IsWorker, Busy
  <2>5. CASE HostDies(r)
    BY <2>0, <2>5, Known DEF HostDies, IsWorker, Busy
  <2> QED BY <2>1, <2>2, <2>3, <2>4, <2>5
<1>3. \A q \in RunIds : IsWorker(q, tab, host', child') => IsWorker(q, tab, host, child)
  BY <1>1, <1>2 DEF IsWorker
<1>4. Honest(tab', host', child', runs')
  BY <1>0, <1>1, <1>2 DEF IInv, Safe, Honest
<1> QED BY <1>0, <1>3, <1>4, Known, ProcessStep DEF IInv

\* A tab that closes or becomes a shell stays the tab of its dispatch.
LEMMA TabStep ==
  ASSUME IInv, TypeOK', NEW r \in RunIds, NativeEnded(r) \/ TabCloses(r)
  PROVE  Safe' /\ Advances(ds, ds')
<1>0. /\ ds' = ds /\ diskDs' = diskDs /\ srv' = srv /\ spawns' = spawns /\ refused' = refused
      /\ replies' = replies /\ acker' = acker /\ runs' = runs /\ child' = child
  BY DEF NativeEnded, TabCloses, store, history
<1>1. /\ \A q \in RunIds : q # r => host'[q] = host[q]
      /\ host'[r] = host[r] \/ (host[r] = "return" /\ host'[r] = "shell")
  BY Known DEF NativeEnded, TabCloses
<1>2. /\ \A q \in RunIds : q # r => tab'[q] = tab[q]
      /\ \/ tab'[r] = tab[r]
         \/ tab'[r] = [tab[r] EXCEPT !.open = FALSE]
         \/ tab'[r] = [tab[r] EXCEPT !.native = FALSE]
  BY Known DEF NativeEnded, TabCloses, Tabs
<1>3. /\ tab'[r].d = tab[r].d /\ tab'[r].ws = tab[r].ws
      /\ tab'[r].open = tab[r].open \/ tab'[r].open = FALSE
  <2>1. /\ [tab[r] EXCEPT !.open = FALSE].d = tab[r].d
        /\ [tab[r] EXCEPT !.open = FALSE].ws = tab[r].ws
        /\ [tab[r] EXCEPT !.open = FALSE].open = FALSE
        /\ [tab[r] EXCEPT !.native = FALSE].d = tab[r].d
        /\ [tab[r] EXCEPT !.native = FALSE].ws = tab[r].ws
        /\ [tab[r] EXCEPT !.native = FALSE].open = tab[r].open
    BY Known, TabFlags
  <2> QED BY <1>2, <2>1
<1>4. \A q \in RunIds : /\ tab'[q].d = tab[q].d /\ tab'[q].ws = tab[q].ws
                        /\ IsWorker(q, tab', host', child') => IsWorker(q, tab, host, child)
  BY <1>0, <1>1, <1>2, <1>3 DEF IsWorker, Busy
<1>5. Honest(tab', host', child', runs')
  BY <1>0, <1>1, <1>2, <1>3 DEF IInv, Safe, Honest
<1> QED BY <1>0, <1>4, <1>5, Known, ProcessStep DEF IInv

\* A native process that no dispatch asked for is nobody's worker.
LEMMA HumanStep ==
  ASSUME IInv, TypeOK', NEW w \in Works, HumanStart(w)
  PROVE  Safe' /\ Advances(ds, ds')
<1>0. /\ ds' = ds /\ diskDs' = diskDs /\ srv' = srv /\ spawns' = spawns /\ refused' = refused
      /\ replies' = replies /\ acker' = acker /\ runs' = runs + 1 /\ runs' \in RunIds
      /\ runs <= runs'
  BY Known, DispatchAssumption DEF HumanStart, store, history, RunIds
<1>1. /\ tab'[runs'].ws = w /\ tab'[runs'].d = 0
      /\ host'[runs'] = "working" /\ child'[runs'] = "alive"
      /\ \A q \in RunIds : q # runs' => tab'[q] = tab[q] /\ host'[q] = host[q] /\ child'[q] = child[q]
  BY <1>0, Known DEF HumanStart, Tabs
<1>2. tab[runs'].ws = None /\ tab[runs'].d = 0
  BY <1>0, Known DEF IInv, Safe, Honest
<1>3. \A q \in RunIds :
        /\ tab'[q].d = tab[q].d
        /\ IsWorker(q, tab', host', child') => IsWorker(q, tab, host, child) /\ tab'[q].ws = tab[q].ws
        /\ (q <= runs /\ tab[q].ws = None) => tab'[q].ws = None
  <2> SUFFICES ASSUME NEW q \in RunIds
      PROVE /\ tab'[q].d = tab[q].d
            /\ IsWorker(q, tab', host', child') => IsWorker(q, tab, host, child) /\ tab'[q].ws = tab[q].ws
            /\ (q <= runs /\ tab[q].ws = None) => tab'[q].ws = None
    OBVIOUS
  <2>1. CASE q = runs'
    BY <1>0, <1>1, <1>2, <2>1, Known DEF IsWorker
  <2>2. CASE q # runs'
    BY <1>1, <2>2 DEF IsWorker
  <2> QED BY <2>1, <2>2
<1>4. Honest(tab', host', child', runs')
  <2> SUFFICES ASSUME NEW q \in RunIds
      PROVE /\ host'[q] = "report" => child'[q] = "over"
            /\ host'[q] \in {"none", "born", "failing"} => child'[q] = "none"
            /\ q > runs' => tab'[q].ws = None
            /\ tab'[q].ws = None => host'[q] = "none" /\ tab'[q].d = 0 /\ ~tab'[q].open
    BY DEF Honest
  <2>1. CASE q = runs'
    BY <1>0, <1>1, <2>1, Known, DispatchAssumption
  <2>2. CASE q # runs'
    BY <1>0, <1>1, <2>2, Known, DispatchAssumption DEF IInv, Safe, Honest, RunIds
  <2> QED BY <2>1, <2>2
<1> QED BY <1>0, <1>3, <1>4, Known, ProcessStep DEF IInv

\* A crash leaves what is on disk and at most the workers there were.
LEMMA CrashStep ==
  ASSUME IInv, TypeOK', Crash
  PROVE  Safe' /\ Advances(ds, ds')
<1>0. /\ ds' = diskDs /\ diskDs' = diskDs /\ srv' = Idle /\ spawns' = spawns /\ refused' = refused
      /\ replies' = replies /\ acker' = acker /\ runs' = runs
      /\ tab' = [r \in RunIds |-> [tab[r] EXCEPT !.open = FALSE]]
      /\ host' = [r \in RunIds |-> IF host[r] = "none" THEN "none" ELSE "dead"]
      /\ \A r \in RunIds : child'[r] = child[r] \/ (child[r] = "alive" /\ child'[r] = "over")
  BY DEF Crash, history
<1>1. \A q \in RunIds : tab'[q].d = tab[q].d /\ tab'[q].ws = tab[q].ws /\ tab'[q].open = FALSE
  BY <1>0, Known, TabFlags
<1>2. \A q \in RunIds : IsWorker(q, tab', host', child') => IsWorker(q, tab, host, child)
  BY <1>0, <1>1 DEF IsWorker, Busy
<1>3. Honest(tab', host', child', runs')
  BY <1>0, <1>1 DEF IInv, Safe, Honest
<1>4. tab' \in Tabs
  BY Types DEF TypeOK, Tabs
<1>5. Good(diskDs, tab', host', child', runs, spawns, refused, replies, acker)
  BY <1>1, <1>2, <1>4, Known, Fewer DEF IInv, Safe
<1>6. Starting'
  BY <1>0 DEF Starting, Idle
<1> QED BY <1>0, <1>3, <1>5, <1>6, Known DEF IInv, Safe

\* A store stays good when a fresh dispatch takes its next position.
LEMMA Added ==
  ASSUME IInv, NEW k \in Keys, NEW w \in Works, NEW d \in Ds, ds[d] = None,
         SameRequest(k) = {}, \A b \in SavedDs : ds[b].ws = w => ~Holds(ds[b]),
         NEW e \in Dispatched, e.key = k, e.ws = w, e.run = 0, e.phase = "prepared"
  PROVE  /\ Good([ds EXCEPT ![d] = e], tab, host, child, runs, spawns, refused, replies, acker)
         /\ Advances(ds, [ds EXCEPT ![d] = e])
<1> DEFINE q == [ds EXCEPT ![d] = e]
<1>1. e # None
  BY NoDispatchAssumption
<1>2. q \in Store /\ q[d] = e /\ \A b \in Ds \ {d} : q[b] = ds[b]
  BY Known DEF Store
<1>3. \A b \in Ds : ds[b] # None =>
        /\ b # d /\ q[b] = ds[b] /\ ds[b].key # k /\ (Holds(ds[b]) => ds[b].ws # w)
  BY <1>2 DEF SameRequest, SavedDs
<1> HIDE DEF q
<1>4. Distinct(q)
  <2> SUFFICES ASSUME NEW a \in Ds, NEW b \in Ds, a # b, q[a] # None, q[b] # None
               PROVE  /\ q[a].key # q[b].key
                      /\ (Holds(q[a]) /\ Holds(q[b])) => q[a].ws # q[b].ws
                      /\ q[a].run # 0 => q[a].run # q[b].run
    BY DEF Distinct
  <2>1. CASE a = d
    BY <1>2, <1>3, <2>1
  <2>2. CASE b = d
    BY <1>2, <1>3, <2>2
  <2>3. CASE a # d /\ b # d
    BY <1>2, <2>3 DEF IInv, Safe, Good, Distinct
  <2> QED BY <2>1, <2>2, <2>3
<1>5. Given(q, tab, runs)
  <2> SUFFICES ASSUME NEW b \in Ds, q[b] # None, q[b].run # 0
               PROVE  /\ q[b].run <= runs /\ q[b].phase \in Launched
                      /\ tab[q[b].run].ws = None \/ tab[q[b].run].d = b
    BY DEF Given
  <2>1. b # d /\ q[b] = ds[b]
    BY <1>2
  <2> QED BY <2>1 DEF IInv, Safe, Good, Given
<1>6. Held(q, tab, host, child)
  <2> SUFFICES ASSUME NEW r \in RunIds, IsWorker(r, tab, host, child)
               PROVE  /\ q[tab[r].d] # None /\ q[tab[r].d].run = r
                      /\ q[tab[r].d].ws = tab[r].ws /\ q[tab[r].d].phase \in Launching
    BY DEF Held
  <2>1. tab[r].d \in Ds
    BY Known DEF Tabs, IsWorker, Ds
  <2>2. /\ ds[tab[r].d] # None /\ ds[tab[r].d].run = r
        /\ ds[tab[r].d].ws = tab[r].ws /\ ds[tab[r].d].phase \in Launching
    BY DEF IInv, Safe, Good, Held
  <2> QED BY <1>3, <2>1, <2>2
<1>7. Recorded(q, spawns) /\ Refused(q, refused)
  BY <1>1, <1>2, Known DEF IInv, Safe, Good, Recorded, Refused
<1>8. Replied(q, replies)
  <2> SUFFICES ASSUME NEW x \in replies PROVE q[x[2]] # None /\ q[x[2]].key = x[1]
    BY DEF Replied
  <2>1. x[2] \in Ds
    BY Known
  <2> QED BY <1>3, <2>1 DEF IInv, Safe, Good, Replied
<1>9. Acked(q, tab, acker)
  <2> SUFFICES ASSUME NEW b \in Ds, NEW r \in acker[b]
               PROVE  /\ tab[r].d = b /\ q[b] # None /\ q[b].run = r
                      /\ q[b].surfaced /\ q[b].acked
    BY DEF Acked
  <2>1. /\ tab[r].d = b /\ ds[b] # None /\ ds[b].run = r
        /\ ds[b].surfaced /\ ds[b].acked
    BY DEF IInv, Safe, Good, Acked
  <2> QED BY <1>3, <2>1
<1>10. Advances(ds, q)
  BY <1>3 DEF Advances, Follows
<1> QED BY <1>2, <1>4, <1>5, <1>6, <1>7, <1>8, <1>9, <1>10 DEF Good, q

\* A prepared dispatch, or the one a repeated request finds, keeps the invariant.
LEMMA PrepareStep ==
  ASSUME IInv, TypeOK', NEW k \in Keys, NEW w \in Works, PrepareWorker(k, w)
  PROVE  Safe' /\ Advances(ds, ds')
<1>0. /\ tab' = tab /\ host' = host /\ child' = child /\ runs' = runs /\ spawns' = spawns
      /\ refused' = refused /\ acker' = acker /\ srv' = srv /\ srv = Idle
  BY DEF PrepareWorker, processes
<1>1. Starting' /\ Honest(tab', host', child', runs')
  BY <1>0 DEF IInv, Safe, Starting, Idle
<1>2. ASSUME NEW d \in SameRequest(k), replies' = replies \union {<<k, d>>}, UNCHANGED store
      PROVE  Safe' /\ Advances(ds, ds')
  <2>1. d \in Ds /\ ds[d] # None /\ ds[d].key = k
    BY <1>2 DEF SameRequest, SavedDs
  <2>2. diskDs[d] # None /\ diskDs[d].key = k
    BY <2>1 DEF IInv, Safe, Advances
  <2>3. Replied(ds, replies') /\ Replied(diskDs, replies')
    BY <1>2, <2>1, <2>2 DEF IInv, Safe, Good, Replied
  <2>4. ds' = ds /\ diskDs' = diskDs
    BY <1>2 DEF store
  <2> QED BY <1>0, <1>1, <2>3, <2>4, Known DEF IInv, Safe, Good
<1>3. ASSUME NEW d \in Ds, ds[d] = None,
             SameRequest(k) = {}, \A b \in SavedDs : ds[b].ws = w => ~Holds(ds[b]),
             \/ /\ Commits([ds EXCEPT ![d] = Fresh(k, w, epoch)])
                /\ replies' = replies \union {<<k, d>>}
             \/ CommitFails([ds EXCEPT ![d] = Fresh(k, w, epoch)]) /\ UNCHANGED replies
      PROVE  Safe' /\ Advances(ds, ds')
  <2> DEFINE e == Fresh(k, w, epoch)
             q == [ds EXCEPT ![d] = e]
  <2>1. /\ e \in Dispatched /\ e.key = k /\ e.ws = w /\ e.run = 0 /\ e.phase = "prepared"
    BY DispatchAssumption DEF Fresh, Dispatched, Unlaunched, IInv, TypeOK
  <2>2. q[d] = e /\ e # None
    BY <2>1, Known, NoDispatchAssumption DEF Store
  <2> HIDE DEF e
  <2>3. /\ Good(q, tab, host, child, runs, spawns, refused, replies, acker)
        /\ Advances(ds, q)
    BY <1>3, <2>1, Added
  <2>4. Advances(q, q)
    BY <2>3, AdvancesToItself DEF Good
  <2>5. CASE Commits(q) /\ replies' = replies \union {<<k, d>>}
    <3>1. ds' = q /\ diskDs' = q
      BY <2>5 DEF Commits
    <3>2. Replied(q, replies')
      BY <2>1, <2>2, <2>3, <2>5 DEF Good, Replied
    <3> HIDE DEF q
    <3> QED BY <1>0, <1>1, <2>3, <2>4, <3>1, <3>2 DEF IInv, Safe, Good
  <2>6. CASE CommitFails(q) /\ UNCHANGED replies
    <3>1. ds' = ds /\ (diskDs' = q \/ diskDs' = diskDs)
      BY <2>6 DEF CommitFails
    <3> HIDE DEF q
    <3> QED BY <1>0, <1>1, <2>3, <2>6, <3>1, Known DEF IInv, Safe
  <2> QED BY <1>3, <2>5, <2>6 DEF e
<1> QED BY <1>2, <1>3 DEF PrepareWorker

\* A host's report of its own run keeps the invariant.
LEMMA EventStep ==
  ASSUME IInv, TypeOK', NEW r \in RunIds, WorkerEvent(r)
  PROVE  Safe' /\ Advances(ds, ds')
<1>0. PICK d \in SavedDs :
        /\ d = tab[r].d /\ ds[d].run = r
        /\ Report(r) = "started" => ds[d].phase \in {"reserved", "hosted"}
        /\ \/ Commits([ds EXCEPT ![d].phase = Report(r)])
           \/ CommitFails([ds EXCEPT ![d].phase = Report(r)])
  BY DEF WorkerEvent
<1> DEFINE p == Report(r)
           e == [ds[d] EXCEPT !.phase = p]
<1>1. d \in Ds /\ ds[d] # None /\ d # 0 /\ r # 0
  BY <1>0 DEF SavedDs, Ds, RunIds
<1>2. /\ tab' = tab /\ child' = child /\ runs' = runs /\ spawns' = spawns /\ refused' = refused
      /\ replies' = replies /\ acker' = acker /\ srv' = srv /\ srv = Idle
      /\ host' = [host EXCEPT ![r] = Reported(r)]
  BY DEF WorkerEvent, history
<1>3. host'[r] = Reported(r) /\ \A q \in RunIds : q # r => host'[q] = host[q]
  BY <1>2, Known
<1>4. /\ p \in {"started", "exited", "failed"} /\ host[r] \in {"announce", "report", "failing"}
      /\ p = "started" <=> host[r] = "announce"
      /\ host'[r] = IF p = "started" THEN "working" ELSE "return"
      /\ p # "started" => child[r] # "alive"
  BY <1>3 DEF WorkerEvent, Report, Reported, IInv, Safe, Honest
<1>5. IsWorker(r, tab, host, child)
  BY <1>0, <1>1, <1>4 DEF IsWorker, Busy
<1>6. ds[d].phase \in Launching
  BY <1>0, <1>5 DEF IInv, Safe, Good, Held
<1>7. \A q \in RunIds : IsWorker(q, tab, host', child) => IsWorker(q, tab, host, child)
  BY <1>3, <1>5 DEF IsWorker
<1>8. /\ Good(ds, tab, host', child, runs, spawns, refused, replies, acker)
      /\ Good(diskDs, tab, host', child, runs, spawns, refused, replies, acker)
  BY <1>7, Known, Fewer DEF IInv, Safe
<1>9. ds[d] \in Dispatched
  BY <1>1, Known DEF Store
<1>10. e \in Dispatched /\ [ds EXCEPT ![d].phase = p] = [ds EXCEPT ![d] = e]
  <2> HIDE DEF p
  <2>1. p \in Unlaunched \union Launched
    BY <1>4 DEF Launched, Launching, Over
  <2> QED BY <1>1, <2>1, Known, ChangedType
<1>11. Commits([ds EXCEPT ![d] = e]) \/ CommitFails([ds EXCEPT ![d] = e])
  BY <1>0, <1>10
<1> HIDE DEF p
<1>12. /\ e.key = ds[d].key /\ e.ws = ds[d].ws /\ e.phase = p /\ e.run = ds[d].run
       /\ e.surfaced = ds[d].surfaced /\ e.acked = ds[d].acked
  BY <1>9 DEF Dispatched
<1> HIDE DEF e
<1>13. Follows(ds[d].phase, e.phase)
  BY <1>0, <1>4, <1>6, <1>12 DEF Follows, Launching, Over, p
<1>14. Holds(ds[d]) /\ e.phase \in Launched /\ d \notin refused
  BY <1>1, <1>4, <1>6, <1>12 DEF Holds, Launched, Launching, Over, IInv, Safe, Good, Refused
<1>15. ASSUME NEW q \in RunIds, IsWorker(q, tab, host', child), tab[q].d = d
       PROVE  e.phase \in Launching
  <2>1. q = r
    BY <1>0, <1>7, <1>15 DEF IInv, Safe, Good, Held
  <2>2. p = "started"
    BY <1>4, <1>15, <2>1 DEF IsWorker, Busy
  <2> QED BY <1>12, <2>2 DEF Launching
<1>16. /\ Good(ds', tab, host', child, runs, spawns, refused, replies, acker)
       /\ Good(diskDs', tab, host', child, runs, spawns, refused, replies, acker)
       /\ Advances(ds', diskDs') /\ Advances(ds, ds')
  BY <1>1, <1>8, <1>10, <1>11, <1>12, <1>13, <1>14, <1>15, Known, Saves DEF IInv, Safe
<1>17. Starting'
  BY <1>2 DEF Starting, Idle
<1>18. Honest(tab', host', child', runs')
  BY <1>2, <1>3, <1>4, Known DEF IInv, Safe, Honest
<1> QED BY <1>2, <1>16, <1>17, <1>18 DEF IInv, Safe

\* Surfacing or acknowledging a dispatch changes nothing else of it.
LEMMA FlagStep ==
  ASSUME IInv, TypeOK', NEW d \in Ds, ds[d] # None, NEW e \in Dispatched,
         e.key = ds[d].key, e.ws = ds[d].ws, e.phase = ds[d].phase, e.run = ds[d].run,
         ds[d].surfaced => e.surfaced, ds[d].acked => e.acked,
         Commits([ds EXCEPT ![d] = e]) \/ CommitFails([ds EXCEPT ![d] = e])
  PROVE  /\ Good(ds', tab, host, child, runs, spawns, refused, replies, acker)
         /\ Good(diskDs', tab, host, child, runs, spawns, refused, replies, acker)
         /\ Advances(ds', diskDs') /\ Advances(ds, ds')
<1>1. Follows(ds[d].phase, e.phase) /\ (Holds(e) => Holds(ds[d]))
  BY DEF Follows, Holds
<1>2. /\ e.run # 0 => e.phase \in Launched
      /\ spawns[d] # 0 => e.phase \in Launched
      /\ d \in refused => e.phase \in {"blocked", "cancelled"}
  BY DEF IInv, Safe, Good, Given, Recorded, Refused
<1>3. \A r \in RunIds : (IsWorker(r, tab, host, child) /\ tab[r].d = d) => e.phase \in Launching
  BY DEF IInv, Safe, Good, Held
<1> QED BY <1>1, <1>2, <1>3, Known, Saves DEF IInv, Safe

\* Surfacing an assignment keeps the invariant.
LEMMA ContextStep ==
  ASSUME IInv, TypeOK', NEW r \in RunIds, GetContext(r)
  PROVE  Safe' /\ Advances(ds, ds')
<1>0. PICK d \in SavedDs : \/ Commits([ds EXCEPT ![d].surfaced = TRUE])
                           \/ CommitFails([ds EXCEPT ![d].surfaced = TRUE])
  BY DEF GetContext, Assignment
<1> DEFINE e == [ds[d] EXCEPT !.surfaced = TRUE]
<1>1. d \in Ds /\ ds[d] # None
  BY <1>0 DEF SavedDs
<1>2. e \in Dispatched /\ [ds EXCEPT ![d].surfaced = TRUE] = [ds EXCEPT ![d] = e]
  BY <1>1, Known, ChangedType
<1>3. ds[d] \in Dispatched
  BY <1>1, Known DEF Store
<1>4. /\ e.key = ds[d].key /\ e.ws = ds[d].ws /\ e.phase = ds[d].phase /\ e.run = ds[d].run
      /\ e.surfaced /\ e.acked = ds[d].acked
  BY <1>3 DEF Dispatched
<1>5. Commits([ds EXCEPT ![d] = e]) \/ CommitFails([ds EXCEPT ![d] = e])
  BY <1>0, <1>2
<1> HIDE DEF e
<1>6. /\ Good(ds', tab, host, child, runs, spawns, refused, replies, acker)
      /\ Good(diskDs', tab, host, child, runs, spawns, refused, replies, acker)
      /\ Advances(ds', diskDs') /\ Advances(ds, ds')
  BY <1>1, <1>2, <1>4, <1>5, FlagStep
<1>7. /\ tab' = tab /\ host' = host /\ child' = child /\ runs' = runs /\ spawns' = spawns
      /\ refused' = refused /\ replies' = replies /\ acker' = acker /\ srv' = srv /\ srv = Idle
  BY DEF GetContext, processes, history
<1> QED BY <1>6, <1>7 DEF IInv, Safe, Starting, Idle

\* The worker that acknowledges is the one its dispatch was started for.
LEMMA AckStep ==
  ASSUME IInv, TypeOK', NEW r \in RunIds, NEW d \in Ds, AckAssignment(r, d)
  PROVE  Safe' /\ Advances(ds, ds')
<1> DEFINE e == [ds[d] EXCEPT !.acked = TRUE]
           more == [acker EXCEPT ![d] = @ \union {r}]
<1>0. /\ ds[d] # None /\ ds[d].run = r /\ ds[d].surfaced /\ tab[r].open /\ r # 0
  BY DEF AckAssignment, SavedDs, MayAck, Agent, RunIds
<1>1. /\ tab' = tab /\ host' = host /\ child' = child /\ runs' = runs /\ spawns' = spawns
      /\ refused' = refused /\ replies' = replies /\ srv' = srv /\ srv = Idle
  BY DEF AckAssignment, processes
<1>2. Starting' /\ Honest(tab', host', child', runs')
  BY <1>1 DEF IInv, Safe, Starting, Idle
<1>3. tab[r].d = d
  BY <1>0 DEF IInv, Safe, Honest, Good, Given
<1>4. ASSUME NEW s, Acked(s, tab, acker),
             s[d] # None, s[d].run = r, s[d].surfaced, s[d].acked
      PROVE  Acked(s, tab, more)
  <2> SUFFICES ASSUME NEW b \in Ds, NEW q \in more[b]
               PROVE  /\ tab[q].d = b /\ s[b] # None /\ s[b].run = q
                      /\ s[b].surfaced /\ s[b].acked
    BY DEF Acked
  <2>1. CASE q \in acker[b]
    BY <1>4, <2>1 DEF Acked
  <2>2. CASE q \notin acker[b]
    <3>1. b = d /\ q = r
      BY <2>2, Known
    <3> QED BY <1>3, <1>4, <3>1
  <2> QED BY <2>1, <2>2
<1>5. CASE ds[d].acked
  <2>1. ds' = ds /\ diskDs' = diskDs /\ acker' = more
    BY <1>5 DEF AckAssignment, store
  <2>2. diskDs[d] # None /\ diskDs[d].run = r /\ diskDs[d].surfaced /\ diskDs[d].acked
    BY <1>0, <1>5 DEF IInv, Safe, Advances
  <2>3. Acked(ds, tab, more) /\ Acked(diskDs, tab, more)
    BY <1>0, <1>4, <1>5, <2>2 DEF IInv, Safe, Good
  <2> HIDE DEF more
  <2> QED BY <1>1, <1>2, <2>1, <2>3, Known DEF IInv, Safe, Good
<1>6. CASE ~ds[d].acked
  <2>1. e \in Dispatched /\ [ds EXCEPT ![d].acked = TRUE] = [ds EXCEPT ![d] = e]
    BY <1>0, Known, ChangedType
  <2>2. ds[d] \in Dispatched
    BY <1>0, Known DEF Store
  <2>3. /\ e.key = ds[d].key /\ e.ws = ds[d].ws /\ e.phase = ds[d].phase /\ e.run = ds[d].run
        /\ e.surfaced = ds[d].surfaced /\ e.acked
    BY <2>2 DEF Dispatched
  <2>4. \/ Commits([ds EXCEPT ![d] = e]) /\ acker' = more
        \/ CommitFails([ds EXCEPT ![d] = e]) /\ UNCHANGED acker
    BY <1>6, <2>1 DEF AckAssignment
  <2> HIDE DEF e
  <2>5. /\ Good(ds', tab, host, child, runs, spawns, refused, replies, acker)
        /\ Good(diskDs', tab, host, child, runs, spawns, refused, replies, acker)
        /\ Advances(ds', diskDs') /\ Advances(ds, ds')
    BY <1>0, <2>1, <2>3, <2>4, FlagStep
  <2>6. Acked(ds', tab, acker') /\ Acked(diskDs', tab, acker')
    <3>1. CASE UNCHANGED acker
      BY <2>5, <3>1 DEF Good
    <3>2. CASE Commits([ds EXCEPT ![d] = e]) /\ acker' = more
      <4>1. ds'[d] = e /\ diskDs' = ds' /\ e # None
        BY <2>1, <3>2, Known, NoDispatchAssumption DEF Commits, Store
      <4>2. /\ ds'[d] # None /\ ds'[d].run = r /\ ds'[d].surfaced /\ ds'[d].acked
        BY <1>0, <2>3, <4>1
      <4>3. Acked(ds', tab, more)
        BY <1>4, <2>5, <4>2 DEF Good
      <4> QED BY <3>2, <4>1, <4>3
    <3> QED BY <2>4, <3>1, <3>2
  <2> QED BY <1>1, <1>2, <2>5, <2>6 DEF IInv, Safe, Good
<1> QED BY <1>5, <1>6

\* A save of unchanged dispatches keeps the invariant, whether it fails or not.
LEMMA OtherStep ==
  ASSUME IInv, TypeOK', OtherSave \/ \E r \in RunIds : Observe(r)
  PROVE  Safe' /\ Advances(ds, ds')
<1>1. /\ tab' = tab /\ host' = host /\ child' = child /\ runs' = runs /\ spawns' = spawns
      /\ refused' = refused /\ replies' = replies /\ acker' = acker /\ srv' = srv /\ srv = Idle
      /\ ds' = ds /\ (diskDs' = ds \/ diskDs' = diskDs)
  BY DEF OtherSave, Observe, processes, history
<1> QED BY <1>1, Known DEF IInv, Safe, Starting, Idle

\* No step breaks the invariant or takes the records in memory back.
LEMMA Step ==
  IInv /\ [Next]_vars => IInv' /\ Advances(ds, ds')
<1> SUFFICES ASSUME IInv, [Next]_vars PROVE IInv' /\ Advances(ds, ds')
  OBVIOUS
<1>1. TypeOK'
  BY TypeStep DEF IInv, Safe
<1>2. CASE UNCHANGED vars
  BY <1>1, <1>2, Known DEF vars, store, processes, history, IInv, Safe, Starting
<1>3. CASE Supervisor
  BY <1>1, <1>3, PrepareStep, RefuseStep, StartWorkerStep, SpawnStep, HostedStep, OtherStep
  DEF Supervisor, IInv
<1>4. CASE Processes
  BY <1>1, <1>4, HumanStep, HostStep, EventStep, TabStep, ContextStep, OtherStep, AckStep
  DEF Processes, IInv
<1>5. CASE Crash
  BY <1>1, <1>5, CrashStep DEF IInv
<1> QED BY <1>2, <1>3, <1>4, <1>5 DEF Next

\* The invariant holds before anything was dispatched.
LEMMA Initially == Init => IInv
<1> SUFFICES ASSUME Init PROVE IInv
  OBVIOUS
<1> USE DispatchAssumption
<1>1. TypeOK
  BY DEF Init, TypeOK, Idle, NoTab, Hosts
<1>2. \A d \in Ds : ds[d] = None /\ diskDs[d] = None /\ spawns[d] = 0 /\ acker[d] = {}
  BY DEF Init
<1>3. \A r \in RunIds : /\ tab[r].ws = None /\ tab[r].d = 0 /\ tab[r].open = FALSE
                        /\ host[r] = "none" /\ child[r] = "none"
  BY DEF Init, NoTab
<1>4. refused = {} /\ replies = {} /\ diskDs = ds /\ srv.pc = "idle" /\ ds \in Store
  BY DEF Init, Idle, Store
<1>5. Good(ds, tab, host, child, runs, spawns, refused, replies, acker)
  BY <1>2, <1>3, <1>4 DEF Good, Distinct, Given, Held, IsWorker, Recorded, Refused, Replied, Acked
<1>6. Advances(ds, diskDs) /\ Honest(tab, host, child, runs) /\ Starting
  BY <1>2, <1>3, <1>4 DEF Advances, Honest, Starting
<1> QED BY <1>1, <1>2, <1>4, <1>5, <1>6 DEF IInv, Safe

----------------------------------------------------------------------------
(* Theorems.                                                                 *)

\* The inductive invariant holds in every state of every behaviour.
THEOREM Invariant == Spec => []IInv
<1>1. Init => IInv
  BY Initially
<1>2. IInv /\ [Next]_vars => IInv'
  BY Step
<1> QED BY <1>1, <1>2, PTL DEF Spec

\* Every variable keeps its type.
THEOREM TypeCorrect == Spec => []TypeOK
<1>1. IInv => TypeOK
  BY DEF IInv
<1> QED BY <1>1, Invariant, PTL

\* A dispatch is started at most once, whatever fails and is repeated.
THEOREM NeverStartedTwice == Spec => []StartedOnce
<1>1. IInv => StartedOnce
  BY DEF IInv, Safe, StartedOnce
<1> QED BY <1>1, Invariant, PTL

\* Two dispatched workers never run in one workspace.
THEOREM WorkersNeverMeet == Spec => []OneWorkerPerWorkspace
<1>1. ASSUME IInv, NEW q \in RunIds, NEW r \in RunIds, q # r, Worker(q), Worker(r)
      PROVE  tab[q].ws # tab[r].ws
  <2>1. IsWorker(q, tab, host, child) /\ IsWorker(r, tab, host, child)
    BY <1>1 DEF Worker, IsWorker, Busy
  <2>2. /\ ds[tab[q].d] # None /\ ds[tab[q].d].run = q
        /\ ds[tab[q].d].ws = tab[q].ws /\ ds[tab[q].d].phase \in Launching
        /\ ds[tab[r].d] # None /\ ds[tab[r].d].run = r
        /\ ds[tab[r].d].ws = tab[r].ws /\ ds[tab[r].d].phase \in Launching
    BY <1>1, <2>1 DEF IInv, Safe, Good, Held
  <2>3. Holds(ds[tab[q].d]) /\ Holds(ds[tab[r].d])
    BY <2>2 DEF Holds
  <2>4. tab[q].d \in Ds /\ tab[r].d \in Ds
    BY <1>1, <2>1, Known DEF Tabs, IsWorker, Ds
  <2> QED BY <1>1, <2>2, <2>3, <2>4 DEF IInv, Safe, Good, Distinct
<1>2. IInv => OneWorkerPerWorkspace
  BY <1>1 DEF OneWorkerPerWorkspace
<1> QED BY <1>2, Invariant, PTL

\* A dispatch reported blocked or cancelled is never launched.
THEOREM RefusalStands == Spec => []RefusedStaysUnlaunched
<1>1. ASSUME IInv, NEW d \in refused
      PROVE  /\ spawns[d] = 0
             /\ \A s \in {ds, diskDs} : s[d] # None /\ s[d].phase \in {"blocked", "cancelled"}
  <2>1. \A s \in {ds, diskDs} : s[d] # None /\ s[d].phase \in {"blocked", "cancelled"}
    BY <1>1 DEF IInv, Safe, Good, Refused
  <2>2. d \in Ds
    BY <1>1, Known
  <2>3. spawns[d] = 0
    BY <1>1, <2>1, <2>2, Unborn DEF Unlaunched
  <2> QED BY <2>1, <2>3
<1>2. IInv => RefusedStaysUnlaunched
  BY <1>1 DEF RefusedStaysUnlaunched
<1> QED BY <1>2, Invariant, PTL

\* A request of a coordinator is recorded once, and every reply named that record.
THEOREM RequestsAreIdempotent == Spec => []OneDispatchPerRequest
<1>1. IInv => OneDispatchPerRequest
  BY DEF IInv, Safe, Good, Distinct, Replied, OneDispatchPerRequest
<1> QED BY <1>1, Invariant, PTL

\* Only the hosted run of a dispatch acknowledged it, and the disk knows.
THEOREM AckIsTheWorkers == Spec => []AcknowledgedByItsWorker
<1>1. IInv => AcknowledgedByItsWorker
  BY DEF IInv, Safe, Good, Acked, AcknowledgedByItsWorker
<1> QED BY <1>1, Invariant, PTL

\* No step, not even a crash and restart, takes a dispatch back.
THEOREM PhasesOnlyAdvance == Spec => PhaseNeverReturns
<1> DEFINE A == \A d \in SavedDs :
                  /\ ds'[d] # None /\ ds'[d].key = ds[d].key /\ ds'[d].ws = ds[d].ws
                  /\ Follows(ds[d].phase, ds'[d].phase)
<1>1. IInv /\ [Next]_vars => [A]_vars
  BY Step DEF Advances, SavedDs
<1>2. Spec => [][A]_vars
  BY <1>1, Invariant, PTL DEF Spec
<1> QED BY <1>2 DEF PhaseNeverReturns
----------------------------------------------------------------------------
(* Dispatch implements DispatchPromise.                                      *)

\* What DispatchPromise sees of the launches, and of given tabs, hosts and children.
Launches == {d \in Ds : spawns[d] > 0}
Working(r, t, h, c) == t[r].d # 0 /\ (h[r] = "born" \/ c[r] = "alive")
Running(t, h, c) ==
  [w \in Works |-> {t[r].d : r \in {q \in RunIds : Working(q, t, h, c) /\ t[q].ws = w}}]

\* A dispatch runs in a workspace exactly if a worker of it does.
LEMMA RunsThere ==
  ASSUME NEW t \in Tabs, NEW h, NEW c
  PROVE  /\ Running(t, h, c) \in [Works -> SUBSET Ds]
         /\ \A w \in Works : \A d \in Running(t, h, c)[w] :
              \E r \in RunIds : Working(r, t, h, c) /\ t[r].ws = w /\ t[r].d = d
         /\ \A w \in Works : \A r \in RunIds :
              Working(r, t, h, c) /\ t[r].ws = w => t[r].d \in Running(t, h, c)[w]
<1>1. \A r \in RunIds : Working(r, t, h, c) => t[r].d \in Ds
  BY DEF Tabs, Working, Ds
<1>2. \A w \in Works :
        Running(t, h, c)[w] = {t[r].d : r \in {q \in RunIds : Working(q, t, h, c) /\ t[q].ws = w}}
  BY DEF Running
<1>3. \A w \in Works : Running(t, h, c)[w] \subseteq Ds
  BY <1>1, <1>2
<1>4. Running(t, h, c) \in [Works -> SUBSET Ds]
  BY <1>3 DEF Running
<1> QED BY <1>2, <1>4

\* The promise's view of the next state.
LEMMA View ==
  /\ {d \in Ds : spawns[d] > 0} = Launches /\ {d \in Ds : spawns'[d] > 0} = Launches'
  /\ [w \in Works |-> {tab[r].d : r \in {q \in RunIds : Worker(q) /\ tab[q].ws = w}}]
       = Running(tab, host, child)
  /\ [w \in Works |-> {tab[r].d : r \in {q \in RunIds : Worker(q) /\ tab[q].ws = w}}]'
       = Running(tab', host', child')
BY DEF Launches, Running, Worker, Working

\* A step after which no worker is new ends workers, or does nothing.
LEMMA EndStep ==
  ASSUME TypeOK, TypeOK', refused' = refused, spawns' = spawns,
         \A r \in RunIds : Working(r, tab', host', child') =>
           Working(r, tab, host, child) /\ tab'[r].d = tab[r].d /\ tab'[r].ws = tab[r].ws
  PROVE  Promise!Next
<1>0. tab \in Tabs /\ tab' \in Tabs
  BY DEF TypeOK, Tabs
<1> DEFINE old == Running(tab, host, child)
           new == Running(tab', host', child')
<1>1. new \in [Works -> SUBSET Ds]
  BY <1>0, RunsThere
<1>2. ASSUME NEW w \in Works PROVE new[w] \subseteq old[w]
  <2> SUFFICES ASSUME NEW d \in new[w] PROVE d \in old[w]
    OBVIOUS
  <2>1. PICK r \in RunIds : Working(r, tab', host', child') /\ tab'[r].ws = w /\ tab'[r].d = d
    BY <1>0, RunsThere
  <2>2. Working(r, tab, host, child) /\ tab[r].ws = w /\ tab[r].d = d
    BY <2>1
  <2> QED BY <1>0, <2>2, RunsThere
<1>3. Launches' = Launches
  BY DEF Launches
<1> HIDE DEF old, new
<1>4. Promise!End
  BY <1>1, <1>2, <1>3, View DEF Promise!End, old, new
<1> QED BY <1>4 DEF Promise!Next

\* The spawn of a host launches its dispatch in an empty workspace.
LEMMA LaunchStep ==
  ASSUME IInv, TypeOK', Spawn
  PROVE  Promise!Next
<1> DEFINE d == srv.d
           r == srv.run
           w == ds[d].ws
           old == Running(tab, host, child)
           new == Running(tab', host', child')
           Was(q) == Working(q, tab, host, child)
           Is(q) == Working(q, tab', host', child')
<1>0. /\ d \in Ds /\ r \in RunIds /\ ds[d] # None /\ ds[d].phase = "reserved"
      /\ spawns[d] = 0 /\ tab[r].ws = None
      /\ \A q \in RunIds : IsWorker(q, tab, host, child) => tab[q].ws # w
  BY Known, DispatchAssumption DEF IInv, Safe, Starting, Spawn, RunIds
<1>1. w \in Works /\ tab \in Tabs /\ tab' \in Tabs
  BY <1>0, Known DEF Store, Dispatched, TypeOK, Tabs
<1>2. /\ tab' = [tab EXCEPT ![r] = [ws |-> w, d |-> d, native |-> TRUE, open |-> TRUE]]
      /\ host' = [host EXCEPT ![r] = "born"] /\ spawns' = [spawns EXCEPT ![d] = @ + 1]
      /\ child' = child /\ refused' = refused
  BY DEF Spawn
<1> HIDE DEF d, r, w, old, new, Was, Is
<1>3. /\ tab'[r].d = d /\ tab'[r].ws = w /\ host'[r] = "born"
      /\ \A q \in RunIds : q # r => tab'[q] = tab[q] /\ host'[q] = host[q]
  BY <1>0, <1>2, Known DEF Tabs
<1>4. spawns'[d] = 1 /\ \A k \in Ds : k # d => spawns'[k] = spawns[k]
  BY <1>0, <1>2, Known
<1>5. d \notin refused /\ d \notin Launches /\ Launches' = Launches \union {d}
  BY <1>0, <1>4, Known DEF IInv, Safe, Good, Refused, Launches
<1>6. \A q \in RunIds : Was(q) => tab[q].ws # w
  BY <1>0 DEF Was, Working, IsWorker, Busy
<1>7. d # 0 /\ child[r] = "none" /\ host[r] = "none"
  BY <1>0 DEF Ds, IInv, Safe, Honest
<1>8. Is(r) /\ ~Was(r) /\ \A q \in RunIds : q # r => (Is(q) <=> Was(q))
  BY <1>2, <1>3, <1>7 DEF Is, Was, Working
<1>9. /\ old \in [Works -> SUBSET Ds] /\ new \in [Works -> SUBSET Ds]
      /\ \A v \in Works : /\ \A k \in old[v] : \E q \in RunIds : Was(q) /\ tab[q].ws = v /\ tab[q].d = k
                          /\ \A k \in new[v] : \E q \in RunIds : Is(q) /\ tab'[q].ws = v /\ tab'[q].d = k
                          /\ \A q \in RunIds : Was(q) /\ tab[q].ws = v => tab[q].d \in old[v]
                          /\ \A q \in RunIds : Is(q) /\ tab'[q].ws = v => tab'[q].d \in new[v]
  BY <1>1, RunsThere DEF old, new, Was, Is
<1>10. old[w] = {}
  BY <1>1, <1>6, <1>9
<1>11. ASSUME NEW v \in Works PROVE new[v] = IF v = w THEN {d} ELSE old[v]
  <2>1. CASE v = w
    <3>1. d \in new[v]
      BY <1>0, <1>3, <1>8, <1>9, <2>1
    <3>2. ASSUME NEW k \in new[v] PROVE k = d
      <4>1. PICK q \in RunIds : Is(q) /\ tab'[q].ws = v /\ tab'[q].d = k
        BY <1>9
      <4>2. q = r
        BY <1>3, <1>6, <1>8, <2>1, <4>1
      <4> QED BY <1>3, <4>1, <4>2
    <3> QED BY <2>1, <3>1, <3>2
  <2>2. CASE v # w
    <3>1. ASSUME NEW k \in new[v] PROVE k \in old[v]
      <4>1. PICK q \in RunIds : Is(q) /\ tab'[q].ws = v /\ tab'[q].d = k
        BY <1>9
      <4>2. q # r
        BY <1>3, <2>2, <4>1
      <4> QED BY <1>3, <1>8, <1>9, <4>1, <4>2
    <3>2. ASSUME NEW k \in old[v] PROVE k \in new[v]
      <4>1. PICK q \in RunIds : Was(q) /\ tab[q].ws = v /\ tab[q].d = k
        BY <1>9
      <4>2. q # r
        BY <1>8, <4>1
      <4> QED BY <1>3, <1>8, <1>9, <4>1, <4>2
    <3> QED BY <2>2, <3>1, <3>2
  <2> QED BY <2>1, <2>2
<1>12. new = [old EXCEPT ![w] = {d}]
  BY <1>1, <1>9, <1>11
<1>13. ASSUME NEW k \in Ds, NEW v \in Works, k = d, v = w PROVE Promise!Launch(k, v)
  BY <1>2, <1>5, <1>10, <1>12, <1>13, View DEF Promise!Launch, old, new
<1>14. \E k \in Ds : \E v \in Works : Promise!Launch(k, v)
  BY <1>0, <1>1, <1>13
<1> QED BY <1>14 DEF Promise!Next

\* No other step makes a worker.
LEMMA NoNewWorker ==
  ASSUME IInv, TypeOK', [Next]_vars, ~Spawn
  PROVE  /\ spawns' = spawns
         /\ \A r \in RunIds : Working(r, tab', host', child') =>
              Working(r, tab, host, child) /\ tab'[r].d = tab[r].d /\ tab'[r].ws = tab[r].ws
<1> DEFINE Goal ==
      \A r \in RunIds : Working(r, tab', host', child') =>
        Working(r, tab, host, child) /\ tab'[r].d = tab[r].d /\ tab'[r].ws = tab[r].ws
<1>1. ASSUME spawns' = spawns, tab' = tab, host' = host, child' = child
      PROVE  spawns' = spawns /\ Goal
  BY <1>1
<1>2. ASSUME NEW r \in RunIds, HostSpawns(r) \/ ChildEnds(r) \/ HostWaits(r) \/ ReportLost(r)
                               \/ HostDies(r) \/ WorkerEvent(r)
      PROVE  spawns' = spawns /\ Goal
  <2>1. spawns' = spawns /\ tab' = tab
    BY <1>2 DEF HostSpawns, ChildEnds, HostWaits, ReportLost, HostDies, WorkerEvent, history
  <2>2. \A q \in RunIds : q # r => host'[q] = host[q] /\ child'[q] = child[q]
    BY <1>2, Known DEF HostSpawns, ChildEnds, HostWaits, ReportLost, HostDies, WorkerEvent
  <2>3. /\ host'[r] # "born" \/ host[r] = "born"
        /\ child'[r] # "alive" \/ child[r] = "alive" \/ host[r] = "born"
    BY <1>2, Known DEF HostSpawns, ChildEnds, HostWaits, ReportLost, HostDies, WorkerEvent, Reported
  <2> QED BY <2>1, <2>2, <2>3 DEF Working
<1>3. ASSUME NEW r \in RunIds, NativeEnded(r) \/ TabCloses(r)
      PROVE  spawns' = spawns /\ Goal
  <2>1. spawns' = spawns /\ child' = child
    BY <1>3 DEF NativeEnded, TabCloses, history
  <2>2. \A q \in RunIds : host'[q] # "born" \/ host[q] = "born"
    BY <1>3, Known DEF NativeEnded, TabCloses
  <2>3. /\ \A q \in RunIds : q # r => tab'[q] = tab[q]
        /\ \/ tab'[r] = tab[r]
           \/ tab'[r] = [tab[r] EXCEPT !.open = FALSE]
           \/ tab'[r] = [tab[r] EXCEPT !.native = FALSE]
    BY <1>3, Known DEF NativeEnded, TabCloses, Tabs
  <2>4. /\ [tab[r] EXCEPT !.open = FALSE].d = tab[r].d
        /\ [tab[r] EXCEPT !.open = FALSE].ws = tab[r].ws
        /\ [tab[r] EXCEPT !.native = FALSE].d = tab[r].d
        /\ [tab[r] EXCEPT !.native = FALSE].ws = tab[r].ws
    BY Known, TabFlags
  <2>5. tab'[r].d = tab[r].d /\ tab'[r].ws = tab[r].ws
    BY <2>3, <2>4
  <2> QED BY <2>1, <2>2, <2>3, <2>5 DEF Working
<1>4. ASSUME NEW w \in Works, HumanStart(w) PROVE spawns' = spawns /\ Goal
  <2>1. spawns' = spawns /\ runs' \in RunIds
    BY <1>4, Known, DispatchAssumption DEF HumanStart, history, RunIds
  <2>2. /\ tab'[runs'].d = 0
        /\ \A q \in RunIds : q # runs' => tab'[q] = tab[q] /\ host'[q] = host[q] /\ child'[q] = child[q]
    BY <1>4, <2>1, Known DEF HumanStart, Tabs
  <2> QED BY <2>1, <2>2 DEF Working
<1>5. ASSUME Crash PROVE spawns' = spawns /\ Goal
  <2>1. /\ spawns' = spawns /\ tab' = [r \in RunIds |-> [tab[r] EXCEPT !.open = FALSE]]
        /\ \A r \in RunIds : host'[r] # "born" /\ (child'[r] = "alive" => child[r] = "alive")
    BY <1>5 DEF Crash, history
  <2>2. \A q \in RunIds : tab'[q].d = tab[q].d /\ tab'[q].ws = tab[q].ws
    BY <2>1, Known, TabFlags
  <2> QED BY <2>1, <2>2 DEF Working
<1>6. CASE UNCHANGED vars
  BY <1>1, <1>6 DEF vars, processes, history
<1>7. CASE Supervisor
  BY <1>1, <1>7 DEF Supervisor, PrepareWorker, Refuse, StartWorker, SpawnFails, Hosted, OtherSave,
     processes, history
<1>8. ASSUME NEW r \in RunIds, \/ GetContext(r) \/ Observe(r)
                              \/ \E d \in Ds : AckAssignment(r, d)
      PROVE  spawns' = spawns /\ Goal
  BY <1>1, <1>8 DEF GetContext, Observe, AckAssignment, processes, history
<1>9. CASE Processes
  BY <1>2, <1>3, <1>4, <1>8, <1>9 DEF Processes
<1> QED BY <1>5, <1>6, <1>7, <1>9 DEF Next

\* A reported refusal is a refusal of the promise.
LEMMA RefusalStep ==
  ASSUME IInv, TypeOK', NEW d \in Ds, NEW p \in {"cancelled", "blocked"}, Refuse(d, p),
         refused' = refused \union {d}
  PROVE  Promise!Next
<1>1. spawns' = spawns /\ tab' = tab /\ host' = host /\ child' = child
  BY DEF Refuse, processes
<1>2. d \notin Launches
  BY Unborn DEF Refuse, SavedDs, Refusable, Unlaunched, Launches
<1>3. Launches' = Launches /\ Running(tab', host', child') = Running(tab, host, child)
  BY <1>1 DEF Launches
<1>4. Promise!Refuse(d)
  BY <1>2, <1>3, View DEF Promise!Refuse
<1> QED BY <1>4 DEF Promise!Next

\* Every step of the supervisor, its hosts and their workers is one of the promise.
LEMMA PromiseStep ==
  ASSUME IInv, TypeOK', [Next]_vars
  PROVE  Promise!Next
<1>1. CASE Spawn
  BY <1>1, LaunchStep
<1>2. CASE ~Spawn /\ refused' = refused
  BY <1>2, NoNewWorker, EndStep DEF IInv
<1>3. CASE ~Spawn /\ refused' # refused
  <2>1. PICK d \in Ds, p \in {"cancelled", "blocked"} :
          Refuse(d, p) /\ refused' = refused \union {d}
    BY <1>3 DEF Next, Supervisor, Processes, PrepareWorker, Refuse, StartWorker, SpawnFails,
       Hosted, OtherSave, HumanStart, HostSpawns, ChildEnds, HostWaits, WorkerEvent, ReportLost,
       NativeEnded, HostDies, TabCloses, GetContext, Observe, AckAssignment, Crash,
       vars, history
  <2> QED BY <2>1, RefusalStep
<1> QED BY <1>1, <1>2, <1>3

\* Dispatch implements DispatchPromise: launches, refusals and running workers
\* change only as the promise allows.
THEOREM PromiseIsKept == Spec => DispatchPromiseKept
<1>1. Init => Promise!Init
  <2> SUFFICES ASSUME Init PROVE Promise!Init
    OBVIOUS
  <2>1. Launches = {} /\ refused = {}
    BY DEF Init, Launches
  <2>2. Running(tab, host, child) = [w \in Works |-> {}]
    BY DEF Init, NoTab, Running, Working
  <2> QED BY <2>1, <2>2, View DEF Promise!Init
<1>2. IInv /\ TypeOK' /\ [Next]_vars => Promise!Next
  BY PromiseStep
<1> QED BY <1>1, <1>2, Invariant, TypeCorrect, PTL DEF Spec, DispatchPromiseKept, Promise!Spec

=============================================================================
