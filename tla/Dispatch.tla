------------------------------ MODULE Dispatch ------------------------------
(***************************************************************************)
(* Explicit agent dispatch: a coordinator prepares an immutable assignment *)
(* and starts it; the supervisor reserves the start durably, creates a     *)
(* host in a new tab, and the host reports what became of the worker it    *)
(* spawned.  Saves fail, hosts die, their reports get lost, the supervisor *)
(* crashes and loads what is on disk under a new epoch.                    *)
(* A dispatch is named by its position in the saved order.                 *)
(* Source: src/server/dispatch.rs, native.rs (host), server.rs.            *)
(***************************************************************************)
EXTENDS Naturals, FiniteSets

CONSTANTS
  Works,        \* workspaces that workers are dispatched to
  Keys,         \* a coordinator and its request_id
  None,         \* no value
  MaxDispatch,  \* bound: dispatches ever saved
  MaxRun,       \* bound: runs ever hosted
  MaxFaults,    \* bound: failed saves
  MaxCrash      \* bound: supervisor crashes

ASSUME DispatchAssumption ==
  /\ None \notin Works /\ None \notin Keys
  /\ MaxDispatch \in Nat /\ MaxRun \in Nat /\ MaxFaults \in Nat /\ MaxCrash \in Nat

VARIABLES
  ds,       \* coordination.dispatches, in memory
  diskDs,   \* the dispatches a restart would load
  chats,    \* workspaces with a saved conversation, in memory
  diskChats,\* the same, on disk
  epoch,    \* the supervisor's epoch: a new one at every load
  srv,      \* where the supervisor is in start_worker
  runs,     \* run identities given out
  tab,      \* tab[r]: the tab of run r
  host,     \* host[r]: the host process of run r
  child,    \* child[r]: the native process the host spawned
  spawns,   \* history: hosts ever created for a dispatch
  refused,  \* history: dispatches reported blocked or cancelled
  replies,  \* history: <<key, dispatch>> reported by prepare_worker
  acker,    \* history: the runs that acknowledged a dispatch
  faults,   \* failed saves so far
  crashes   \* supervisor crashes so far

store == <<ds, diskDs, chats, diskChats, faults>>
processes == <<tab, host, child>>
history == <<spawns, refused, replies, acker>>
vars == <<store, epoch, srv, runs, processes, history, crashes>>

Ds == 1..MaxDispatch
RunIds == 1..MaxRun

Unlaunched == {"prepared", "blocked", "cancelled"}
Launching == {"reserved", "hosted", "started"}
Over == {"exited", "failed"}
Dispatched == [
  key : Keys, ws : Works, epoch : Nat,
  phase : Unlaunched \union Launching \union Over,
  run : 0..MaxRun,                      \* 0 before the reservation
  surfaced : BOOLEAN, acked : BOOLEAN ]

ASSUME NoDispatchAssumption == None \notin Dispatched

Fresh(k, w, e) ==
  [key |-> k, ws |-> w, epoch |-> e, phase |-> "prepared", run |-> 0,
   surfaced |-> FALSE, acked |-> FALSE]

NoTab == [ws |-> None, d |-> 0, native |-> FALSE, open |-> FALSE]
Idle == [pc |-> "idle", d |-> 0, run |-> 0]

Init ==
  /\ ds = [d \in Ds |-> None] /\ diskDs = ds
  /\ chats = {} /\ diskChats = {} /\ epoch = 0 /\ srv = Idle /\ runs = 0
  /\ tab = [r \in RunIds |-> NoTab]
  /\ host = [r \in RunIds |-> "none"] /\ child = [r \in RunIds |-> "none"]
  /\ spawns = [d \in Ds |-> 0] /\ refused = {} /\ replies = {}
  /\ acker = [d \in Ds |-> {}]
  /\ faults = 0 /\ crashes = 0

----------------------------------------------------------------------------
(* save_dispatches swaps the new records in, persists all the supervisor's   *)
(* state and swaps the old ones back on an error, which may come after the   *)
(* file was replaced.                                                        *)

\* Mutant: success is reported before the file is replaced.
CommitsLater(next) ==
  /\ ds' = next /\ diskDs' \in {diskDs, next}
  /\ diskChats' = chats /\ UNCHANGED <<chats, faults>>

Commits(next) ==
  /\ ds' = next /\ diskDs' = next
  /\ diskChats' = chats /\ UNCHANGED <<chats, faults>>
CommitFails(next) ==
  /\ faults < MaxFaults /\ faults' = faults + 1
  /\ \/ diskDs' = next /\ diskChats' = chats
     \/ UNCHANGED <<diskDs, diskChats>>
  /\ UNCHANGED <<ds, chats>>

SavedDs == {d \in Ds : ds[d] # None}

\* Mutants: a reserved dispatch does not hold its workspace; a blocked one can start.
HoldsWhenHosted(e) == e.phase \in {"prepared", "hosted", "started"}
StartableOrBlocked(e) == e.phase \in {"prepared", "blocked"}
RefusableWhenOpen(e) == e.phase \in Unlaunched \union Launching

Holds(e) == e.phase \in {"prepared"} \union Launching
Startable(e) == e.phase = "prepared"
Refusable(e) == e.phase \in {"prepared", "blocked"}

\* Mutant: a request is looked up among the dispatches still of use.
SameOpenRequest(k) == {d \in SavedDs : ds[d].key = k /\ ds[d].phase # "cancelled"}

SameRequest(k) == {d \in SavedDs : ds[d].key = k}

\* No tab of w hosts a native process and no conversation of w is saved.
NoNativeWork(w) ==
  /\ w \notin chats
  /\ \A r \in RunIds : ~(tab[r].open /\ tab[r].ws = w /\ tab[r].native)

----------------------------------------------------------------------------
(* Operations of the coordinator.                                            *)

PrepareWorker(k, w) ==
  /\ srv = Idle
  /\ \/ \E d \in SameRequest(k) :   \* a retry: the recorded attempt
          /\ ds[d].ws = w
          /\ replies' = replies \union {<<k, d>>} /\ UNCHANGED store
     \/ /\ SameRequest(k) = {}
        /\ NoNativeWork(w)
        /\ \A d \in SavedDs : ds[d].ws = w => ~Holds(ds[d])
        /\ \E d \in Ds :
             LET next == [ds EXCEPT ![d] = Fresh(k, w, epoch)]
             IN /\ ds[d] = None /\ \A e \in Ds : e < d => ds[e] # None
                /\ \/ Commits(next) /\ replies' = replies \union {<<k, d>>}
                   \/ CommitFails(next) /\ UNCHANGED replies
  /\ UNCHANGED <<epoch, srv, processes, spawns, refused, acker, crashes, runs>>

\* cancel_worker and report_worker_block: only an unlaunched preparation.
Refuse(d, phase) ==
  /\ srv = Idle /\ d \in SavedDs /\ Refusable(ds[d])
  /\ LET next == [ds EXCEPT ![d].phase = phase]
     IN \/ Commits(next) /\ refused' = refused \union {d}
        \/ CommitFails(next) /\ UNCHANGED refused
  /\ UNCHANGED <<epoch, srv, processes, spawns, replies, acker, crashes, runs>>

\* start_worker: recheck the target, then reserve the start durably.
StartWorker(d) ==
  /\ srv = Idle /\ d \in SavedDs /\ Startable(ds[d])
  /\ ds[d].epoch = epoch /\ NoNativeWork(ds[d].ws)
  /\ runs < MaxRun /\ runs' = runs + 1
  /\ LET next == [ds EXCEPT ![d].phase = "reserved", ![d].run = runs']
     IN \/ Commits(next) /\ srv' = [pc |-> "spawn", d |-> d, run |-> runs']
        \/ CommitFails(next) /\ UNCHANGED srv
  /\ UNCHANGED <<epoch, processes, history, crashes>>

\* write_spec and spawn_native: a host in a new tab.
Spawn ==
  /\ srv.pc = "spawn"
  /\ tab' = [tab EXCEPT ![srv.run] =
               [ws |-> ds[srv.d].ws, d |-> srv.d, native |-> TRUE, open |-> TRUE]]
  /\ host' = [host EXCEPT ![srv.run] = "born"]
  /\ spawns' = [spawns EXCEPT ![srv.d] = @ + 1]
  /\ srv' = [srv EXCEPT !.pc = "hosted"]
  /\ UNCHANGED <<store, epoch, child, refused, replies, acker, crashes, runs>>

\* Mutant: a launch that failed can be started again.
SpawnFailsOpen ==
  /\ srv.pc = "spawn"
  /\ LET next == [ds EXCEPT ![srv.d].phase = "prepared"]
     IN Commits(next) \/ CommitFails(next)
  /\ srv' = Idle
  /\ UNCHANGED <<epoch, processes, history, crashes, runs>>

SpawnFails ==
  /\ srv.pc = "spawn"
  /\ LET next == [ds EXCEPT ![srv.d].phase = "failed"]
     IN Commits(next) \/ CommitFails(next)
  /\ srv' = Idle
  /\ UNCHANGED <<epoch, processes, history, crashes, runs>>

Hosted ==
  /\ srv.pc = "hosted"
  /\ LET next == [ds EXCEPT ![srv.d].phase = "hosted"]
     IN Commits(next) \/ CommitFails(next)
  /\ srv' = Idle
  /\ UNCHANGED <<epoch, processes, history, crashes, runs>>

----------------------------------------------------------------------------
(* The host: it spawns the worker, reports, waits for it, reports, and       *)
(* returns the tab to a shell.  A report that is refused or lost is ignored. *)

HostSpawns(r) ==
  /\ host[r] = "born"
  /\ \/ host' = [host EXCEPT ![r] = "announce"] /\ child' = [child EXCEPT ![r] = "alive"]
     \/ host' = [host EXCEPT ![r] = "failing"] /\ UNCHANGED child
  /\ UNCHANGED <<store, epoch, srv, tab, history, crashes, runs>>

ChildEnds(r) ==
  /\ child[r] = "alive" /\ child' = [child EXCEPT ![r] = "over"]
  /\ UNCHANGED <<store, epoch, srv, tab, host, history, crashes, runs>>

HostWaits(r) ==
  /\ host[r] = "working" /\ child[r] = "over"
  /\ host' = [host EXCEPT ![r] = "report"]
  /\ UNCHANGED <<store, epoch, srv, tab, child, history, crashes, runs>>

Report(r) ==
  CASE host[r] = "announce" -> "started"
    [] host[r] = "report" -> "exited"
    [] host[r] = "failing" -> "failed"
    [] OTHER -> "none"
Reported(r) == IF host[r] = "announce" THEN "working" ELSE "return"

\* worker_event: from the exact tab, run and epoch, and in order.
WorkerEvent(r) ==
  /\ srv = Idle /\ Report(r) # "none"
  /\ tab[r].open /\ tab[r].native
  /\ \E d \in SavedDs :
       LET next == [ds EXCEPT ![d].phase = Report(r)]
       IN /\ d = tab[r].d /\ ds[d].run = r /\ ds[d].epoch = epoch
          /\ Report(r) = "started" => ds[d].phase \in {"reserved", "hosted"}
          /\ Commits(next) \/ CommitFails(next)
  /\ host' = [host EXCEPT ![r] = Reported(r)]
  /\ UNCHANGED <<epoch, srv, tab, child, history, crashes, runs>>

ReportLost(r) ==
  /\ Report(r) # "none"
  /\ host' = [host EXCEPT ![r] = Reported(r)]
  /\ UNCHANGED <<store, epoch, srv, tab, child, history, crashes, runs>>

\* native-ended: the tab is a shell from now on, unless the request is lost.
NativeEnded(r) ==
  /\ host[r] = "return" /\ host' = [host EXCEPT ![r] = "shell"]
  /\ \/ srv = Idle /\ tab[r].open /\ tab' = [tab EXCEPT ![r].native = FALSE]
     \/ UNCHANGED tab
  /\ UNCHANGED <<store, epoch, srv, child, history, crashes, runs>>

\* The host is killed by a signal or a forced close; the worker may outlive it.
HostDies(r) ==
  /\ host[r] \notin {"none", "dead"}
  /\ host' = [host EXCEPT ![r] = "dead"]
  /\ UNCHANGED <<store, epoch, srv, tab, child, history, crashes, runs>>

\* The terminal of a dead host has ended too: its tab is pruned.
TabCloses(r) ==
  /\ srv = Idle /\ host[r] = "dead" /\ tab[r].open
  /\ tab' = [tab EXCEPT ![r].open = FALSE]
  /\ UNCHANGED <<store, epoch, srv, host, child, history, crashes, runs>>

----------------------------------------------------------------------------
(* The worker and its workspace.                                             *)

\* An agent run: an open native tab whose host and process live.
Agent(r) ==
  tab[r].open /\ tab[r].native /\ host[r] # "dead" /\ child[r] = "alive"

\* The assignment that get_context shows in w.
Assignment(w) ==
  LET some == {d \in SavedDs : ds[d].ws = w /\ ds[d].phase \notin {"blocked", "cancelled"}}
  IN {d \in some : \A e \in some : e <= d}

\* get_context surfaces the assignment to the exact run it was started for.
GetContext(r) ==
  /\ srv = Idle /\ Agent(r)
  /\ \E d \in Assignment(tab[r].ws) :
       LET next == [ds EXCEPT ![d].surfaced = TRUE]
       IN /\ ds[d].run = r /\ ds[d].epoch = epoch /\ ~ds[d].surfaced
          /\ Commits(next) \/ CommitFails(next)
  /\ UNCHANGED <<epoch, srv, processes, history, crashes, runs>>

\* Mutant: any agent of the workspace may acknowledge a surfaced assignment.
MayAckInWorkspace(r, d) == ds[d].ws = tab[r].ws /\ ds[d].surfaced

MayAck(r, d) ==
  /\ ds[d].ws = tab[r].ws /\ ds[d].run = r
  /\ ds[d].epoch = epoch /\ ds[d].surfaced

AckAssignment(r, d) ==
  /\ srv = Idle /\ Agent(r) /\ d \in SavedDs /\ MayAck(r, d)
  /\ IF ds[d].acked
     THEN UNCHANGED store /\ acker' = [acker EXCEPT ![d] = @ \union {r}]
     ELSE LET next == [ds EXCEPT ![d].acked = TRUE]
          IN \/ Commits(next) /\ acker' = [acker EXCEPT ![d] = @ \union {r}]
             \/ CommitFails(next) /\ UNCHANGED acker
  /\ UNCHANGED <<epoch, srv, processes, spawns, refused, replies, crashes, runs>>

\* A conversation of a native process is observed; a failed save keeps it in memory.
Observe(r) ==
  /\ srv = Idle /\ Agent(r) /\ tab[r].ws \notin chats
  /\ chats' = chats \union {tab[r].ws}
  /\ \/ diskDs' = ds /\ diskChats' = chats' /\ UNCHANGED faults
     \/ /\ faults < MaxFaults /\ faults' = faults + 1
        /\ \/ diskDs' = ds /\ diskChats' = chats'
           \/ UNCHANGED <<diskDs, diskChats>>
  /\ UNCHANGED <<ds, epoch, srv, processes, history, crashes, runs>>

\* The human starts a native process, which no dispatch asked for.
HumanStart(w) ==
  /\ srv = Idle /\ runs < MaxRun /\ runs' = runs + 1
  /\ tab' = [tab EXCEPT ![runs'] = [ws |-> w, d |-> 0, native |-> TRUE, open |-> TRUE]]
  /\ host' = [host EXCEPT ![runs'] = "working"]
  /\ child' = [child EXCEPT ![runs'] = "alive"]
  /\ UNCHANGED <<store, epoch, srv, history, crashes>>

\* Any other save, that of a refresh included, writes everything again.
OtherSave ==
  /\ srv = Idle /\ <<diskDs, diskChats>> # <<ds, chats>>
  /\ diskDs' = ds /\ diskChats' = chats
  /\ UNCHANGED <<ds, chats, faults, epoch, srv, processes, history, crashes, runs>>

\* The supervisor dies and starts again: tabs are lost, workers may survive.
Crash ==
  /\ crashes < MaxCrash /\ crashes' = crashes + 1 /\ epoch' = epoch + 1
  /\ ds' = diskDs /\ chats' = diskChats /\ srv' = Idle
  /\ tab' = [r \in RunIds |-> [tab[r] EXCEPT !.open = FALSE]]
  /\ host' = [r \in RunIds |-> IF host[r] = "none" THEN "none" ELSE "dead"]
  /\ \E S \in SUBSET {r \in RunIds : child[r] = "alive"} :
       child' = [r \in RunIds |-> IF r \in S THEN "over" ELSE child[r]]
  /\ UNCHANGED <<diskDs, diskChats, faults, history, runs>>

Supervisor ==
  \/ Spawn \/ SpawnFails \/ Hosted \/ OtherSave
  \/ \E k \in Keys, w \in Works : PrepareWorker(k, w)
  \/ \E d \in Ds : StartWorker(d) \/ \E p \in {"cancelled", "blocked"} : Refuse(d, p)
Processes ==
  \/ \E w \in Works : HumanStart(w)
  \/ \E r \in RunIds :
    \/ HostSpawns(r) \/ ChildEnds(r) \/ HostWaits(r) \/ WorkerEvent(r)
    \/ ReportLost(r) \/ NativeEnded(r) \/ HostDies(r) \/ TabCloses(r)
    \/ GetContext(r) \/ Observe(r)
    \/ \E d \in Ds : AckAssignment(r, d)

Next == Supervisor \/ Processes \/ Crash
Spec == Init /\ [][Next]_vars
----------------------------------------------------------------------------
(* Properties.                                                               *)

Hosts == {"none", "born", "announce", "working", "report", "failing", "return",
          "shell", "dead"}

\* Every variable keeps its type.
TypeOK ==
  /\ ds \in [Ds -> Dispatched \union {None}] /\ diskDs \in [Ds -> Dispatched \union {None}]
  /\ chats \subseteq Works /\ diskChats \subseteq Works /\ epoch \in Nat
  /\ srv \in [pc : {"idle", "spawn", "hosted"}, d : 0..MaxDispatch, run : 0..MaxRun]
  /\ runs \in 0..MaxRun
  /\ tab \in [RunIds -> [ws : Works \union {None}, d : 0..MaxDispatch,
                        native : BOOLEAN, open : BOOLEAN]]
  /\ host \in [RunIds -> Hosts] /\ child \in [RunIds -> {"none", "alive", "over"}]
  /\ spawns \in [Ds -> Nat] /\ refused \subseteq Ds /\ replies \subseteq Keys \X Ds
  /\ acker \in [Ds -> SUBSET RunIds] /\ faults \in Nat /\ crashes \in Nat

\* A dispatch is started at most once, whatever saves fail, reports get lost and
\* however often start_worker is repeated or the supervisor crashes.
StartedOnce == \A d \in Ds : spawns[d] <= 1

\* A host that will spawn a dispatched worker, or the worker itself, exists.
Worker(r) == tab[r].d # 0 /\ (host[r] = "born" \/ child[r] = "alive")

\* Two dispatched workers never run in one workspace, not even when the first one
\* outlived its host, its tab or the supervisor that started it.
OneWorkerPerWorkspace ==
  \A q, r \in RunIds : (q # r /\ Worker(q) /\ Worker(r)) => tab[q].ws # tab[r].ws

\* A dispatch reported blocked or cancelled is never launched, and no restart
\* makes it startable again.
RefusedStaysUnlaunched ==
  \A d \in refused : /\ spawns[d] = 0
                     /\ \A s \in {ds, diskDs} :
                          s[d] # None /\ s[d].phase \in {"blocked", "cancelled"}

\* One dispatch per (coordinator, request_id) on disk, and every reply named it.
OneDispatchPerRequest ==
  /\ \A d, e \in Ds : (d # e /\ diskDs[d] # None /\ diskDs[e] # None) =>
       diskDs[d].key # diskDs[e].key
  /\ \A x \in replies : diskDs[x[2]] # None /\ diskDs[x[2]].key = x[1]

\* Only the run that was hosted for a dispatch acknowledged it, after it was surfaced,
\* and the acknowledgement survives a restart.
AcknowledgedByItsWorker ==
  \A d \in Ds : \A r \in acker[d] :
    tab[r].d = d /\ diskDs[d].run = r /\ diskDs[d].surfaced /\ diskDs[d].acked

Follows(p, q) ==
  \/ p = q \/ p = "prepared"
  \/ p = "blocked" /\ q = "cancelled"
  \/ p = "reserved" /\ q \in {"hosted", "started"} \union Over
  \/ p = "hosted" /\ q \in {"started"} \union Over
  \/ p = "started" /\ q \in Over

\* A dispatch is never forgotten, never changes its request or target, and its phase
\* never goes back, a crash and restart included.
PhaseNeverReturns ==
  [][\A d \in SavedDs : /\ ds'[d] # None /\ ds'[d].key = ds[d].key /\ ds'[d].ws = ds[d].ws
                        /\ Follows(ds[d].phase, ds'[d].phase)]_vars

\* Dispatch implements its promise.
Promise == INSTANCE DispatchPromise WITH
  Dispatches <- Ds, Places <- Works,
  launched <- {d \in Ds : spawns[d] > 0},
  running <- [w \in Works |->
    {tab[r].d : r \in {q \in RunIds : Worker(q) /\ tab[q].ws = w}}]
DispatchPromiseKept == Promise!Spec
=============================================================================
