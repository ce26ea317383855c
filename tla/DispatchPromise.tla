-------------------------- MODULE DispatchPromise --------------------------
(***************************************************************************)
(* What worker dispatch promises a coordinator, whatever fails: a dispatch *)
(* is launched at most once, never after it was reported blocked or        *)
(* cancelled, and never beside another dispatched worker of its workspace. *)
(***************************************************************************)
CONSTANTS Dispatches, Places

VARIABLES
  refused,  \* dispatches reported blocked or cancelled
  launched, \* dispatches a host was created for
  running   \* running[w]: the dispatches whose worker may run in w

vars == <<refused, launched, running>>

Init == refused = {} /\ launched = {} /\ running = [w \in Places |-> {}]

Refuse(d) ==
  /\ d \notin launched
  /\ refused' = refused \union {d} /\ UNCHANGED <<launched, running>>

Launch(d, w) ==
  /\ d \notin refused \union launched /\ running[w] = {}
  /\ launched' = launched \union {d}
  /\ running' = [running EXCEPT ![w] = {d}]
  /\ UNCHANGED refused

\* Workers end; a crash of the supervisor may end any of them.
End ==
  /\ running' \in [Places -> SUBSET Dispatches]
  /\ \A w \in Places : running'[w] \subseteq running[w]
  /\ UNCHANGED <<refused, launched>>

Next == End \/ \E d \in Dispatches : Refuse(d) \/ \E w \in Places : Launch(d, w)
Spec == Init /\ [][Next]_vars
=============================================================================
