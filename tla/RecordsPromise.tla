--------------------------- MODULE RecordsPromise ---------------------------
(***************************************************************************)
(* What the saved state promises, whatever fails, dies or loses power: a   *)
(* record that is in use and that every restart would bring up is never    *)
(* lost, one comes to be in doubt only by an attempt to save it, one       *)
(* attempt at a time, and a doubt is settled at no other record's cost.    *)
(***************************************************************************)
CONSTANT Ops \* records

VARIABLES
  kept, \* records in use that every restart would bring up
  open  \* other records that some restart would bring up

vars == <<kept, open>>

Init == kept = {} /\ open = {}

Attempt(o) ==
  /\ o \notin kept \union open
  /\ open' = open \union {o} /\ UNCHANGED kept

Settle ==
  /\ kept' \in SUBSET (kept \union open) /\ kept \subseteq kept'
  /\ open' \in SUBSET (open \ kept')

Next == Settle \/ \E o \in Ops : Attempt(o)
Spec == Init /\ [][Next]_vars
=============================================================================
