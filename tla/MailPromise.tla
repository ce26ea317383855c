---------------------------- MODULE MailPromise ----------------------------
(***************************************************************************)
(* What the mailbox promises its users, whatever fails: a saved message    *)
(* stays saved, what was seen or acknowledged stays so, every operation    *)
(* takes effect as a whole or not at all, an acknowledgement is reported   *)
(* only when it holds, and a message's recipient is woken at most once and *)
(* only while the message is neither seen nor acknowledged.                *)
(***************************************************************************)
EXTENDS Naturals

CONSTANT Size \* bound: messages

VARIABLES
  saved, \* how many messages have been saved
  seen,  \* messages surfaced to an agent
  acked, \* messages acknowledged
  told,  \* acknowledgements reported to their caller
  woken  \* messages whose recipient was woken

vars == <<saved, seen, acked, told, woken>>

Init == saved = 0 /\ seen = {} /\ acked = {} /\ told = {} /\ woken = {}

Save ==
  /\ saved < Size /\ saved' = saved + 1
  /\ UNCHANGED <<seen, acked, told, woken>>

\* One call may read a page, acknowledge several messages and report it.
Handle ==
  /\ seen' \in SUBSET (1..saved) /\ seen \subseteq seen'
  /\ acked' \in SUBSET (1..saved) /\ acked \subseteq acked'
  /\ told' \in SUBSET acked' /\ told \subseteq told'
  /\ UNCHANGED <<saved, woken>>

Wake(m) ==
  /\ m \in 1..saved /\ m \notin seen \union acked \union woken
  /\ woken' = woken \union {m}
  /\ UNCHANGED <<saved, seen, acked, told>>

Next == Save \/ Handle \/ \E m \in 1..Size : Wake(m)
Spec == Init /\ [][Next]_vars
=============================================================================
