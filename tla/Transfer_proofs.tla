--------------------------- MODULE Transfer_proofs ---------------------------
(***************************************************************************)
(* Proofs about Transfer: a commit is claimed and a path is typed only     *)
(* where the transfer began, and no staging file loses its worker, for all *)
(* values of the constants.                                                *)
(***************************************************************************)
EXTENDS Transfer, TLAPS

TrType == [st : States, kind : Kinds \union {"upload"}, origin : Places, busy : BOOLEAN]

(* What the supervisor knows of a transfer.  Between turns none is stale.     *)
Booked(t) ==
  /\ tr[t].st = "none" => wk[t].pc = "none" /\ out[t] = "none" /\ ~pasted[t] /\ ~left[t]
  /\ tr[t].st = "retired" => stop[t]
  /\ tr[t].st = "leaving" => gate
  /\ Stale(t) => gate
  /\ (tr[t].st = "pending" /\ left[t]) => Stale(t)

(* What a worker has answered.                                               *)
Answered(t) ==
  /\ out[t] = "finished" => wk[t].pc = "ended" /\ (tr[t].kind = "attach" => published[t])
  /\ (wk[t].pc = "reply" /\ wk[t].result = "finished" /\ tr[t].kind = "attach") => published[t]
  /\ pasted[t] => /\ wk[t].pc = "ended" /\ published[t] /\ ~left[t]
                  /\ tr[t].st \in {"leaving", "retired"}

Flags == [Transfers -> BOOLEAN]

FlagsOK ==
  /\ gate \in BOOLEAN
  /\ stop \in Flags /\ committing \in Flags /\ partial \in Flags
  /\ published \in Flags /\ pasted \in Flags /\ left \in Flags

DataOK ==
  /\ here \in Places /\ changes \in 0 .. MaxChanges
  /\ tr \in [Transfers -> TrType] /\ wk \in [Transfers -> [pc : Pcs, result : Replies \union {"none"}]]
  /\ job \in [Transfers -> {"none", "chunk", "prepare", "commit"}]
  /\ out \in [Transfers -> Replies \union {"none"}]

IInv == TypeOK /\ NoOrphanStaging /\ \A t \in Transfers : Booked(t) /\ Answered(t)

\* The type invariant in two parts: Booleans, and the rest.
LEMMA TypeParts == TypeOK <=> FlagsOK /\ DataOK
BY Zenon DEF TypeOK, FlagsOK, DataOK, Flags, TrType

\* The same after a step.
LEMMA TypePartsNext == TypeOK' <=> FlagsOK' /\ DataOK'
BY Zenon DEF TypeOK, FlagsOK, DataOK, Flags, TrType

\* Setting one place of a function keeps its type.
LEMMA OneSet ==
  ASSUME NEW B, NEW D, NEW f \in [D -> B], NEW t, NEW b \in B
  PROVE  [f EXCEPT ![t] = b] \in [D -> B]
OBVIOUS

\* So does raising a flag, or lowering it.
LEMMA FlagSet ==
  ASSUME NEW f \in Flags, NEW t
  PROVE  /\ \A b \in BOOLEAN : [f EXCEPT ![t] = b] \in Flags
         /\ [f EXCEPT ![t] = TRUE] \in Flags /\ [f EXCEPT ![t] = FALSE] \in Flags
<1>1. \A b \in BOOLEAN : [f EXCEPT ![t] = b] \in Flags
  BY OneSet, Zenon DEF Flags
<1> QED BY <1>1, Zenon

\* A flag that a step sets keeps its type.
LEMMA FlagChanged ==
  ASSUME NEW f \in Flags, NEW g, NEW t, g = f \/ \E b \in BOOLEAN : g = [f EXCEPT ![t] = b]
  PROVE  g \in Flags
<1>1. CASE g = f
  BY <1>1
<1>2. CASE \E b \in BOOLEAN : g = [f EXCEPT ![t] = b]
  <2>1. PICK b \in BOOLEAN : g = [f EXCEPT ![t] = b]
    BY <1>2
  <2> QED BY <2>1, FlagSet
<1> QED BY <1>1, <1>2

\* Changing the state or the busy flag of a transfer keeps the type of all.
LEMMA TrUpdates ==
  ASSUME NEW S, NEW K, NEW P, NEW B, NEW D, NEW t \in D, NEW f \in [D -> [st : S, kind : K, origin : P, busy : B]]
  PROVE  /\ \A s \in S : [f EXCEPT ![t].st = s] \in [D -> [st : S, kind : K, origin : P, busy : B]]
         /\ \A b \in B : [f EXCEPT ![t].busy = b] \in [D -> [st : S, kind : K, origin : P, busy : B]]
<1>1. ASSUME NEW s \in S PROVE [f EXCEPT ![t].st = s] \in [D -> [st : S, kind : K, origin : P, busy : B]]
  BY SMT
<1>2. ASSUME NEW b \in B PROVE [f EXCEPT ![t].busy = b] \in [D -> [st : S, kind : K, origin : P, busy : B]]
  BY SMT
<1> QED BY <1>1, <1>2

\* A transfer that a step changes keeps its type.
LEMMA TrChanged ==
  ASSUME NEW t \in Transfers, tr \in [Transfers -> TrType],
         \/ tr' = tr \/ \E s \in States : tr' = [tr EXCEPT ![t].st = s]
         \/ \E b \in BOOLEAN : tr' = [tr EXCEPT ![t].busy = b]
  PROVE  tr' \in [Transfers -> TrType]
<1>1. CASE \E s \in States : tr' = [tr EXCEPT ![t].st = s]
  <2>1. PICK s \in States : tr' = [tr EXCEPT ![t].st = s]
    BY <1>1
  <2>2. \A s0 \in States : [tr EXCEPT ![t].st = s0] \in [Transfers -> TrType]
    BY TrUpdates, Zenon DEF TrType
  <2> QED BY <2>1, <2>2
<1>2. CASE \E b \in BOOLEAN : tr' = [tr EXCEPT ![t].busy = b]
  <2>1. PICK b \in BOOLEAN : tr' = [tr EXCEPT ![t].busy = b]
    BY <1>2
  <2>2. \A b0 \in BOOLEAN : [tr EXCEPT ![t].busy = b0] \in [Transfers -> TrType]
    BY TrUpdates, Zenon DEF TrType
  <2> QED BY <2>1, <2>2
<1> QED BY <1>1, <1>2

(***************************************************************************)
(* One lemma for each action.                                              *)
(***************************************************************************)

\* The initial state satisfies the invariant.
LEMMA InitHolds == ASSUME Init PROVE IInv
<1> USE TransferAssumption
<1>1. Idle.st = "none" /\ Idle \in TrType
  <2>1. (CHOOSE p \in Places : TRUE) \in Places
    OBVIOUS
  <2>2. FALSE \in BOOLEAN /\ "none" \in States
    BY Zenon DEF States
  <2> QED BY <2>1, <2>2, Zenon DEF Idle, TrType
<1>2. TypeOK
  <2>1. changes \in 0 .. MaxChanges
    BY SMT DEF Init
  <2>2. /\ tr \in [Transfers -> TrType]
        /\ wk \in [Transfers -> [pc : Pcs, result : Replies \union {"none"}]]
    BY <1>1, SMT DEF Init, Pcs, Replies
  <2>3. FlagsOK
    BY Zenon DEF Init, FlagsOK, Flags
  <2>4. DataOK
    BY <2>1, <2>2, SMT DEF Init, DataOK, Replies
  <2> QED BY <2>3, <2>4, TypeParts
<1>3. \A t \in Transfers : Booked(t) /\ Answered(t)
  BY <1>1, SMT DEF Init, Booked, Answered, Stale
<1>4. NoOrphanStaging
  BY SMT DEF Init, NoOrphanStaging
<1> QED BY <1>2, <1>3, <1>4 DEF IInv

\* A turn that gives no more than a place in the books.
LEMMA BeginKeeps == ASSUME NEW t \in Transfers, NEW kind \in Kinds, IInv, Begin(t, kind) PROVE IInv'
<1> USE DEF IInv
<1>1. TypeOK'
  <2>0. FlagsOK /\ DataOK
    BY TypeParts
  <2>1. FlagsOK'
    BY <2>0, Zenon DEF Begin, TurnBegins, FlagsOK, channels
  <2>2. DataOK'
    BY <2>0, SMT DEF Begin, TurnBegins, DataOK, TrType, channels, States, Pcs
  <2> QED BY <2>1, <2>2, TypePartsNext
<1>2. NoOrphanStaging'
  BY SMT DEF Begin, NoOrphanStaging, Runs, TypeOK
<1>3. \A u \in Transfers : Booked(u)' /\ Answered(u)'
  <2>1. /\ tr'[t].st = "pending" /\ tr'[t].origin = here /\ tr[t].st = "none"
        /\ gate' = TRUE /\ here' = here /\ wk'[t].pc = "opening"
        /\ \A u \in Transfers \ {t} : tr'[u] = tr[u] /\ wk'[u] = wk[u]
        /\ UNCHANGED <<pasted, left, published, out, stop>>
    BY SMT DEF Begin, TurnBegins, TypeOK, channels
  <2>2. Booked(t)' /\ Answered(t)'
    BY <2>1, SMT DEF Booked, Answered, Stale, Valid, TypeOK
  <2>3. \A u \in Transfers \ {t} : Booked(u)' /\ Answered(u)'
    BY <2>1, SMT DEF Booked, Answered, Stale, Valid
  <2> QED BY <2>2, <2>3
<1> QED BY <1>1, <1>2, <1>3

\* The pane that is selected changes.
LEMMA ChangeKeeps == ASSUME IInv, Change PROVE IInv'
<1> USE DEF IInv
<1>1. TypeOK'
  <2>0. FlagsOK /\ DataOK
    BY TypeParts
  <2>9. left' \in Flags
    BY Zenon DEF Change, Flags
  <2>1. FlagsOK'
    BY <2>0, <2>9, Zenon DEF Change, TurnBegins, FlagsOK, thread, channels
  <2>2. DataOK'
    BY <2>0, TransferAssumption, SMT DEF Change, TurnBegins, DataOK, thread, channels
  <2> QED BY <2>1, <2>2, TypePartsNext
<1>2. NoOrphanStaging'
  BY SMT DEF Change, NoOrphanStaging, Runs, thread
<1>3. \A u \in Transfers : Booked(u)' /\ Answered(u)'
  BY SMT DEF Change, TurnBegins, Booked, Answered, Stale, Valid, TypeOK, thread, channels
<1> QED BY <1>1, <1>2, <1>3

\* The next job, and what a poll may find.
LEMMA TurnKeeps ==
  ASSUME NEW t \in Transfers, IInv,
         \/ \E what \in {"chunk", "prepare"} : Give(t, what)
         \/ PollData(t) \/ PollPrepared(t) \/ PollFails(t) \/ Cancel(t)
  PROVE  IInv'
<1> USE DEF IInv
<1>1. /\ ~gate /\ gate' = TRUE /\ tr[t].st = "pending"
      /\ UNCHANGED <<here, changes, pasted, left, stop, thread>>
  BY DEF Give, PollData, PollPrepared, PollFails, Cancel, TakesReply, TurnBegins, channels
<1>2. \/ tr' = tr \/ tr' = [tr EXCEPT ![t].st = "leaving"]
      \/ \E b \in BOOLEAN : tr' = [tr EXCEPT ![t].busy = b]
  BY Zenon DEF Give, PollData, PollPrepared, PollFails, Cancel, TakesReply, Leaves
<1>3. \/ out' = out \/ out' = [out EXCEPT ![t] = "none"]
  BY Zenon DEF Give, PollData, PollPrepared, PollFails, Cancel, TakesReply, channels
<1>4. \/ job' = job \/ \E what \in {"chunk", "prepare", "commit"} : job' = [job EXCEPT ![t] = what]
  BY Zenon DEF Give, PollData, PollPrepared, PollFails, Cancel, TakesReply, channels
<1>5. TypeOK'
  <2>0. FlagsOK /\ DataOK
    BY TypeParts
  <2>1. FlagsOK'
    BY <1>1, <2>0, Zenon DEF FlagsOK, thread
  <2>2. DataOK'
    <3>1. tr' \in [Transfers -> TrType]
      BY <1>2, <2>0, TrChanged, Zenon DEF DataOK, States
    <3> QED BY <1>1, <1>3, <1>4, <2>0, <3>1, SMT DEF DataOK, thread
  <2> QED BY <2>1, <2>2, TypePartsNext
<1>6. NoOrphanStaging'
  BY <1>1, SMT DEF NoOrphanStaging, Runs, thread
<1>7. \A u \in Transfers : Booked(u)' /\ Answered(u)'
  <2>1. \A u \in Transfers :
          /\ tr'[u].kind = tr[u].kind /\ tr'[u].origin = tr[u].origin
          /\ tr'[u].st = tr[u].st \/ (u = t /\ tr'[u].st = "leaving")
    BY <1>2, SMT DEF TypeOK
  <2>2. \A u \in Transfers : out'[u] = out[u] \/ out'[u] = "none"
    BY <1>3, SMT DEF TypeOK
  <2> QED BY <1>1, <2>1, <2>2, SMT DEF Booked, Answered, Stale, Valid, thread
<1> QED BY <1>5, <1>6, <1>7

\* The end of a transfer types its path only where it began.
LEMMA PollFinishedKeeps == ASSUME NEW t \in Transfers, IInv, PollFinished(t) PROVE IInv'
<1> USE DEF IInv
<1>1. /\ ~gate /\ gate' = TRUE /\ tr[t].st = "pending" /\ out[t] = "finished"
      /\ tr' = [tr EXCEPT ![t].st = "leaving"] /\ out' = [out EXCEPT ![t] = "none"]
      /\ UNCHANGED <<here, changes, left, job, stop, thread>>
  BY DEF PollFinished, TakesReply, TurnBegins, Leaves
<1>2. \/ pasted' = pasted
      \/ tr[t].kind = "attach" /\ Valid(t) /\ pasted' = [pasted EXCEPT ![t] = TRUE]
  BY DEF PollFinished
<1>3. TypeOK'
  <2>0. FlagsOK /\ DataOK
    BY TypeParts
  <2>1. FlagsOK'
    BY <1>1, <1>2, <2>0, FlagSet, Zenon DEF FlagsOK, thread
  <2>2. DataOK'
    <3>1. tr' \in [Transfers -> TrType]
      BY <1>1, <2>0, TrChanged, Zenon DEF DataOK, States
    <3> QED BY <1>1, <2>0, <3>1, SMT DEF DataOK, thread
  <2> QED BY <2>1, <2>2, TypePartsNext
<1>4. NoOrphanStaging'
  BY <1>1, SMT DEF NoOrphanStaging, Runs, thread
<1>5. \A u \in Transfers : Booked(u)' /\ Answered(u)'
  <2> SUFFICES ASSUME NEW u \in Transfers PROVE Booked(u)' /\ Answered(u)'
    OBVIOUS
  <2>1. /\ tr'[u].kind = tr[u].kind /\ tr'[u].origin = tr[u].origin
        /\ tr'[u].st = IF u = t THEN "leaving" ELSE tr[u].st
        /\ out'[u] = IF u = t THEN "none" ELSE out[u]
    BY <1>1, SMT DEF TypeOK
  <2>2. pasted'[u] = pasted[u] \/ (u = t /\ tr[t].kind = "attach" /\ Valid(t) /\ pasted'[t])
    BY <1>2, Zenon DEF TypeOK
  <2>3. Booked(u)'
    BY <1>1, <2>1, <2>2, SMT DEF Booked, Stale, Valid, thread
  <2>4. Answered(u)'
    <3>1. wk[u].pc = wk'[u].pc /\ wk[u].result = wk'[u].result /\ published'[u] = published[u] /\ left'[u] = left[u]
      BY <1>1 DEF thread
    <3> QED BY <1>1, <2>1, <2>2, <3>1, SMT DEF Booked, Answered, Stale, Valid
  <2> QED BY <2>3, <2>4
<1> QED BY <1>3, <1>4, <1>5

\* Retiring transfers closes the supervisor's ends of their channels.
LEMMA RetireTypes ==
  ASSUME NEW R, TypeOK, Retire(R),
         UNCHANGED <<here, changes, pasted, left, thread>>, gate' \in BOOLEAN
  PROVE  TypeOK'
<1>1. stop' \in [Transfers -> BOOLEAN]
  BY Zenon DEF Retire
<1>2. tr' \in [Transfers -> [st : States, kind : Kinds \union {"upload"}, origin : Places, busy : BOOLEAN]]
  <2>1. tr \in [Transfers -> TrType]
    BY DEF TypeOK, TrType
  <2>2. \A u \in Transfers : [tr[u] EXCEPT !.st = "retired"] \in TrType
    BY <2>1, Zenon DEF TrType, States
  <2>3. \A u \in Transfers : (IF u \in R THEN [tr[u] EXCEPT !.st = "retired"] ELSE tr[u]) \in TrType
    BY <2>1, <2>2, Zenon
  <2> QED BY <2>3, Zenon DEF Retire, TrType
<1>3. /\ job' \in [Transfers -> {"none", "chunk", "prepare", "commit"}]
      /\ out' \in [Transfers -> Replies \union {"none"}]
  BY SMT DEF Retire, TypeOK
<1> QED BY <1>1, <1>2, <1>3 DEF TypeOK, thread

\* ... and changes nothing else of them.
LEMMA RetireFacts ==
  ASSUME NEW R, TypeOK, Retire(R), NEW u \in Transfers
  PROVE  /\ tr'[u].kind = tr[u].kind /\ tr'[u].origin = tr[u].origin
         /\ u \in R => tr'[u].st = "retired" /\ stop'[u] /\ out'[u] = "none"
         /\ u \notin R => tr'[u].st = tr[u].st /\ (stop[u] => stop'[u]) /\ out'[u] = out[u]
<1>1. tr'[u] = IF u \in R THEN [tr[u] EXCEPT !.st = "retired"] ELSE tr[u]
  BY DEF Retire
<1>2. stop'[u] = (stop[u] \/ u \in R) /\ out'[u] = IF u \in R THEN "none" ELSE out[u]
  BY Zenon DEF Retire
<1>3. tr[u] \in TrType
  BY SMT DEF TypeOK, TrType
<1>4. /\ tr'[u].kind = tr[u].kind /\ tr'[u].origin = tr[u].origin
      /\ u \in R => tr'[u].st = "retired"
      /\ u \notin R => tr'[u].st = tr[u].st
  BY <1>1, <1>3, SMT DEF TrType
<1> QED BY <1>2, <1>4, Zenon

\* The end of a turn retires what was answered and what is stale.
LEMMA TurnEndsKeeps == ASSUME IInv, TurnEnds PROVE IInv'
<1> USE DEF IInv
<1>1. PICK idle \in SUBSET Pending :
        Retire({t \in Transfers : tr[t].st = "leaving" \/ Stale(t)} \union idle)
  BY DEF TurnEnds
<1>2. TypeOK'
  BY <1>1, RetireTypes DEF TurnEnds
<1>3. NoOrphanStaging'
  BY SMT DEF TurnEnds, NoOrphanStaging, Runs, thread
<1>4. \A u \in Transfers : Booked(u)' /\ Answered(u)'
  <2> TAKE u \in Transfers
  <2> DEFINE R == {t \in Transfers : tr[t].st = "leaving" \/ Stale(t)} \union idle
  <2>1. /\ tr'[u].kind = tr[u].kind /\ tr'[u].origin = tr[u].origin
        /\ u \in R => tr'[u].st = "retired" /\ stop'[u] /\ out'[u] = "none"
        /\ u \notin R => tr'[u].st = tr[u].st /\ (stop[u] => stop'[u]) /\ out'[u] = out[u]
    BY <1>1, RetireFacts
  <2>2. u \in R => tr[u].st \in {"leaving", "pending"}
    BY <1>1 DEF Pending, Stale
  <2>3. u \notin R => tr[u].st # "leaving" /\ ~Stale(u)
    OBVIOUS
  <2> HIDE DEF R
  <2>4. UNCHANGED <<here, wk, published, pasted, left>>
    BY DEF TurnEnds, thread
  <2> QED BY <2>1, <2>2, <2>3, <2>4, SMT DEF Booked, Answered, Stale, Valid
<1> QED BY <1>2, <1>3, <1>4

\* A refresh retires all of them.
LEMMA CancelForRefreshKeeps == ASSUME IInv, CancelForRefresh PROVE IInv'
<1> USE DEF IInv
<1>1. Retire(Pending) /\ gate' = gate /\ UNCHANGED <<here, changes, pasted, left, thread>>
  BY DEF CancelForRefresh
<1>2. TypeOK'
  BY <1>1, RetireTypes DEF TypeOK
<1>3. NoOrphanStaging'
  BY <1>1, SMT DEF NoOrphanStaging, Runs, thread
<1>4. \A u \in Transfers : Booked(u)' /\ Answered(u)'
  <2> TAKE u \in Transfers
  <2>1. /\ tr'[u].kind = tr[u].kind /\ tr'[u].origin = tr[u].origin
        /\ u \in Pending => tr'[u].st = "retired" /\ stop'[u] /\ out'[u] = "none"
        /\ u \notin Pending => tr'[u].st = tr[u].st /\ (stop[u] => stop'[u]) /\ out'[u] = out[u]
    BY <1>1, RetireFacts
  <2> QED BY <1>1, <2>1, SMT DEF Pending, Booked, Answered, Stale, Valid, thread
<1> QED BY <1>2, <1>3, <1>4

\* A new process has no transfers, and its old workers left no staging file.
LEMMA ExecKeeps == ASSUME IInv, Exec PROVE IInv'
<1> USE DEF IInv
<1>1. Idle.st = "none" /\ Idle \in TrType
  <2>1. (CHOOSE p \in Places : TRUE) \in Places
    BY TransferAssumption
  <2>2. FALSE \in BOOLEAN /\ "none" \in States
    BY Zenon DEF States
  <2> QED BY <2>1, <2>2, Zenon DEF Idle, TrType
<1>2. TypeOK'
  <2>1. /\ tr' \in [Transfers -> TrType]
        /\ wk' \in [Transfers -> [pc : Pcs, result : Replies \union {"none"}]]
    BY <1>1, SMT DEF Exec, Pcs, Replies
  <2>2. {stop', committing', published', pasted', left'} \subseteq [Transfers -> BOOLEAN]
    BY Zenon DEF Exec
  <2> QED BY <2>1, <2>2, SMT DEF Exec, TypeOK, TrType
<1>3. NoOrphanStaging'
  BY SMT DEF Exec, AllEnded, NoOrphanStaging
<1>4. \A u \in Transfers : Booked(u)' /\ Answered(u)'
  BY <1>1, SMT DEF Exec, Booked, Answered, Stale
<1> QED BY <1>2, <1>3, <1>4

\* A step of a worker short of its commit.
LEMMA WorkerKeeps ==
  ASSUME NEW t \in Transfers, IInv, Open(t) \/ Opened(t) \/ SendReply(t) \/ Recv(t) \/ Work(t)
  PROVE  IInv'
<1> USE DEF IInv
<1>1. UNCHANGED <<server, committing, published, stop>>
  BY DEF Open, Opened, SendReply, Recv, Work, channels
<1>2. PICK pc \in Pcs, result \in Replies \union {"none"} : wk' = [wk EXCEPT ![t] = [pc |-> pc, result |-> result]]
  <2>1. wk \in [Transfers -> [pc : Pcs, result : Replies \union {"none"}]]
        /\ job[t] \in {"none", "chunk", "prepare", "commit"}
    BY DEF TypeOK
  <2>2. CASE EndsThread(t)
    <3>1. wk[t] \in [pc : Pcs, result : Replies \union {"none"}]
      BY <2>1
    <3>2. [wk[t] EXCEPT !.pc = "ended"] = [pc |-> "ended", result |-> wk[t].result]
      BY <3>1
    <3>3. wk' = [wk EXCEPT ![t] = [pc |-> "ended", result |-> wk[t].result]]
      BY <2>2, <3>2 DEF EndsThread
    <3>4. "ended" \in Pcs /\ wk[t].result \in Replies \union {"none"}
      BY <3>1 DEF Pcs
    <3> QED BY <3>3, <3>4
  <2>3. CASE Open(t)
    BY <2>3, SMT DEF Open, GoesTo, Pcs, Replies
  <2>4. CASE Opened(t)
    BY <2>2, <2>4, SMT DEF Opened, GoesTo, Pcs, Replies
  <2>5. CASE SendReply(t)
    BY <2>2, <2>5, SMT DEF SendReply, GoesTo, Pcs, Replies
  <2>6. CASE Recv(t)
    BY <2>1, <2>2, <2>6, SMT DEF Recv, GoesTo, Pcs, Replies
  <2>7. CASE Work(t)
    BY <2>2, <2>7, SMT DEF Work, GoesTo, Done, Pcs, Replies
  <2> QED BY <2>3, <2>4, <2>5, <2>6, <2>7
<1>3. TypeOK'
  <2>0. FlagsOK /\ DataOK
    BY TypeParts
  <2>8. job' \in [Transfers -> {"none", "chunk", "prepare", "commit"}] /\ out' \in [Transfers -> Replies \union {"none"}]
    BY <2>0, SMT DEF Open, Opened, SendReply, Recv, Work, EndsThread, GoesTo, DataOK, channels
  <2>9. partial' \in Flags
    <3>1. partial' = partial \/ \E b \in BOOLEAN : partial' = [partial EXCEPT ![t] = b]
      BY Zenon DEF Open, Opened, SendReply, Recv, Work, EndsThread, GoesTo
    <3> QED BY <2>0, <3>1, FlagChanged DEF FlagsOK
  <2>1. FlagsOK'
    BY <1>1, <2>0, <2>9, Zenon DEF FlagsOK, server
  <2>2. DataOK'
    BY <1>1, <1>2, <2>0, <2>8, SMT DEF DataOK, server
  <2> QED BY <2>1, <2>2, TypePartsNext
<1>4. NoOrphanStaging'
  <2>1. \A u \in Transfers \ {t} : wk'[u] = wk[u]
    BY <1>2, SMT DEF TypeOK
  <2>2. /\ \A u \in Transfers \ {t} : partial'[u] = partial[u]
        /\ partial'[t] => wk'[t].pc \notin {"none", "ended"}
    <3>1. CASE Open(t)
      BY <3>1, SMT DEF Open, GoesTo, TypeOK
    <3>2. CASE Opened(t) \/ SendReply(t) \/ Recv(t)
      BY <3>2, SMT DEF Opened, SendReply, Recv, EndsThread, GoesTo, TypeOK
    <3>3. CASE Work(t)
      BY <3>3, SMT DEF Work, EndsThread, GoesTo, TypeOK
    <3> QED BY <3>1, <3>2, <3>3
  <2> QED BY <2>1, <2>2, SMT DEF NoOrphanStaging, Runs
<1>5. \A u \in Transfers : Booked(u)'
  <2>1. wk[t].pc # "none"
    BY SMT DEF Open, Opened, SendReply, Recv, Work
  <2>2. \A u \in Transfers \ {t} : wk'[u] = wk[u] /\ out'[u] = out[u]
    BY <1>2, SMT DEF Open, Opened, SendReply, Recv, Work, TypeOK, channels
  <2> QED BY <1>1, <2>1, <2>2, SMT DEF Booked, Stale, Valid, server
<1>6. \A u \in Transfers : Answered(u)'
  BY <1>1, SMT DEF Open, Opened, SendReply, Recv, Work, EndsThread, GoesTo, Done, Answered, TypeOK, server, channels
<1> QED BY <1>3, <1>4, <1>5, <1>6

\* The claim of a commit and the publication.
LEMMA CommitKeeps == ASSUME NEW t \in Transfers, IInv, Claim(t) \/ Publish(t) PROVE IInv'
<1> USE DEF IInv
<1>1. UNCHANGED <<server, channels>>
  BY DEF Claim, Publish
<1>2. TypeOK'
  <2>0. FlagsOK /\ DataOK
    BY TypeParts
  <2>9. partial' \in Flags /\ published' \in Flags /\ committing' \in Flags
    <3>1. /\ partial' = partial \/ \E b \in BOOLEAN : partial' = [partial EXCEPT ![t] = b]
          /\ published' = published \/ \E b \in BOOLEAN : published' = [published EXCEPT ![t] = b]
          /\ committing' = committing \/ \E b \in BOOLEAN : committing' = [committing EXCEPT ![t] = b]
      BY Zenon DEF Claim, Publish, EndsThread, GoesTo
    <3>2. partial' \in Flags
      BY <2>0, <3>1, FlagChanged DEF FlagsOK
    <3>3. published' \in Flags
      BY <2>0, <3>1, FlagChanged DEF FlagsOK
    <3>4. committing' \in Flags
      BY <2>0, <3>1, FlagChanged DEF FlagsOK
    <3> QED BY <3>2, <3>3, <3>4
  <2>1. FlagsOK'
    BY <1>1, <2>0, <2>9, Zenon DEF FlagsOK, server, channels
  <2>2. DataOK'
    BY <1>1, <2>0, SMT DEF Claim, Publish, EndsThread, GoesTo, DataOK, Pcs, Replies, server, channels
  <2> QED BY <2>1, <2>2, TypePartsNext
<1>3. NoOrphanStaging'
  BY SMT DEF Claim, Publish, EndsThread, GoesTo, NoOrphanStaging, Runs, TypeOK
<1>4. \A u \in Transfers : Booked(u)'
  BY <1>1, SMT DEF Claim, Publish, EndsThread, GoesTo, Booked, Stale, Valid, TypeOK, server, channels
<1>5. \A u \in Transfers : Answered(u)'
  BY <1>1, SMT DEF Claim, Publish, EndsThread, GoesTo, Answered, TypeOK, server, channels
<1> QED BY <1>2, <1>3, <1>4, <1>5

\* Every step keeps the invariant.
LEMMA NextKeeps == ASSUME IInv, [Next]_vars PROVE IInv'
<1>1. ASSUME NEW t \in Transfers, NEW kind \in Kinds, Begin(t, kind) PROVE IInv'
  BY <1>1, BeginKeeps
<1>2. ASSUME NEW t \in Transfers,
             \/ \E what \in {"chunk", "prepare"} : Give(t, what)
             \/ PollData(t) \/ PollPrepared(t) \/ PollFails(t) \/ Cancel(t)
      PROVE IInv'
  BY <1>2, TurnKeeps
<1>3. ASSUME NEW t \in Transfers, PollFinished(t) PROVE IInv'
  BY <1>3, PollFinishedKeeps
<1>4. ASSUME NEW t \in Transfers, Worker(t) PROVE IInv'
  BY <1>4, WorkerKeeps, CommitKeeps DEF Worker
<1>5. CASE Change \/ TurnEnds \/ CancelForRefresh \/ Exec
  BY <1>5, ChangeKeeps, TurnEndsKeeps, CancelForRefreshKeeps, ExecKeeps
<1>6. CASE UNCHANGED vars
  BY <1>6, SMT DEF vars, server, thread, channels, IInv, TypeOK, NoOrphanStaging, Runs, Booked, Answered, Stale, Valid
<1> QED BY <1>1, <1>2, <1>3, <1>4, <1>5, <1>6 DEF Next

(***************************************************************************)
(* The theorems.                                                           *)
(***************************************************************************)

\* The invariant that the properties follow from.
THEOREM Invariant == Spec => []IInv
BY InitHolds, NextKeeps, PTL DEF Spec

\* Transfers, workers and channels keep their types (Transfer).
THEOREM TypeCorrect == Spec => []TypeOK
<1>1. IInv => TypeOK
  BY DEF IInv
<1> QED BY <1>1, Invariant, PTL

\* Every staging file has a worker that will remove or publish it (Sink), for any number of
\* transfers, refreshes included.
THEOREM StagingHasWorker == Spec => []NoOrphanStaging
<1>1. IInv => NoOrphanStaging
  BY DEF IInv
<1> QED BY <1>1, Invariant, PTL

\* A path is typed after its file was published, into a pane that was never left (finish).
THEOREM PastedAtHome == Spec => []PasteFollowsOrigin
<1>1. IInv => PasteFollowsOrigin
  BY DEF IInv, Answered, PasteFollowsOrigin
<1> QED BY <1>1, Invariant, PTL

\* A commit is claimed by a pending transfer whose origin is selected (the gate).
THEOREM ClaimedAtHome == Spec => ClaimedInOrigin
<1>1. ASSUME IInv, [Next]_vars
      PROVE [\A t \in Transfers : (committing'[t] /\ ~committing[t])
               => (tr[t].st = "pending" /\ Valid(t))]_vars
  <2> SUFFICES ASSUME NEW t \in Transfers, committing'[t], ~committing[t]
               PROVE  tr[t].st = "pending" /\ Valid(t)
    OBVIOUS
  <2>1. committing' # committing
    OBVIOUS
  <2>2. PICK u \in Transfers : Claim(u)
    <3>1. \A u \in Transfers, kind \in Kinds : ~Begin(u, kind)
      BY <2>1 DEF Begin
    <3>2. \A u \in Transfers, what \in {"chunk", "prepare"} : ~Give(u, what)
      BY <2>1 DEF Give, thread
    <3>3. \A u \in Transfers : ~PollData(u) /\ ~PollPrepared(u) /\ ~PollFinished(u)
                               /\ ~PollFails(u) /\ ~Cancel(u)
      BY <2>1 DEF PollData, PollPrepared, PollFinished, PollFails, Cancel, thread
    <3>4. \A u \in Transfers : ~Open(u) /\ ~Opened(u) /\ ~SendReply(u) /\ ~Recv(u) /\ ~Work(u)
                               /\ ~Publish(u)
      BY <2>1, Zenon DEF Open, Opened, SendReply, Recv, Work, Publish
    <3>5. ~Change /\ ~TurnEnds /\ ~CancelForRefresh /\ ~UNCHANGED vars
      BY <2>1 DEF Change, TurnEnds, CancelForRefresh, vars, thread
    <3>6. ~Exec
      BY DEF Exec
    <3> QED BY <1>1, <3>1, <3>2, <3>3, <3>4, <3>5, <3>6, Zenon DEF Next, Worker
  <2>3. committing' = [committing EXCEPT ![u] = TRUE] /\ ~stop[u] /\ wk[u].pc = "commit" /\ ~gate
    BY <2>1, <2>2, Zenon DEF Claim, GateFree
  <2>4. u = t
    BY <1>1, <2>3, SMT DEF IInv, TypeOK
  <2> QED BY <1>1, <2>3, <2>4, SMT DEF IInv, TypeOK, Booked, Stale, States
<1> QED BY <1>1, Invariant, PTL DEF Spec, ClaimedInOrigin
=============================================================================
