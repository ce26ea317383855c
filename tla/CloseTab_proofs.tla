--------------------------- MODULE CloseTab_proofs ---------------------------
(***************************************************************************)
(* Proofs about CloseTab: what the program's exit can lose and end, and    *)
(* which requests it may follow, for all values of its constants.          *)
(***************************************************************************)
EXTENDS CloseTab, TLAPS

(* The entry of the tab belongs to the last check.                            *)
Entry ==
  /\ pend.st = "none" => pend = NoClose
  /\ pend.st # "none" => pend.token = checks /\ pend.phase \in {"probe", "commit"}

(* A request belongs to the last check, and a commit to its entry; a probe whose *)
(* entry is gone is one whose audit failed, and no commit has had its token.    *)
Asked ==
  request # NoRequest =>
    /\ request.token = checks /\ request.phase \in {"probe", "commit"}
    /\ request.phase = "commit" => /\ Active /\ pend.phase = "commit"
                                   /\ request.pids \subseteq Services /\ queue <= since
    /\ request.phase = "probe" => Active \/ (pend.st = "none" /\ prog.token # checks)

Departing == prog.pc \in {"looking", "leaving"}

(* A program on its way out has answered a commit, has nothing unsaved and    *)
(* owes only keys that were accepted after the commit.                        *)
Going ==
  /\ prog.token <= checks
  /\ Departing => reply.phase = "commit" /\ jobs \subseteq Services
  /\ Departing \/ prog.pc = "gone" => ~dirty /\ unread + queue <= since

PendType == [token : Tokens, st : {"none", "active", "finished", "closed"}, phase : Phases, late : BOOLEAN]
RequestType == [token : Tokens, phase : Phases, pids : SUBSET Jobs, expired : BOOLEAN]
ReplyType == [token : Tokens, phase : Phases, refused : BOOLEAN, pids : SUBSET Jobs]
ProgType == [pc : {"idle", "looking", "leaving", "gone", "quit"}, token : Tokens]

IInv == TypeOK /\ Entry /\ Asked /\ Going /\ OnlyHelpersEnd

\* The records that stand for no entry and no request have their types.
LEMMA Nothing == NoClose \in PendType /\ NoRequest \in RequestType
<1>1. 0 \in Tokens /\ "none" \in Phases
  BY CloseAssumption, SMT DEF Tokens, Phases
<1> QED BY <1>1, SMT DEF NoClose, NoRequest, PendType, RequestType

\* Updates of a field keep the type of a record, whatever the types of the fields are.
LEMMA Updates ==
  ASSUME NEW B, NEW T, NEW S, NEW P, NEW J, NEW flag \in B
  PROVE  /\ \A p \in [token : T, st : S, phase : P, late : B] :
              /\ [p EXCEPT !.late = flag] \in [token : T, st : S, phase : P, late : B]
              /\ \A ph \in P : [p EXCEPT !.phase = ph, !.late = flag] \in [token : T, st : S, phase : P, late : B]
         /\ \A n \in T, st \in S, ph \in P :
              [token |-> n, st |-> st, phase |-> ph, late |-> flag] \in [token : T, st : S, phase : P, late : B]
         /\ \A r \in [token : T, phase : P, pids : J, expired : B] :
              [r EXCEPT !.expired = flag] \in [token : T, phase : P, pids : J, expired : B]
         /\ \A r \in [token : T, phase : P, refused : B, pids : J] :
              [r EXCEPT !.refused = flag] \in [token : T, phase : P, refused : B, pids : J]
<1>1. ASSUME NEW p \in [token : T, st : S, phase : P, late : B]
      PROVE  [p EXCEPT !.late = flag] \in [token : T, st : S, phase : P, late : B]
  OBVIOUS
<1>2. ASSUME NEW p \in [token : T, st : S, phase : P, late : B], NEW ph \in P
      PROVE  [p EXCEPT !.phase = ph, !.late = flag] \in [token : T, st : S, phase : P, late : B]
  OBVIOUS
<1>3. ASSUME NEW n \in T, NEW st \in S, NEW ph \in P
      PROVE  [token |-> n, st |-> st, phase |-> ph, late |-> flag] \in [token : T, st : S, phase : P, late : B]
  OBVIOUS
<1>4. ASSUME NEW r \in [token : T, phase : P, pids : J, expired : B]
      PROVE  [r EXCEPT !.expired = flag] \in [token : T, phase : P, pids : J, expired : B]
  OBVIOUS
<1>5. ASSUME NEW r \in [token : T, phase : P, refused : B, pids : J]
      PROVE  [r EXCEPT !.refused = flag] \in [token : T, phase : P, refused : B, pids : J]
  OBVIOUS
<1> QED BY <1>1, <1>2, <1>3, <1>4, <1>5

\* Those of the Boolean fields.
LEMMA Flags ==
  ASSUME NEW flag \in BOOLEAN
  PROVE  /\ \A p \in PendType : [p EXCEPT !.late = flag] \in PendType
         /\ \A p \in PendType, ph \in Phases : [p EXCEPT !.phase = ph, !.late = flag] \in PendType
         /\ \A n \in Tokens, ph \in Phases :
              [token |-> n, st |-> "active", phase |-> ph, late |-> flag] \in PendType
         /\ \A r \in RequestType : [r EXCEPT !.expired = flag] \in RequestType
         /\ \A r \in ReplyType : [r EXCEPT !.refused = flag] \in ReplyType
<1>1. "active" \in {"none", "active", "finished", "closed"}
  OBVIOUS
<1> QED BY <1>1, Updates, Zenon DEF PendType, RequestType, ReplyType

(***************************************************************************)
(* One lemma for each action.                                              *)
(***************************************************************************)

\* The initial state satisfies the invariant.
LEMMA InitHolds == ASSUME Init PROVE IInv
<1>0. 0 \in Tokens /\ "none" \in Phases
  BY CloseAssumption, SMT DEF Tokens, Phases
<1>1. TypeOK
  <2>1. /\ pend \in [token : Tokens, st : {"none", "active", "finished", "closed"}, phase : Phases, late : BOOLEAN]
        /\ request \in [token : Tokens, phase : Phases, pids : SUBSET Jobs, expired : BOOLEAN]
        /\ reply \in [token : Tokens, phase : Phases, refused : BOOLEAN, pids : SUBSET Jobs]
    BY <1>0, SMT DEF Init, NoClose, NoRequest, NoReply
  <2> QED BY <1>0, <2>1, SMT DEF Init, TypeOK
<1>2. Entry /\ Asked /\ Going /\ OnlyHelpersEnd
  BY <1>0, SMT DEF Init, Entry, Asked, Going, Departing, OnlyHelpersEnd, NoClose, NoRequest, NoReply, Tokens
<1> QED BY <1>1, <1>2 DEF IInv

\* A check writes its probe under a new token.
LEMMA CheckKeeps == ASSUME IInv, Check PROVE IInv'
<1> USE DEF IInv
<1>1. TypeOK'
  <2>1. checks' \in Tokens /\ wake' \in Nat
    BY CloseAssumption, SMT DEF Check, Write, TypeOK, Tokens
  <2>2. request' \in RequestType
    BY <2>1, SMT DEF Check, Write, RequestType, Phases
  <2>3. pend' \in PendType
    <3>1. /\ pend' \in {NoClose, [token |-> checks', st |-> "active", phase |-> "probe", late |-> FALSE]}
          /\ "probe" \in Phases /\ FALSE \in BOOLEAN
      BY Zenon DEF Check, Phases
    <3> QED BY <2>1, <3>1, Nothing, Flags
  <2> QED BY <2>1, <2>2, <2>3, SMT DEF Check, TypeOK, PendType, RequestType, input, program
<1>2. Entry'
  BY SMT DEF Check, Write, Entry, NoClose
<1>3. Asked'
  BY SMT DEF Check, Write, Asked, TypeOK, Going, Tokens, Phases, NoClose, NoRequest, Active, input, program
<1>4. Going'
  BY SMT DEF Check, Going, TypeOK, Tokens, Departing, Services, input, program
<1>5. OnlyHelpersEnd'
  BY SMT DEF Check, OnlyHelpersEnd, Services, program
<1> QED BY <1>1, <1>2, <1>3, <1>4, <1>5

\* A key ends an active close with its request.
LEMMA InputKeeps == ASSUME IInv, Input PROVE IInv'
<1> USE DEF IInv
<1>1. TypeOK'
  <2>1. pend' \in PendType /\ request' \in RequestType
    BY Nothing, SMT DEF Input, TypeOK, PendType, RequestType
  <2> QED BY <2>1, SMT DEF Input, Accepts, TypeOK, PendType, RequestType, program
<1>2. Entry'
  BY SMT DEF Input, Entry, TypeOK, Active, NoClose
<1>3. Asked'
  BY SMT DEF Input, Accepts, Asked, TypeOK, Active, Services, program
<1>4. Going'
  BY SMT DEF Input, Accepts, Going, TypeOK, Over, Departing, Services, program
<1>5. OnlyHelpersEnd'
  BY SMT DEF Input, OnlyHelpersEnd, Services, program
<1> QED BY <1>1, <1>2, <1>3, <1>4, <1>5

\* A confirmed paste is a key that leaves the close alone.
LEMMA LiteralPasteKeeps == ASSUME IInv, LiteralPaste PROVE IInv'
<1> USE DEF IInv
<1>1. TypeOK'
  BY SMT DEF LiteralPaste, Accepts, TypeOK, supervisor, files, program
<1>2. Entry'
  BY SMT DEF LiteralPaste, Entry, supervisor
<1>3. Asked'
  BY SMT DEF LiteralPaste, Accepts, Asked, TypeOK, Active, Services, supervisor, files, program
<1>4. Going'
  BY SMT DEF LiteralPaste, Accepts, Going, TypeOK, Over, Departing, Services, supervisor, files, program
<1>5. OnlyHelpersEnd'
  BY SMT DEF LiteralPaste, OnlyHelpersEnd, Services, program
<1> QED BY <1>1, <1>2, <1>3, <1>4, <1>5

\* Cancelling removes the entry and the request.
LEMMA CancelKeeps == ASSUME IInv, Cancel PROVE IInv'
<1> USE DEF IInv
<1>1. TypeOK'
  BY CloseAssumption, SMT DEF Cancel, TypeOK, Tokens, Phases, NoClose, NoRequest, input, program
<1>2. Entry' /\ Asked'
  BY SMT DEF Cancel, Entry, Asked, NoClose
<1>3. Going' /\ OnlyHelpersEnd'
  BY SMT DEF Cancel, Going, Departing, OnlyHelpersEnd, Services, input, program
<1> QED BY <1>1, <1>2, <1>3

\* Keys go from the queue to the terminal.
LEMMA DrainKeeps == ASSUME IInv, DrainTerminals PROVE IInv'
<1> USE DEF IInv
<1>1. PICK n \in 1 .. queue : queue' = queue - n /\ unread' = IF Over THEN unread ELSE unread + n
  BY DEF DrainTerminals
<1>2. UNCHANGED <<kind, supervisor, keys, since, files, prog, dirty, jobs, last, ended>>
  BY DEF DrainTerminals
<1>3. TypeOK'
  BY <1>1, <1>2, SMT DEF TypeOK, supervisor, files
<1>4. Entry' /\ OnlyHelpersEnd'
  BY <1>2, SMT DEF Entry, OnlyHelpersEnd, Services, supervisor
<1>5. Asked'
  BY <1>1, <1>2, SMT DEF Asked, TypeOK, Active, Services, supervisor, files
<1>6. Going'
  BY <1>1, <1>2, SMT DEF Going, TypeOK, Departing, Services, supervisor, files
<1> QED BY <1>3, <1>4, <1>5, <1>6

\* Deadlines pass for the close and for its request.
LEMMA TimeKeeps == ASSUME IInv, Deadline \/ RequestExpires PROVE IInv'
<1> USE DEF IInv
<1>1. TypeOK'
  <2>1. pend' \in PendType /\ request' \in RequestType
    <3>1. /\ pend' = pend \/ pend' = [pend EXCEPT !.late = TRUE]
          /\ request' = request \/ request' = [request EXCEPT !.expired = TRUE]
          /\ TRUE \in BOOLEAN
      BY DEF Deadline, RequestExpires, supervisor, files
    <3>2. pend \in PendType /\ request \in RequestType
      BY DEF TypeOK, PendType, RequestType
    <3> QED BY <3>1, <3>2, Flags
  <2> QED BY <2>1, SMT DEF Deadline, RequestExpires, TypeOK, PendType, RequestType,
             supervisor, input, files, program
<1>2. Entry'
  BY SMT DEF Deadline, RequestExpires, Entry, TypeOK, Active, NoClose, supervisor
<1>3. Asked'
  BY SMT DEF Deadline, RequestExpires, Asked, TypeOK, Active, Services, NoRequest, supervisor, input, files, program
<1>4. Going' /\ OnlyHelpersEnd'
  BY SMT DEF Deadline, RequestExpires, Going, Departing, OnlyHelpersEnd, Services, supervisor, input, files, program
<1> QED BY <1>1, <1>2, <1>3, <1>4

\* The tick ends the close, or publishes the commit for the children it verified.
LEMMA TickKeeps == ASSUME IInv, Tick PROVE IInv'
<1> USE DEF IInv
<1>1. UNCHANGED <<kind, checks, queue, keys, reply, program>> /\ Active
  BY DEF Tick
<1>2. CASE \E st \in {"finished", "closed"} : Finish(st)
  <2>1. TypeOK'
    BY <1>1, <1>2, CloseAssumption, SMT DEF Finish, TypeOK, Tokens, Phases, NoRequest, program
  <2>2. Entry'
    BY <1>1, <1>2, SMT DEF Finish, Entry, TypeOK, Active, NoClose
  <2>3. Asked'
    BY <1>2, SMT DEF Finish, Asked
  <2>4. Going' /\ OnlyHelpersEnd'
    BY <1>1, <1>2, SMT DEF Finish, Going, Departing, OnlyHelpersEnd, Services, program
  <2> QED BY <2>1, <2>2, <2>3, <2>4
<1>3. CASE /\ queue = 0 /\ Answered /\ pend.phase = "probe" /\ Verified
           /\ Write(pend.token, "commit", reply.pids) /\ since' = 0
           /\ pend' = [pend EXCEPT !.phase = "commit", !.late = FALSE]
  <2>1. TypeOK'
    <3>1. pend' \in PendType
      <4>1. pend \in PendType /\ "commit" \in Phases /\ FALSE \in BOOLEAN
        BY DEF TypeOK, PendType, Phases
      <4> QED BY <1>3, <4>1, Flags
    <3>2. request' \in RequestType /\ wake' \in Nat
      BY <1>3, SMT DEF Write, TypeOK, RequestType, Phases
    <3> QED BY <1>1, <1>3, <3>1, <3>2, SMT DEF TypeOK, PendType, RequestType, program
  <2>2. Entry'
    BY <1>1, <1>3, SMT DEF Entry, TypeOK, Active
  <2>3. Asked'
    BY <1>1, <1>3, SMT DEF Write, Asked, Entry, TypeOK, Active, Verified, Services, program
  <2>4. Going' /\ OnlyHelpersEnd'
    BY <1>1, <1>3, SMT DEF Going, Departing, OnlyHelpersEnd, Services, Answered, Verified, Over, program
  <2> QED BY <2>1, <2>2, <2>3, <2>4
<1> QED BY <1>2, <1>3 DEF Tick

\* The end of an entry that has a reason.
LEMMA ForgetKeeps == ASSUME IInv, Forget PROVE IInv'
<1> USE DEF IInv
<1>1. TypeOK'
  BY CloseAssumption, SMT DEF Forget, TypeOK, Tokens, Phases, NoClose, input, files, program
<1>2. Entry'
  BY SMT DEF Forget, Entry, NoClose
<1>3. Asked'
  BY SMT DEF Forget, Asked, Active, files, program
<1>4. Going' /\ OnlyHelpersEnd'
  BY SMT DEF Forget, Going, Departing, OnlyHelpersEnd, Services, input, files, program
<1> QED BY <1>1, <1>2, <1>3, <1>4

\* What an answer to a request may lead to.
LEMMA Judged ==
  ASSUME IInv, Judge, request # NoRequest, prog.pc = "idle",
         UNCHANGED <<kind, supervisor, input, request, unread, dirty, jobs, ended>>,
         wake' \in Nat, last' \in Tokens \X Phases
  PROVE  IInv'
<1> USE DEF IInv
<1>1. request.token = checks /\ reply'.phase = request.phase
  BY SMT DEF Judge, Asked
<1>2. \/ prog' = prog
      \/ /\ prog' = [pc |-> "looking", token |-> request.token] /\ request.phase = "commit"
         /\ Clean /\ SameJobs(request.pids)
  BY SMT DEF Judge
<1>3. reply' \in [token : Tokens, phase : Phases, refused : BOOLEAN, pids : SUBSET Jobs]
  <2>1. (~Clean \/ ~SameJobs(request.pids)) \in BOOLEAN
    BY Zenon
  <2> QED BY <2>1, SMT DEF Judge, TypeOK
<1>4. TypeOK'
  BY <1>2, <1>3, SMT DEF TypeOK, supervisor, input
<1>5. Entry' /\ OnlyHelpersEnd'
  BY SMT DEF Entry, OnlyHelpersEnd, Services, supervisor
<1>6. Asked'
  BY <1>1, <1>2, SMT DEF Asked, Active, Services, supervisor, input
<1>7. Going'
  <2>1. CASE prog' = prog
    BY <2>1, SMT DEF Going, Departing, supervisor, input
  <2>2. CASE prog' # prog
    <3>1. jobs \subseteq Services
      BY <1>2, <2>2, SMT DEF Asked, SameJobs, Services
    <3> QED BY <1>1, <1>2, <2>2, <3>1, SMT DEF Going, Departing, Asked, Clean, TypeOK, Tokens, Services, supervisor, input
  <2> QED BY <2>1, <2>2
<1> QED BY <1>4, <1>5, <1>6, <1>7

\* The shell is woken, and the editor's timer finds a request.
LEMMA HandlerKeeps == ASSUME IInv, ShellWakes \/ EditorTimer PROVE IInv'
<1> USE DEF IInv
<1>1. CASE ShellWakes /\ Legible
  BY <1>1, Judged, SMT DEF ShellWakes, Legible, TypeOK
<1>2. CASE ShellWakes /\ ~Legible
  <2>1. wake' \in Nat /\ UNCHANGED <<kind, supervisor, input, request, reply, program>>
    BY <1>2, SMT DEF ShellWakes, TypeOK, program
  <2> QED BY <2>1, SMT DEF TypeOK, Entry, Asked, Going, Departing, OnlyHelpersEnd, Active, Services,
              supervisor, input, program
<1>3. CASE EditorTimer
  BY <1>3, Judged, SMT DEF EditorTimer, Legible, TypeOK
<1> QED BY <1>1, <1>2, <1>3

\* The program's last look, its exit, and an editor's refusal to quit.
LEMMA LeavingKeeps == ASSUME IInv, Look \/ Exit \/ RefusesToQuit PROVE IInv'
<1> USE DEF IInv
<1>1. TypeOK'
  <2>1. prog' \in ProgType
    BY SMT DEF Look, Exit, RefusesToQuit, TypeOK, ProgType
  <2>2. reply' \in ReplyType
    <3>1. (reply' = reply \/ reply' = [reply EXCEPT !.refused = TRUE]) /\ TRUE \in BOOLEAN
      BY DEF Look, Exit, RefusesToQuit, files
    <3>2. reply \in ReplyType
      BY DEF TypeOK, ReplyType
    <3> QED BY <3>1, <3>2, Flags
  <2> QED BY <2>1, <2>2, SMT DEF Look, Exit, RefusesToQuit, TypeOK, ReplyType, ProgType, supervisor, input, files
<1>2. Entry'
  BY SMT DEF Look, Exit, RefusesToQuit, Entry, supervisor
<1>3. Asked'
  BY SMT DEF Look, Exit, RefusesToQuit, Asked, TypeOK, Active, Services, supervisor, input, files
<1>4. Going' /\ OnlyHelpersEnd'
  BY SMT DEF Look, Exit, RefusesToQuit, Going, TypeOK, Departing, OnlyHelpersEnd, Services, supervisor, input, files
<1> QED BY <1>1, <1>2, <1>3, <1>4

\* A key is read, or a child starts or ends.
LEMMA UseKeeps == ASSUME IInv, ReadKey \/ JobsChange PROVE IInv'
<1> USE DEF IInv
<1>1. TypeOK'
  BY SMT DEF ReadKey, JobsChange, TypeOK, supervisor, input, files
<1>2. Entry'
  BY SMT DEF ReadKey, JobsChange, Entry, supervisor
<1>3. Asked'
  BY SMT DEF ReadKey, JobsChange, Asked, TypeOK, Active, Services, supervisor, input, files
<1>4. Going' /\ OnlyHelpersEnd'
  BY SMT DEF ReadKey, JobsChange, Going, TypeOK, Departing, OnlyHelpersEnd, Services, supervisor, input, files
<1> QED BY <1>1, <1>2, <1>3, <1>4

\* Every step keeps the invariant.
LEMMA NextKeeps == ASSUME IInv, [Next]_vars PROVE IInv'
<1>1. CASE Supervisor
  BY <1>1, CheckKeeps, InputKeeps, LiteralPasteKeeps, CancelKeeps, DrainKeeps, TickKeeps, ForgetKeeps,
     TimeKeeps DEF Supervisor
<1>2. CASE Program
  BY <1>2, HandlerKeeps, LeavingKeeps, UseKeeps DEF Program
<1>3. CASE UNCHANGED vars
  BY <1>3, SMT DEF vars, supervisor, input, files, program, IInv, TypeOK, Entry, Asked, Going, Departing,
     OnlyHelpersEnd, Active, Services
<1> QED BY <1>1, <1>2, <1>3 DEF Next

(***************************************************************************)
(* The theorems.                                                           *)
(***************************************************************************)

\* The invariant that the properties follow from.
THEOREM Invariant == Spec => []IInv
BY InitHolds, NextKeeps, PTL DEF Spec

\* Requests, replies and the program's state keep their types (CloseTab).
THEOREM TypeCorrect == Spec => []TypeOK
<1>1. IInv => TypeOK
  BY DEF IInv
<1> QED BY <1>1, Invariant, PTL

\* A program that exits for a close loses no key that was accepted before its commit was
\* published, for any number of checks, keys and children (close_tick, the program's hook).
THEOREM TypedIsKept == Spec => []NothingTypedIsLost
<1>1. IInv => NothingTypedIsLost
  BY DEF IInv, Going, NothingTypedIsLost
<1> QED BY <1>1, Invariant, PTL

\* Only children that the supervisor verified end with the program (verify_helpers).
THEOREM HelpersOnly == Spec => []OnlyHelpersEnd
<1>1. IInv => OnlyHelpersEnd
  BY DEF IInv
<1> QED BY <1>1, Invariant, PTL

\* A close that was withdrawn before the last look does not end the program, unless the tab
\* was asked to close again (cancel, input and close_tick against the program's hook).
THEOREM WithdrawnHolds == Spec => WithdrawnStays
<1>1. ASSUME IInv, [Next]_vars
      PROVE [(prog.pc = "looking" /\ prog'.pc = "leaving")
               => ((Active /\ pend.token = prog.token) \/ checks > prog.token)]_vars
  <2> SUFFICES ASSUME prog.pc = "looking", prog'.pc = "leaving"
               PROVE  (Active /\ pend.token = prog.token) \/ checks > prog.token
    OBVIOUS
  <2>1. StillAsked
    BY <1>1, SMT DEF IInv, TypeOK, Next, Supervisor, Program, Check, Input, LiteralPaste, Cancel, DrainTerminals, Tick,
       Forget, Deadline, RequestExpires, ShellWakes, EditorTimer, Look, Exit, RefusesToQuit,
       ReadKey, JobsChange, Judge, vars, program, files
  <2> QED BY <1>1, <2>1, SMT DEF IInv, TypeOK, Tokens, Entry, Asked, Going, Active, StillAsked
<1> QED BY <1>1, Invariant, PTL DEF Spec, WithdrawnStays
=============================================================================
