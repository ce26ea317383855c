------------------------------ MODULE CloseTab ------------------------------
(***************************************************************************)
(* The close protocol of one tab.  The supervisor never ends a program: it *)
(* writes a request file, a probe and then a commit, and the program, a    *)
(* shell or an editor, judges its own state, answers in a reply file and   *)
(* exits by itself, while keys, jobs, cancellations and deadlines come in  *)
(* between.  Source: src/server/close.rs, src/close.rs, src/close/.        *)
(***************************************************************************)
EXTENDS Naturals

CONSTANTS
  Kinds,     \* of "shell", "editor"
  Jobs,      \* children the program may have
  Helpers,   \* those that are registered language servers
  MaxChecks, \* bound: close checks of the tab
  MaxKeys    \* bound: keys and pastes sent to the tab

ASSUME CloseAssumption ==
  /\ Kinds \subseteq {"shell", "editor"} /\ Helpers \subseteq Jobs
  /\ MaxChecks \in Nat /\ MaxKeys \in Nat

VARIABLES
  kind,    \* what runs in the tab
  pend,    \* the entry of close_pending
  checks,  \* the last token
  queue,   \* tab.input: keys the supervisor has accepted and not written
  keys,    \* keys accepted
  request, \* the file request
  wake,    \* bytes in the pipe that wakes the shell
  reply,   \* the file reply
  prog,    \* the program: where its handler is, and the token it took
  unread,  \* keys written to the terminal and not read
  dirty,   \* a line is not submitted, or a buffer not saved
  jobs,    \* the children that run
  last,    \* the last token and phase an editor took
  since,   \* history: keys accepted since the last commit was published
  ended    \* history: the children that ran when the program exited

supervisor == <<pend, checks>>
input == <<queue, keys, since>>
files == <<request, wake, reply>>
program == <<prog, unread, dirty, jobs, last, ended>>
vars == <<kind, supervisor, input, files, program>>

NoClose == [token |-> 0, st |-> "none", phase |-> "none", late |-> FALSE]
NoRequest == [token |-> 0, phase |-> "none", pids |-> {}, expired |-> FALSE]
NoReply == [token |-> 0, phase |-> "none", refused |-> FALSE, pids |-> {}]

Init ==
  /\ kind \in Kinds /\ pend = NoClose /\ checks = 0
  /\ queue = 0 /\ keys = 0 /\ since = 0
  /\ request = NoRequest /\ wake = 0 /\ reply = NoReply
  /\ prog = [pc |-> "idle", token |-> 0] /\ unread = 0 /\ dirty \in BOOLEAN
  /\ jobs \in SUBSET Jobs /\ last = <<0, "none">> /\ ended = {}

Phases == {"none", "probe", "commit"}
Tokens == 0 .. MaxChecks

TypeOK ==
  /\ kind \in Kinds /\ checks \in Tokens
  /\ pend \in [token : Tokens, st : {"none", "active", "finished", "closed"}, phase : Phases, late : BOOLEAN]
  /\ queue \in Nat /\ keys \in Nat /\ since \in Nat /\ wake \in Nat /\ unread \in Nat
  /\ request \in [token : Tokens, phase : Phases, pids : SUBSET Jobs, expired : BOOLEAN]
  /\ reply \in [token : Tokens, phase : Phases, refused : BOOLEAN, pids : SUBSET Jobs]
  /\ prog \in [pc : {"idle", "looking", "leaving", "gone", "quit"}, token : Tokens]
  /\ dirty \in BOOLEAN /\ jobs \subseteq Jobs /\ ended \subseteq Jobs
  /\ last \in Tokens \X Phases

Active == pend.st = "active"
Over == prog.pc \in {"gone", "quit"}

----------------------------------------------------------------------------
(* The supervisor.                                                           *)

\* A request and, for a shell, the byte that wakes it.
Write(token, phase, pids) ==
  /\ request' = [token |-> token, phase |-> phase, pids |-> pids, expired |-> FALSE]
  /\ wake' = IF kind = "shell" THEN wake + 1 ELSE wake

\* The request is withdrawn; what the program took of it already is not.
Finish(st) ==
  /\ pend' = [pend EXCEPT !.st = st] /\ request' = NoRequest /\ UNCHANGED <<wake, since>>

\* close-check: an entry that is there answers for itself.  The audit may fail after the
\* request was written.
Check ==
  /\ pend = NoClose /\ queue = 0 /\ ~Over /\ checks < MaxChecks
  /\ checks' = checks + 1 /\ Write(checks', "probe", {})
  /\ pend' \in {NoClose, [token |-> checks', st |-> "active", phase |-> "probe", late |-> FALSE]}
  /\ UNCHANGED <<kind, input, reply, program>>

Accepts == keys < MaxKeys /\ ~Over /\ keys' = keys + 1 /\ queue' = queue + 1 /\ since' = since + 1

Input ==
  /\ Accepts
  /\ IF Active THEN /\ pend' = [pend EXCEPT !.st = "finished"] /\ request' = NoRequest
               ELSE UNCHANGED <<pend, request>>
  /\ UNCHANGED <<kind, checks, wake, reply, program>>

\* A confirmed paste joins the queue without ending the close.
LiteralPaste ==
  /\ Accepts /\ UNCHANGED <<kind, supervisor, files, program>>

Cancel ==
  /\ pend # NoClose /\ pend' = NoClose /\ request' = NoRequest
  /\ UNCHANGED <<kind, checks, input, wake, reply, program>>

DrainTerminals ==
  /\ queue > 0
  /\ \E n \in 1 .. queue : queue' = queue - n /\ unread' = IF Over THEN unread ELSE unread + n
  /\ UNCHANGED <<kind, supervisor, keys, since, files, prog, dirty, jobs, last, ended>>

Deadline ==
  /\ Active /\ ~pend.late /\ pend' = [pend EXCEPT !.late = TRUE]
  /\ UNCHANGED <<kind, checks, input, files, program>>

\* A request lives longer than its close's deadline.
RequestExpires ==
  /\ request # NoRequest /\ ~request.expired /\ (Active => pend.late)
  /\ request' = [request EXCEPT !.expired = TRUE]
  /\ UNCHANGED <<kind, supervisor, input, wake, reply, program>>

Answered == reply.token = pend.token /\ reply.phase = pend.phase

\* Only registered language servers, and only the children that were reported.
Services == IF kind = "editor" THEN Helpers ELSE {}
Verified == ~Over /\ jobs = reply.pids /\ jobs \subseteq Services

\* Mutant: the check waits for as long as the program takes.
NoDeadline == FALSE

TimedOut == pend.late

\* close_tick for an entry without a reason; the exit may not have been noticed yet.
Tick ==
  /\ Active
  /\ \/ Over /\ Finish("closed")
     \/ (TimedOut \/ queue > 0) /\ Finish("finished")
     \/ /\ ~TimedOut /\ queue = 0 /\ Answered
        /\ reply.refused \/ (pend.phase = "probe" /\ ~Verified)
        /\ Finish("finished")
     \/ /\ ~TimedOut /\ queue = 0 /\ Answered /\ ~reply.refused /\ pend.phase = "probe" /\ Verified
        /\ \/ Finish("finished")
           \/ /\ Write(pend.token, "commit", reply.pids) /\ since' = 0
              /\ pend' = [pend EXCEPT !.phase = "commit", !.late = FALSE]
  /\ UNCHANGED <<kind, checks, queue, keys, reply, program>>

\* ... and the end of an entry that has one.
Forget ==
  /\ pend.st \in {"finished", "closed"} /\ pend' = NoClose
  /\ UNCHANGED <<kind, checks, input, files, program>>

----------------------------------------------------------------------------
(* The program.  Its handler runs between two of its keys.                   *)

\* Mutant: the commit is answered like the probe, whatever was started since.
AnyJobs(pids) == kind = "editor" \/ jobs = {}

\* A shell accepts no children at all, an editor those of the request.
SameJobs(pids) == IF kind = "editor" THEN request.phase = "probe" \/ jobs = pids
                                     ELSE jobs = {} /\ pids = {}

\* Mutant: what was typed and not yet read is not looked at.
LineOnly == ~dirty

Clean == ~dirty /\ unread = 0

Judge ==
  LET refused == ~Clean \/ ~SameJobs(request.pids) IN
  /\ reply' = [token |-> request.token, phase |-> request.phase, refused |-> refused,
               pids |-> IF kind = "editor" THEN jobs ELSE {}]
  /\ IF request.phase = "commit" /\ ~refused
       THEN prog' = [pc |-> "looking", token |-> request.token] ELSE UNCHANGED prog

Legible == request # NoRequest /\ ~request.expired

ShellWakes ==
  /\ kind = "shell" /\ prog.pc = "idle" /\ wake > 0 /\ wake' = wake - 1
  /\ IF Legible THEN Judge ELSE UNCHANGED <<reply, prog>>
  /\ UNCHANGED <<kind, supervisor, input, request, unread, dirty, jobs, last, ended>>

EditorTimer ==
  /\ kind = "editor" /\ prog.pc = "idle" /\ Legible /\ last # <<request.token, request.phase>>
  /\ last' = <<request.token, request.phase>> /\ Judge
  /\ UNCHANGED <<kind, supervisor, input, request, wake, unread, dirty, jobs, ended>>

\* Mutant: a clean commit exits at once.
Trusts == TRUE

StillAsked == request # NoRequest

\* The last look: is there still a request?
Look ==
  /\ prog.pc = "looking"
  /\ prog' = [prog EXCEPT !.pc = IF StillAsked THEN "leaving" ELSE "idle"]
  /\ UNCHANGED <<kind, supervisor, input, files, unread, dirty, jobs, last, ended>>

Exit ==
  /\ prog.pc = "leaving" /\ prog' = [prog EXCEPT !.pc = "gone"] /\ ended' = jobs
  /\ UNCHANGED <<kind, supervisor, input, files, unread, dirty, jobs, last>>

\* The editor refuses to quit.
RefusesToQuit ==
  /\ kind = "editor" /\ prog.pc = "leaving" /\ prog' = [prog EXCEPT !.pc = "idle"]
  /\ reply' = [reply EXCEPT !.refused = TRUE]
  /\ UNCHANGED <<kind, supervisor, input, request, wake, unread, dirty, jobs, last, ended>>

\* A key edits, submits, saves, starts a command or quits.
ReadKey ==
  /\ prog.pc = "idle" /\ unread > 0 /\ unread' = unread - 1
  /\ dirty' \in BOOLEAN /\ jobs' \in {jobs} \union {jobs \union {j} : j \in Jobs}
  /\ prog' \in {prog, [prog EXCEPT !.pc = "quit"]}
  /\ UNCHANGED <<kind, supervisor, input, files, last, ended>>

\* Plugins start children by themselves; children end by themselves.
JobsChange ==
  /\ ~Over
  /\ \E j \in Jobs : jobs' = jobs \ {j} \/ (kind = "editor" /\ prog.pc = "idle" /\ jobs' = jobs \union {j})
  /\ UNCHANGED <<kind, supervisor, input, files, prog, unread, dirty, last, ended>>

Supervisor ==
  \/ Check \/ Input \/ LiteralPaste \/ Cancel \/ DrainTerminals \/ Tick \/ Forget
  \/ Deadline \/ RequestExpires

Program ==
  \/ ShellWakes \/ EditorTimer \/ Look \/ Exit \/ RefusesToQuit \/ ReadKey \/ JobsChange

Next == Supervisor \/ Program

\* Time passes and the supervisor ticks; nothing is assumed of the program or the user.
Fairness == WF_vars(Deadline) /\ WF_vars(Tick)

Spec == Init /\ [][Next]_vars /\ Fairness

----------------------------------------------------------------------------
(* Properties.                                                               *)

\* A program that exits for a close has read and used every key that was accepted before
\* the supervisor published the commit; only keys accepted after it may be lost.
NothingTypedIsLost == prog.pc = "gone" => (~dirty /\ unread + queue <= since)

\* The children that end with the program are those the supervisor verified as helpers.
OnlyHelpersEnd == ended \subseteq Services

\* A close that was cancelled, timed out or disturbed by a key before the program's last
\* look does not end the program, unless the tab was asked to close again.
WithdrawnStays ==
  [][(prog.pc = "looking" /\ prog'.pc = "leaving")
       => ((Active /\ pend.token = prog.token) \/ checks > prog.token)]_vars

\* Every check is answered: the program exits, or the user is asked, or it was cancelled.
\* Until then a refresh is refused.
EveryCheckDecides == Active ~> ~Active
=============================================================================
