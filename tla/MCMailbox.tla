----------------------------- MODULE MCMailbox -----------------------------
(***************************************************************************)
(* Small instances of Mailbox for TLC.  The cfgs choose which workspaces   *)
(* and harnesses the runs have and which stimuli occur.                    *)
(***************************************************************************)
EXTENDS Mailbox, TLC

CONSTANTS r1, r2, r3, c1, c2, q1, q2

\* Two runs of one workspace.
HomeOne == r1 :> "w1" @@ r2 :> "w1"
\* A sender and a recipient, each in a workspace of its own.
HomeTwo == r1 :> "w1" @@ r2 :> "w2"
\* A sender, and two runs that one workspace had one after the other or at once.
HomeThree == r1 :> "w1" @@ r2 :> "w2" @@ r3 :> "w2"
AllCodex == [r \in Runs |-> "codex"]
ClaudeOne == [r \in Runs |-> IF r = r1 THEN "claude" ELSE "codex"]

\* Runs of one home are interchangeable.
RunSymmetry == Permutations({r2, r3})
=============================================================================
