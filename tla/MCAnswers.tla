------------------------------ MODULE MCAnswers ------------------------------
(***************************************************************************)
(* A small instance of Answers: one composite resource, a branch c1 -> c2. *)
(***************************************************************************)
EXTENDS Answers

CONSTANTS c1, c2

MCCommits == {c1, c2}
MCFastForward == {<<c1, c1>>, <<c2, c2>>, <<c1, c2>>}

MCBranch == {[kind |-> "Branch", private |-> FALSE]}
=============================================================================
