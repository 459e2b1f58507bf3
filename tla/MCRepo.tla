------------------------------- MODULE MCRepo -------------------------------
(***************************************************************************)
(* Small instances of Repo: a branch c1 -> c2 and a commit c3 that a       *)
(* forced push puts in the place of c2.                                    *)
(***************************************************************************)
EXTENDS Repo, TLC

CONSTANTS c1, c2, c3

MCCommits == {c1, c2, c3}
MCFastForward == {<<c, c>> : c \in MCCommits} \cup {<<c1, c2>>, <<c1, c3>>}

\* Two of them will do where one caller is enough: to go back is a forced push.
MCLine == {c1, c2}
MCLineForward == {<<c1, c1>>, <<c2, c2>>, <<c1, c2>>}

\* The secret matters to tags only, and to both kinds of tag alike.
MCConfigs == [kind : Kinds, private : {FALSE}] \cup [kind : {"Tag"}, private : {TRUE}]

Symmetric == Permutations(Callers)
=============================================================================
