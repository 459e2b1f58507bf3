------------------------------- MODULE Registry -------------------------------
(***************************************************************************)
(* What the manager of Repos promises to those who evaluate modules: each  *)
(* revision is served by at most one Repo, the last one made for it; a     *)
(* call evaluates in the Repo that serves its revision; a Repo is given up *)
(* only when nobody evaluates in it; a Repo given up never comes back.     *)
(* Modules, use counts and channels do not matter here.                    *)
(***************************************************************************)
EXTENDS Naturals

CONSTANTS
  Hashes,   \* revisions
  Callers   \* gRPC handlers

VARIABLES
  serving,    \* the number of the Repo of each revision, 0 for none
  last,       \* the number of the last Repo made for it
  ready,      \* revisions whose Repo can evaluate
  evaluating  \* the Repos each caller evaluates in: none or one

vars == <<serving, last, ready, evaluating>>

Init == /\ serving = [h \in Hashes |-> 0] /\ last = [h \in Hashes |-> 0]
        /\ ready = {} /\ evaluating = [c \in Callers |-> {}]

Serve(h) == /\ serving[h] = 0
            /\ last' = [last EXCEPT ![h] = @ + 1]
            /\ serving' = [serving EXCEPT ![h] = last[h] + 1]
            /\ UNCHANGED <<ready, evaluating>>

Prepared(h) == /\ serving[h] # 0 /\ h \notin ready
               /\ ready' = ready \cup {h}
               /\ UNCHANGED <<serving, last, evaluating>>

Begin(c, h) == /\ evaluating[c] = {} /\ h \in ready
               /\ evaluating' = [evaluating EXCEPT ![c] = {<<h, serving[h]>>}]
               /\ UNCHANGED <<serving, last, ready>>

End(c) == /\ evaluating[c] # {}
          /\ evaluating' = [evaluating EXCEPT ![c] = {}]
          /\ UNCHANGED <<serving, last, ready>>

GiveUp(h) == /\ serving[h] # 0
             /\ \A c \in Callers : <<h, serving[h]>> \notin evaluating[c]
             /\ serving' = [serving EXCEPT ![h] = 0]
             /\ ready' = ready \ {h}
             /\ UNCHANGED <<last, evaluating>>

\* The process ends, and with it every Repo and every call.
Restart == Init'

Next == \/ \E h \in Hashes : Serve(h) \/ Prepared(h) \/ GiveUp(h)
        \/ \E c \in Callers, h \in Hashes : Begin(c, h)
        \/ \E c \in Callers : End(c)
        \/ Restart

Spec == Init /\ [][Next]_vars
=============================================================================
