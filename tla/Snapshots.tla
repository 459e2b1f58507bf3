------------------------------ MODULE Snapshots ------------------------------
(***************************************************************************)
(* What a Repo promises to those who call Execute: a module is evaluated   *)
(* from one version of the repository from beginning to end, and versions  *)
(* change only between evaluations.  How git, the lock and the update      *)
(* goroutine bring this about does not matter here.                        *)
(***************************************************************************)
CONSTANTS
  Callers,   \* goroutines that may call Execute
  Versions,  \* versions of the repository
  NoVersion  \* no version can be evaluated

VARIABLES
  version,   \* the version that an evaluation beginning now will see
  call,      \* what each caller is doing
  seen       \* the version that the last evaluation of each caller has seen

vars == <<version, call, seen>>

Quiet == \A c \in Callers : call[c] # "evaluating"

Init == /\ version = NoVersion
        /\ call = [c \in Callers |-> "idle"]
        /\ seen = [c \in Callers |-> NoVersion]

Call(c) == /\ call[c] = "idle"
           /\ call' = [call EXCEPT ![c] = "waiting"]
           /\ seen' = [seen EXCEPT ![c] = NoVersion]
           /\ UNCHANGED version

Refuse(c) == /\ call[c] = "waiting" /\ version = NoVersion
             /\ call' = [call EXCEPT ![c] = "idle"]
             /\ UNCHANGED <<version, seen>>

Begin(c) == /\ call[c] = "waiting" /\ version # NoVersion
            /\ call' = [call EXCEPT ![c] = "evaluating"]
            /\ seen' = [seen EXCEPT ![c] = version]
            /\ UNCHANGED version

End(c) == /\ call[c] = "evaluating"
          /\ call' = [call EXCEPT ![c] = "idle"]
          /\ UNCHANGED <<version, seen>>

NewVersion == /\ Quiet
              /\ version' \in Versions \cup {NoVersion}
              /\ UNCHANGED <<call, seen>>

Next == \/ \E c \in Callers : Call(c) \/ Refuse(c) \/ Begin(c) \/ End(c)
        \/ NewVersion

Spec == Init /\ [][Next]_vars
=============================================================================
