----------------------------- MODULE RepoProofs -----------------------------
(***************************************************************************)
(* The safety properties of Repo, for any set of callers, any history of   *)
(* commits and any bounds.  TypeOK is inductive by itself.  With it, the   *)
(* exclusion that Locker gives (LockInv), the one stop message (StopInv),  *)
(* what the status says of the clone (StatusInv) and what the evaluations  *)
(* under way have read (FilesInv) are inductive together; everything else  *)
(* follows from them.                                                      *)
(***************************************************************************)
EXTENDS Repo, TLAPS

USE DEF external, git, locks, vars

-----------------------------------------------------------------------------
(***************************************************************************)
(* Types                                                                   *)
(***************************************************************************)
\* A failing call stays within the bound on failing calls.
LEMMA FaultType ==
  ASSUME MaxFaults \in Nat, faults \in 0..MaxFaults, Fault
  PROVE  faults' \in 0..MaxFaults
BY DEF Fault

\* A move of the remote stays within the bound on moves.
LEMMA MoveType ==
  ASSUME MaxMoves \in Nat, moves \in 0..MaxMoves, RemoteMoves
  PROVE  moves' \in 0..MaxMoves
BY DEF RemoteMoves

\* Only commits follow one another.
LEMMA FastForwardCommits ==
  \A x, y : <<x, y>> \in FastForward => x \in Commits /\ y \in Commits
BY RepoAssumption

\* Every step keeps every variable in its type.
LEMMA TypeStep == TypeOK /\ [Next]_vars => TypeOK'
<1> SUFFICES ASSUME TypeOK, [Next]_vars PROVE TypeOK'
  OBVIOUS
<1> USE DEF TypeOK
<1>1. CASE TakeStop
  BY <1>1 DEF TakeStop, Inside, Free
<1>2. CASE StartPass
  BY <1>2 DEF StartPass, Inside, Free
<1>3. CASE CallLock
  BY <1>3 DEF CallLock, Announce, Inside, Free
<1>4. CASE GotLock
  BY <1>4 DEF GotLock, Inside, Free
<1>5. CASE Awake
  BY <1>5 DEF Awake, Inside, Free
<1>6. CASE CloneFails
  <2>1. (status \in Status)'
    BY <1>6 DEF CloneFails, InitFailed, Status, NewStatus, Messages
  <2>2. (faults \in 0..MaxFaults)'
    BY <1>6, FaultType, RepoAssumption DEF CloneFails, InitFailed
  <2> QED
    BY <1>6, <2>1, <2>2 DEF CloneFails, InitFailed, Unlock, Inside, Free
<1>7. CASE CloneExists
  <2>1. (status \in Status)'
    BY <1>7 DEF CloneExists, InitFailed, Status, NewStatus, Messages
  <2> QED
    BY <1>7, <2>1 DEF CloneExists, InitFailed, Unlock, Inside, Free
<1>8. CASE DetectFails
  <2>1. (status \in Status)'
    BY <1>8 DEF DetectFails, InitFailed, Status, NewStatus, Messages
  <2>2. (/\ clone \in MaybeCommit /\ fetched \in MaybeCommit /\ index \in MaybeCommit
         /\ head \in {"commit", "tag"} /\ tree \in SUBSET Commits)'
    BY <1>8 DEF DetectFails, MaybeCommit
  <2> QED
    BY <1>8, <2>1, <2>2 DEF DetectFails, InitFailed, Unlock, Inside, Free
<1>9. CASE CheckoutFails
  <2>1. (status \in Status)'
    BY <1>9 DEF CheckoutFails, InitFailed, Status, NewStatus, Messages
  <2>2. (faults \in 0..MaxFaults)'
    BY <1>9, FaultType, RepoAssumption DEF CheckoutFails, InitFailed
  <2>3. (/\ clone \in MaybeCommit /\ fetched \in MaybeCommit /\ index \in MaybeCommit
         /\ head \in {"commit", "tag"} /\ tree \in SUBSET Commits)'
    BY <1>9 DEF CheckoutFails, MaybeCommit
  <2> QED
    BY <1>9, <2>1, <2>2, <2>3 DEF CheckoutFails, InitFailed, Unlock, Inside, Free
<1>10. CASE InitSucceeds
  <2>1. (status \in Status)'
    BY <1>10 DEF InitSucceeds, Status, NewStatus, Messages
  <2>2. (/\ clone \in MaybeCommit /\ fetched \in MaybeCommit /\ index \in MaybeCommit
         /\ head \in {"commit", "tag"} /\ tree \in SUBSET Commits)'
    BY <1>10 DEF InitSucceeds, MaybeCommit
  <2> QED
    BY <1>10, <2>1, <2>2 DEF InitSucceeds, Inside, Free
<1>11. CASE CheckCommit
  BY <1>11 DEF CheckCommit, Inside, Free
<1>12. CASE CheckBranch
  BY <1>12 DEF CheckBranch, Fetch, NeedUpdate, Inside, Free
<1>13. CASE FetchTag
  BY <1>13 DEF FetchTag, Fetch, Inside, Free
<1>14. CASE ListTags
  BY <1>14 DEF ListTags, NeedUpdate, Inside, Free
<1>15. CASE CheckFails
  <2>1. (status \in Status)'
    BY <1>15 DEF CheckFails, Report, Status, NewStatus, Messages
  <2>2. (faults \in 0..MaxFaults)'
    BY <1>15, FaultType, RepoAssumption DEF CheckFails, Report
  <2> QED
    BY <1>15, <2>1, <2>2 DEF CheckFails, Report, Inside, Free
<1>16. CASE NoUpdates
  <2>1. (status \in Status)'
    BY <1>16 DEF NoUpdates, Report, Status, NewStatus, Messages
  <2> QED
    BY <1>16, <2>1 DEF NoUpdates, Report, Inside, Free
<1>17. CASE PullBranch
  <2>1. (status \in Status)'
    <3>1. Report(TRUE, "Update success") \/ Report(FALSE, "update failed")
      BY <1>17 DEF PullBranch, Updated, NotUpdated
    <3> QED
      BY <3>1 DEF Report, Status, Messages
  <2>2. (clone \in MaybeCommit /\ head \in {"commit", "tag"} /\ tree \in SUBSET Commits /\ index \in MaybeCommit)'
    BY <1>17, FastForwardCommits DEF PullBranch, CheckedOut
  <2> QED
    BY <1>17, <2>1, <2>2 DEF PullBranch, Fetch, Updated, NotUpdated, Report, Unlock, Inside, Free
<1>18. CASE CheckoutTag
  <2>1. (status \in Status)'
    BY <1>18 DEF CheckoutTag, Updated, Report, Status, NewStatus, Messages
  <2>2. /\ (clone \in MaybeCommit /\ head \in {"commit", "tag"} /\ tree \in SUBSET Commits /\ index \in MaybeCommit)'
        /\ UNCHANGED fetched
    BY <1>18 DEF CheckoutTag, Target, Tags, CheckedOut, MaybeCommit
  <2> QED
    <3>1. /\ worker' = "publish"
          /\ UNCHANGED <<external, locks, destroy, faults, fetched>>
      BY <1>18, <2>2 DEF CheckoutTag, Updated
    <3> QED
      BY <2>1, <2>2, <3>1 DEF Inside, Free
<1>19. CASE UpdateFails
  <2>1. (status \in Status)'
    BY <1>19 DEF UpdateFails, NotUpdated, Report, Status, NewStatus, Messages
  <2>2. (faults \in 0..MaxFaults)'
    BY <1>19, FaultType, RepoAssumption DEF UpdateFails, NotUpdated, Report
  <2> QED
    BY <1>19, <2>1, <2>2 DEF UpdateFails, Fetch, NotUpdated, Report, Unlock, Inside, Free
<1>31. CASE UpdateInterrupted
  <2>1. (status \in Status)'
    BY <1>31 DEF UpdateInterrupted, NotUpdated, Report, Status, NewStatus, Messages
  <2>2. (faults \in 0..MaxFaults)'
    BY <1>31, FaultType, RepoAssumption DEF UpdateInterrupted, NotUpdated, Report
  <2>3. (/\ clone \in MaybeCommit /\ head \in {"commit", "tag"} /\ tree \in SUBSET Commits
         /\ index \in MaybeCommit /\ fetched \in MaybeCommit)'
    BY <1>31 DEF UpdateInterrupted, OnlyHead, PartWritten, Target, Fetch
  <2> QED
    BY <1>31, <2>1, <2>2, <2>3 DEF UpdateInterrupted, NotUpdated, Report, Unlock, Inside, Free
<1>32. CASE UpdateRefused
  <2>1. (status \in Status)'
    BY <1>32 DEF UpdateRefused, NotUpdated, Report, Status, NewStatus, Messages
  <2>2. (/\ clone \in MaybeCommit /\ head \in {"commit", "tag"} /\ fetched \in MaybeCommit
         /\ tree \in SUBSET Commits /\ index \in MaybeCommit)'
    BY <1>32 DEF UpdateRefused, OnlyHead, Target, Fetch
  <2> QED
    BY <1>32, <2>1, <2>2 DEF UpdateRefused, NotUpdated, Report, Unlock, Inside, Free
<1>20. CASE PublishSha
  <2>1. (status \in Status)'
    BY <1>20 DEF PublishSha, Status, NewStatus, Messages
  <2> QED
    BY <1>20, <2>1 DEF PublishSha, Unlock, Inside, Free
<1>21. CASE CallDestroy
  BY <1>21 DEF CallDestroy, Inside, Free
<1>22. CASE DestroyLock
  BY <1>22 DEF DestroyLock, Announce, Inside, Free
<1>23. CASE DestroyGotLock
  BY <1>23 DEF DestroyGotLock, Inside, Free
<1>24. CASE Remove
  <2>1. (status \in Status)'
    BY <1>24 DEF Remove, Status, NewStatus, Messages, MaybeCommit
  <2>2. (faults \in 0..MaxFaults)'
    BY <1>24, FaultType, RepoAssumption DEF Remove
  <2>3. (/\ clone \in MaybeCommit /\ fetched \in MaybeCommit /\ index \in MaybeCommit
         /\ head \in {"commit", "tag"} /\ tree \in SUBSET Commits)'
    BY <1>24 DEF Remove, MaybeCommit
  <2> QED
    BY <1>24, <2>1, <2>2, <2>3 DEF Remove, Unlock, Inside, Free
<1>25. ASSUME NEW c \in Callers, Execute(c) PROVE TypeOK'
  <2>1. (exec \in [Callers -> {"idle", "blocked"} \cup Inside])'
    BY <1>25 DEF Execute, Inside
  <2>2. (files \in [Callers -> SUBSET (SUBSET Commits)])'
    BY <1>25 DEF Execute
  <2> QED
    BY <1>25, <2>1, <2>2 DEF Execute
<1>26. ASSUME NEW c \in Callers, Refuse(c) PROVE TypeOK'
  <2>1. (exec \in [Callers -> {"idle", "blocked"} \cup Inside])'
    BY <1>26 DEF Refuse, Inside
  <2>2. (files \in [Callers -> SUBSET (SUBSET Commits)])'
    BY <1>26 DEF Refuse
  <2> QED
    BY <1>26, <2>1, <2>2 DEF Refuse
<1>27. ASSUME NEW c \in Callers, BeginRender(c) PROVE TypeOK'
  <2>1. (exec \in [Callers -> {"idle", "blocked"} \cup Inside])'
    BY <1>27 DEF BeginRender, Inside
  <2>2. (files \in [Callers -> SUBSET (SUBSET Commits)])'
    BY <1>27 DEF BeginRender, ReadFiles
  <2> QED
    BY <1>27, <2>1, <2>2 DEF BeginRender
<1>28. ASSUME NEW c \in Callers, EndRender(c) PROVE TypeOK'
  <2>1. (exec \in [Callers -> {"idle", "blocked"} \cup Inside])'
    BY <1>28 DEF EndRender, Inside
  <2>2. (files \in [Callers -> SUBSET (SUBSET Commits)])'
    BY <1>28 DEF EndRender, ReadFiles
  <2> QED
    BY <1>28, <2>1, <2>2 DEF EndRender
<1>29. CASE RemoteMoves
  <2>1. (moves \in 0..MaxMoves)'
    BY <1>29, MoveType, RepoAssumption
  <2>2. (remote \in MaybeCommit /\ object \in {"sent", "withheld"})'
    BY <1>29 DEF RemoteMoves
  <2> QED
    BY <1>29, <2>1, <2>2 DEF RemoteMoves
<1>30. CASE UNCHANGED vars
  BY <1>30
<1> QED
  BY <1>1, <1>2, <1>3, <1>4, <1>5, <1>6, <1>7, <1>8, <1>9, <1>10,
     <1>11, <1>12, <1>13, <1>14, <1>15, <1>16, <1>17, <1>18, <1>19, <1>20,
     <1>21, <1>22, <1>23, <1>24, <1>25, <1>26, <1>27, <1>28, <1>29, <1>30,
     <1>31, <1>32
     DEF Next, Worker, InitPass, CheckPass, UpdatePass, Destroy, Evaluate

\* Every variable keeps its type, whatever the bounds.
THEOREM TypeCorrect == Spec => []TypeOK
<1>1. Init => TypeOK
  BY RepoAssumption DEF Init, TypeOK, MaybeCommit, Status, NewStatus, Messages, Inside, Free
<1> QED
  BY <1>1, TypeStep, PTL DEF Spec

-----------------------------------------------------------------------------
(***************************************************************************)
(* The inductive invariant                                                 *)
(***************************************************************************)
Invs == LockInv /\ StopInv /\ StatusInv /\ FilesInv

LEMMA InitIInv == Init => IInv
<1> SUFFICES ASSUME Init PROVE IInv
  OBVIOUS
<1>1. TypeOK
  BY RepoAssumption DEF Init, TypeOK, MaybeCommit, Status, NewStatus, Messages, Inside, Free
<1>2. Invs
  BY DEF Init, Invs, LockInv, StopInv, StatusInv, FilesInv, WorkerInside, DestroyInside,
         NoReaders, Inside, Free, NewStatus
<1>3. AtomicRender
  BY DEF Init, AtomicRender
<1> QED
  BY <1>1, <1>2, <1>3 DEF IInv, Invs

\* What a call of Execute and its evaluation change, for the caller and others.
LEMMA CallChanges ==
  ASSUME TypeOK, NEW c \in Callers
  PROVE  /\ Execute(c) => /\ exec'[c] = IF mutex = Free THEN "locked" ELSE "blocked"
                          /\ files'[c] = {}
         /\ BeginRender(c) => exec'[c] = "rendering" /\ files'[c] = files[c] \cup {tree}
         /\ EndRender(c) => exec'[c] = "idle" /\ files'[c] = files[c] \cup {tree}
         /\ Execute(c) \/ BeginRender(c) \/ EndRender(c) =>
              /\ \A d \in Callers \ {c} : exec'[d] = exec[d] /\ files'[d] = files[d]
              /\ UNCHANGED <<git, status, mutex, worker, destroy>>
<1>1. exec \in [Callers -> {"idle", "blocked"} \cup Inside] /\ DOMAIN files = Callers
  BY DEF TypeOK
<1> QED
  BY <1>1 DEF Execute, BeginRender, EndRender, ReadFiles

\* An update that fails, wherever it stops: the Repo keeps a clone with files,
\* the commit it has published, and says that the update has failed.
LEMMA FailedUpdate ==
  ASSUME TypeOK, Invs, worker = "update", NotUpdated, UNCHANGED destroy,
         clone' # NoCommit, tree' # {}, fetched' # NoCommit
  PROVE  Invs'
<1> USE DEF TypeOK, Invs, LockInv, StopInv, StatusInv, FilesInv,
      WorkerInside, DestroyInside, NoReaders, Inside, Free
<1>1. /\ status'.IsInitialized = status.IsInitialized /\ ~status'.IsUpdateSuccess
      /\ status'.CommitSha = status.CommitSha
  BY DEF NotUpdated, Report, Status
<1>2. /\ worker' = "sleep" /\ mutex' = Free /\ files' = files
      /\ exec' = [c \in Callers |-> IF exec[c] = "blocked" THEN "locked" ELSE exec[c]]
  BY DEF NotUpdated, Unlock
<1> QED
  BY <1>1, <1>2

\* Who holds Locker, what worker() and Destroy have told each other, what the
\* status says of the clone and what evaluations have read, action by action.
LEMMA InvsStep == TypeOK /\ TypeOK' /\ Invs /\ [Next]_vars => Invs'
<1> SUFFICES ASSUME TypeOK, TypeOK', Invs, [Next]_vars PROVE Invs'
  OBVIOUS
<1> USE DEF TypeOK, Invs, LockInv, StopInv, StatusInv, FilesInv,
      WorkerInside, DestroyInside, NoReaders, Inside, Free
<1>1. CASE TakeStop
  BY <1>1 DEF TakeStop
<1>2. CASE StartPass
  BY <1>2 DEF StartPass
<1>3. CASE CallLock
  BY <1>3 DEF CallLock, Announce
<1>4. CASE GotLock
  BY <1>4 DEF GotLock
<1>5. CASE Awake
  BY <1>5 DEF Awake
<1>6. CASE CloneFails
  BY <1>6 DEF CloneFails, InitFailed, Unlock, Fault, Status
<1>7. CASE CloneExists
  BY <1>7 DEF CloneExists, InitFailed, Unlock, Status
<1>8. CASE DetectFails
  BY <1>8 DEF DetectFails, InitFailed, Unlock, Status
<1>9. CASE CheckoutFails
  BY <1>9 DEF CheckoutFails, InitFailed, Unlock, Fault, Status
<1>10. CASE InitSucceeds
  BY <1>10 DEF InitSucceeds, Status
<1>11. CASE CheckCommit
  BY <1>11 DEF CheckCommit
<1>12. CASE CheckBranch
  BY <1>12 DEF CheckBranch, Fetch, NeedUpdate
<1>13. CASE FetchTag
  BY <1>13 DEF FetchTag, Fetch
<1>14. CASE ListTags
  BY <1>14 DEF ListTags, NeedUpdate
<1>15. CASE CheckFails
  BY <1>15 DEF CheckFails, Report, Fault, Status
<1>16. CASE NoUpdates
  BY <1>16 DEF NoUpdates, Report, Status
<1>17. CASE PullBranch
  <2>1. CASE <<clone, remote>> \in FastForward
    <3>1. remote # NoCommit
      BY <2>1, FastForwardCommits, RepoAssumption
    <3>2. /\ clone' = remote /\ tree' # {} /\ fetched' # NoCommit
          /\ UNCHANGED <<mutex, exec, files, destroy>>
          /\ worker = "update" /\ worker' = "publish"
          /\ status'.IsInitialized = status.IsInitialized
      <4>1. /\ clone' = remote /\ tree' # {} /\ fetched' # NoCommit
            /\ worker = "update" /\ worker' = "publish"
            /\ UNCHANGED <<mutex, exec, files, destroy>>
        <5>1. Fetch /\ CheckedOut(remote) /\ Updated /\ worker = "update" /\ UNCHANGED destroy
          BY <1>17, <2>1 DEF PullBranch
        <5>2. tree' = {remote} \/ tree' = tree \cup {remote}
          BY <5>1 DEF CheckedOut
        <5> QED
          BY <3>1, <5>1, <5>2 DEF CheckedOut, Fetch, Updated
      <4>2. Report(TRUE, "Update success")
        BY <1>17, <2>1 DEF PullBranch, Updated
      <4> QED
        BY <4>1, <4>2 DEF Report, Status
    <3> QED
      BY <3>1, <3>2
  <2>2. CASE <<clone, remote>> \notin FastForward
    <3>0. worker = "update" /\ Fetch /\ NotUpdated /\ UNCHANGED <<clone, tree, destroy>>
      BY <1>17, <2>2 DEF PullBranch
    <3>1. fetched' # NoCommit
      BY <3>0 DEF Fetch
    <3> QED
      BY <3>0, <3>1, FailedUpdate
  <2> QED
    BY <2>1, <2>2
<1>18. CASE CheckoutTag
  <2>1. clone' # NoCommit /\ tree' # {} /\ fetched' = fetched
    BY <1>18 DEF CheckoutTag, Target, Tags, CheckedOut
  <2> QED
    <3>1. /\ worker = "update" /\ worker' = "publish"
          /\ UNCHANGED <<mutex, exec, files, destroy>>
      BY <1>18 DEF CheckoutTag, Updated
    <3>2. status'.IsInitialized = status.IsInitialized
      BY <1>18 DEF CheckoutTag, Updated, Report, Status
    <3> QED
      BY <2>1, <3>1, <3>2
<1>19. CASE UpdateFails
  <2>1. worker = "update" /\ NotUpdated /\ UNCHANGED <<clone, tree, destroy>>
    BY <1>19 DEF UpdateFails
  <2>2. fetched' # NoCommit
    BY <1>19 DEF UpdateFails, Fetch
  <2> QED
    BY <2>1, <2>2, FailedUpdate
<1>31. CASE UpdateInterrupted
  <2>1. worker = "update" /\ NotUpdated /\ UNCHANGED destroy
    BY <1>31 DEF UpdateInterrupted
  <2>2. clone' # NoCommit /\ tree' # {} /\ fetched' # NoCommit
    BY <1>31, RepoAssumption DEF UpdateInterrupted, OnlyHead, PartWritten, Target, Fetch
  <2> QED
    BY <2>1, <2>2, FailedUpdate
<1>32. CASE UpdateRefused
  <2>1. worker = "update" /\ NotUpdated /\ UNCHANGED <<tree, destroy>>
    BY <1>32 DEF UpdateRefused, OnlyHead
  <2>2. clone' # NoCommit /\ fetched' # NoCommit
    BY <1>32, RepoAssumption DEF UpdateRefused, OnlyHead, Target, Fetch
  <2> QED
    BY <2>1, <2>2, FailedUpdate
<1>20. CASE PublishSha
  BY <1>20 DEF PublishSha, Unlock, Status
<1>21. CASE CallDestroy
  BY <1>21 DEF CallDestroy
<1>22. CASE DestroyLock
  BY <1>22 DEF DestroyLock, Announce
<1>23. CASE DestroyGotLock
  BY <1>23 DEF DestroyGotLock
<1>24. CASE Remove
  BY <1>24 DEF Remove, Unlock, Fault, NewStatus
<1>25. ASSUME NEW c \in Callers, Execute(c) PROVE Invs'
  <2>1. /\ exec[c] = "idle" /\ files'[c] = {}
        /\ exec'[c] = IF mutex = "none" THEN "locked" ELSE "blocked"
        /\ \A d \in Callers \ {c} : exec'[d] = exec[d] /\ files'[d] = files[d]
        /\ UNCHANGED <<git, status, mutex, worker, destroy>>
    BY <1>25, CallChanges DEF Execute
  <2>2. LockInv' /\ StopInv' /\ StatusInv'
    BY <2>1
  <2>3. FilesInv'
    BY <2>1
  <2> QED
    BY <2>2, <2>3
<1>26. ASSUME NEW c \in Callers, Refuse(c) PROVE Invs'
  BY <1>26 DEF Refuse
<1>27. ASSUME NEW c \in Callers, BeginRender(c) PROVE Invs'
  <2>1. /\ exec[c] = "locked" /\ status.IsInitialized /\ exec'[c] = "rendering"
        /\ files'[c] = files[c] \cup {tree}
        /\ \A d \in Callers \ {c} : exec'[d] = exec[d] /\ files'[d] = files[d]
        /\ UNCHANGED <<git, status, mutex, worker, destroy>>
    BY <1>27, CallChanges DEF BeginRender
  <2>2. files'[c] = {tree}
    BY <2>1
  <2>3. LockInv' /\ StopInv' /\ StatusInv'
    BY <2>1
  <2>4. FilesInv'
    BY <2>1, <2>2
  <2> QED
    BY <2>3, <2>4
<1>28. ASSUME NEW c \in Callers, EndRender(c) PROVE Invs'
  BY <1>28, CallChanges DEF EndRender
<1>29. CASE RemoteMoves
  BY <1>29 DEF RemoteMoves
<1>30. CASE UNCHANGED vars
  BY <1>30
<1> QED
  BY <1>1, <1>2, <1>3, <1>4, <1>5, <1>6, <1>7, <1>8, <1>9, <1>10,
     <1>11, <1>12, <1>13, <1>14, <1>15, <1>16, <1>17, <1>18, <1>19, <1>20,
     <1>21, <1>22, <1>23, <1>24, <1>25, <1>26, <1>27, <1>28, <1>29, <1>30,
     <1>31, <1>32
     DEF Next, Worker, InitPass, CheckPass, UpdatePass, Destroy, Evaluate

\* Only an evaluation changes what an evaluation has read, and it reads the
\* one tree that FilesInv names.
LEMMA AtomicRenderStep == IInv /\ [Next]_vars => AtomicRender'
<1> SUFFICES ASSUME IInv, [Next]_vars PROVE AtomicRender'
  OBVIOUS
<1> USE DEF IInv
<1>1. ASSUME NEW c \in Callers, Execute(c) PROVE AtomicRender'
  <2>1. files' = [files EXCEPT ![c] = {}]
    BY <1>1 DEF Execute
  <2> QED
    BY <2>1 DEF TypeOK, AtomicRender
<1>2. ASSUME NEW c \in Callers, BeginRender(c) PROVE AtomicRender'
  <2>1. files[c] = {} /\ tree # {}
    BY <1>2 DEF BeginRender, FilesInv, StatusInv, TypeOK
  <2>2. files' = [files EXCEPT ![c] = files[c] \cup {tree}]
    BY <1>2 DEF BeginRender, ReadFiles
  <2>3. files'[c] = {tree} /\ \A d \in Callers \ {c} : files'[d] = files[d]
    BY <2>1, <2>2 DEF TypeOK
  <2> QED
    BY <2>1, <2>3 DEF AtomicRender
<1>3. ASSUME NEW c \in Callers, EndRender(c) PROVE AtomicRender'
  <2>1. files[c] = {tree} /\ tree # {}
    BY <1>3 DEF EndRender, FilesInv, StatusInv, TypeOK
  <2>2. files' = [files EXCEPT ![c] = files[c] \cup {tree}]
    BY <1>3 DEF EndRender, ReadFiles
  <2>3. files'[c] = {tree} /\ \A d \in Callers \ {c} : files'[d] = files[d]
    BY <2>1, <2>2 DEF TypeOK
  <2> QED
    BY <2>1, <2>3 DEF AtomicRender
<1>4. CASE UNCHANGED files
  BY <1>4 DEF AtomicRender
<1>5. Worker => UNCHANGED files
  BY DEF Worker, TakeStop, StartPass, CallLock, GotLock, Awake, Announce, Unlock,
    InitPass, CloneFails, CloneExists, DetectFails, CheckoutFails, InitFailed, InitSucceeds,
    CheckPass, CheckCommit, CheckBranch, FetchTag, ListTags, CheckFails, NoUpdates,
    UpdatePass, PullBranch, CheckoutTag, UpdateFails, UpdateInterrupted, UpdateRefused,
    Updated, NotUpdated, PublishSha
<1>6. CallDestroy \/ Destroy => UNCHANGED files
  BY DEF CallDestroy, Destroy, DestroyLock, DestroyGotLock, Remove, Announce, Unlock
<1>7. \A c \in Callers : Refuse(c) => UNCHANGED files
  BY DEF Refuse
<1>8. RemoteMoves \/ UNCHANGED vars => UNCHANGED files
  BY DEF RemoteMoves
<1> QED
  BY <1>1, <1>2, <1>3, <1>4, <1>5, <1>6, <1>7, <1>8 DEF Next, Evaluate

LEMMA Step == IInv /\ [Next]_vars => IInv'
BY TypeStep, InvsStep, AtomicRenderStep DEF IInv, Invs

\* The invariant that the safety properties rest on.
THEOREM Inductive == Spec => []IInv
BY InitIInv, Step, PTL DEF Spec

-----------------------------------------------------------------------------
(***************************************************************************)
(* Safety                                                                  *)
(***************************************************************************)
\* Execute evaluates a module from one state of the working tree, although
\* worker() and Destroy rewrite the directory (Repo.Execute, Repo.work, Repo.Destroy).
THEOREM EvaluationIsAtomic == Spec => []AtomicRender
<1>1. IInv => AtomicRender
  BY DEF IInv
<1> QED
  BY <1>1, Inductive, PTL

\* The commit being evaluated is the one Status.CommitSha names, unless the last
\* update failed or an interrupted one has parted the tree from HEAD: evaluations
\* and passes, in which the two differ, exclude each other (Repo.work, Repo.Execute).
THEOREM EvaluatedIsPublished == Spec => []RenderedIsPublished
<1>1. IInv => RenderedIsPublished
  <2> SUFFICES ASSUME IInv, NEW c \in Callers,
                      exec[c] = "rendering", status.IsUpdateSuccess, tree = {clone}
               PROVE  files[c] = {{status.CommitSha}}
    BY DEF RenderedIsPublished
  <2>1. files[c] = {tree} /\ status.IsInitialized
    BY DEF IInv, FilesInv
  <2>2. worker # "publish"
    BY DEF IInv, LockInv, NoReaders, Inside, WorkerInside
  <2>3. status.CommitSha = clone
    BY <2>1, <2>2 DEF IInv, StatusInv
  <2> QED
    BY <2>1, <2>3
<1> QED
  BY <1>1, Inductive, PTL

\* After Destroy the goroutine of the old Repo is gone: nobody but a new Repo
\* touches the directory of that hash (Repo.Destroy, Repo.worker).
THEOREM DestroyIsFinal == Spec => NoWorkAfterDestroy
<1>1. IInv /\ [Next]_vars => [destroy = "done" => UNCHANGED <<git, status>>]_vars
  <2> SUFFICES ASSUME IInv, Next, destroy = "done"
               PROVE  UNCHANGED <<git, status>>
    BY DEF IInv
  <2>1. worker = "stopped"
    BY DEF IInv, StopInv
  <2>2. ~Worker
    BY <2>1 DEF Worker, TakeStop, StartPass, CallLock, GotLock, Awake, InitPass, CloneFails,
      CloneExists, DetectFails, CheckoutFails, InitFailed, InitSucceeds, CheckPass, CheckCommit,
      CheckBranch, FetchTag, ListTags, CheckFails, NoUpdates, UpdatePass, PullBranch,
      CheckoutTag, UpdateFails, UpdateInterrupted, UpdateRefused, PublishSha
  <2>3. ~CallDestroy /\ ~Destroy
    BY DEF CallDestroy, Destroy, DestroyLock, DestroyGotLock, Remove
  <2>4. ASSUME NEW c \in Callers, Execute(c) \/ Evaluate(c)
        PROVE  UNCHANGED <<git, status>>
    BY <2>4 DEF Execute, Evaluate, Refuse, BeginRender, EndRender
  <2>5. RemoteMoves => UNCHANGED <<git, status>>
    BY DEF RemoteMoves
  <2> QED
    BY <2>2, <2>3, <2>4, <2>5 DEF Next
<1> QED
  BY <1>1, Inductive, PTL DEF Spec, NoWorkAfterDestroy

\* A Repo whose initialisation has failed after its clone never becomes
\* initialised: the clone is in the way of every later one (Repo.init).
THEOREM FailedInitIsFinal == Spec => LeftoverIsFinal
<1>1. IInv /\ [Next]_vars
        => [(clone # NoCommit /\ ~status.IsInitialized) => ~status'.IsInitialized]_vars
  <2> SUFFICES ASSUME IInv, Next, clone # NoCommit, ~status.IsInitialized
               PROVE  ~status'.IsInitialized
    BY DEF IInv
  <2>1. Worker => ~status'.IsInitialized
    BY DEF IInv, TypeOK, Status, Worker, TakeStop, StartPass, CallLock, GotLock, Awake, InitPass, CloneFails,
      CloneExists, DetectFails, CheckoutFails, InitFailed, InitSucceeds, CheckPass, CheckCommit,
      CheckBranch, FetchTag, ListTags, CheckFails, NoUpdates, UpdatePass, PullBranch,
      CheckoutTag, UpdateFails, UpdateInterrupted, UpdateRefused, Updated, NotUpdated,
      Report, PublishSha
  <2>2. CallDestroy \/ Destroy => ~status'.IsInitialized
    <3>1. Remove => status' = NewStatus
      BY DEF Remove
    <3>2. CallDestroy \/ DestroyLock \/ DestroyGotLock => UNCHANGED status
      BY DEF CallDestroy, DestroyLock, DestroyGotLock
    <3> QED
      BY <3>1, <3>2 DEF Destroy, NewStatus
  <2>3. ASSUME NEW c \in Callers, Execute(c) \/ Evaluate(c) PROVE ~status'.IsInitialized
    BY <2>3 DEF Execute, Evaluate, Refuse, BeginRender, EndRender
  <2>4. RemoteMoves => ~status'.IsInitialized
    BY DEF RemoteMoves
  <2> QED
    BY <2>1, <2>2, <2>3, <2>4 DEF Next
<1> QED
  BY <1>1, Inductive, PTL DEF Spec, LeftoverIsFinal

-----------------------------------------------------------------------------
(***************************************************************************)
(* Refinement                                                              *)
(***************************************************************************)
\* The goroutines that are not callers leave every call where it is.
LEMMA OthersKeepCalls ==
  ASSUME TypeOK, Worker \/ CallDestroy \/ Destroy \/ RemoteMoves
  PROVE  Calls' = Calls /\ Seen' = Seen
<1>1. files' = files
  BY DEF Worker, TakeStop, StartPass, CallLock, GotLock, Awake, Announce, Unlock,
    InitPass, CloneFails, CloneExists, DetectFails, CheckoutFails, InitFailed, InitSucceeds,
    CheckPass, CheckCommit, CheckBranch, FetchTag, ListTags, CheckFails, NoUpdates,
    UpdatePass, PullBranch, CheckoutTag, UpdateFails, UpdateInterrupted, UpdateRefused,
    Updated, NotUpdated, PublishSha,
    CallDestroy, Destroy, DestroyLock, DestroyGotLock, Remove, RemoteMoves
<1>2. exec' = exec \/ Unlock
  BY DEF Worker, TakeStop, StartPass, CallLock, GotLock, Awake, Announce,
    InitPass, CloneFails, CloneExists, DetectFails, CheckoutFails, InitFailed, InitSucceeds,
    CheckPass, CheckCommit, CheckBranch, FetchTag, ListTags, CheckFails, NoUpdates,
    UpdatePass, PullBranch, CheckoutTag, UpdateFails, UpdateInterrupted, UpdateRefused,
    Updated, NotUpdated, PublishSha,
    CallDestroy, Destroy, DestroyLock, DestroyGotLock, Remove, RemoteMoves
<1>3. CASE exec' = exec
  BY <1>1, <1>3 DEF Calls, Seen
<1>4. CASE Unlock
  <2>1. \A c \in Callers : Calls'[c] = Calls[c]
    BY <1>4 DEF Unlock, Calls
  <2> QED
    BY <1>1, <2>1 DEF Calls, Seen
<1> QED
  BY <1>2, <1>3, <1>4

\* The version changes only while Locker is held as a writer.
LEMMA VersionNeedsLock ==
  ASSUME IInv, Next, ~WorkerInside, ~DestroyInside
  PROVE  Version' = Version
<1>1. CASE Worker
  BY <1>1 DEF WorkerInside, Version, Worker, TakeStop, StartPass, CallLock, GotLock, Awake,
    InitPass, CloneFails, CloneExists, DetectFails, CheckoutFails, InitFailed, InitSucceeds,
    CheckPass, CheckCommit, CheckBranch, FetchTag, ListTags, CheckFails, NoUpdates,
    UpdatePass, PullBranch, CheckoutTag, UpdateFails, UpdateInterrupted, UpdateRefused,
    PublishSha
<1>2. CASE CallDestroy \/ Destroy
  BY <1>2 DEF DestroyInside, Version, CallDestroy, Destroy, DestroyLock, DestroyGotLock, Remove
<1>3. ASSUME NEW c \in Callers, Execute(c) \/ Evaluate(c) PROVE Version' = Version
  BY <1>3 DEF Version, Execute, Evaluate, Refuse, BeginRender, EndRender
<1>4. CASE RemoteMoves
  BY <1>4 DEF Version, RemoteMoves
<1> QED
  BY <1>1, <1>2, <1>3, <1>4 DEF Next

\* Every step of a Repo is one of Snapshots, or changes nothing there.
LEMMA RefinementStep == IInv /\ IInv' /\ [Next]_vars => [Abstract!Next]_(Abstract!vars)
<1> SUFFICES ASSUME IInv, IInv', [Next]_vars
             PROVE  [Abstract!Next]_(Abstract!vars)
  OBVIOUS
<1>1. TypeOK /\ TypeOK'
  BY DEF IInv
<1>2. CASE Worker \/ CallDestroy \/ Destroy \/ RemoteMoves
  <2>1. Calls' = Calls /\ Seen' = Seen
    BY <1>1, <1>2, OthersKeepCalls
  <2>2. CASE Version' = Version
    BY <2>1, <2>2 DEF Abstract!vars
  <2>3. CASE Version' # Version
    <3>1. NoReaders
      BY <1>2, <2>3, VersionNeedsLock DEF Next, IInv, LockInv
    <3>2. Abstract!Quiet
      BY <3>1 DEF NoReaders, Inside, Abstract!Quiet, Calls
    <3>3. Version' \in (SUBSET Commits) \cup {{}}
      BY <1>1 DEF Version, TypeOK
    <3> QED
      BY <2>1, <3>2, <3>3 DEF Abstract!NewVersion, Abstract!Next
  <2> QED
    BY <2>2, <2>3
<1>3. ASSUME NEW c \in Callers, Execute(c) PROVE Abstract!Call(c)
  <2>1. Calls[c] = "idle" /\ Calls' = [Calls EXCEPT ![c] = "waiting"]
    BY <1>1, <1>3 DEF Execute, Calls, TypeOK
  <2>2. Seen' = [Seen EXCEPT ![c] = {}]
    <3>1. files' = [files EXCEPT ![c] = {}]
      BY <1>3 DEF Execute
    <3>2. files'[c] = {} /\ \A d \in Callers \ {c} : files'[d] = files[d]
      BY <1>1, <3>1 DEF TypeOK
    <3>3. TreeOf({}) = {}
      BY DEF TreeOf
    <3> QED
      BY <3>2, <3>3 DEF Seen
  <2>3. Version' = Version
    BY <1>3 DEF Execute, Version
  <2> QED
    BY <2>1, <2>2, <2>3 DEF Abstract!Call
<1>4. ASSUME NEW c \in Callers, Refuse(c) PROVE Abstract!Refuse(c)
  <2>1. Calls[c] = "waiting" /\ Calls' = [Calls EXCEPT ![c] = "idle"]
    BY <1>1, <1>4 DEF Refuse, Calls, TypeOK
  <2>2. Seen' = Seen /\ Version' = Version /\ Version = {}
    BY <1>4 DEF Refuse, Seen, Version
  <2> QED
    BY <2>1, <2>2 DEF Abstract!Refuse
<1>5. ASSUME NEW c \in Callers, BeginRender(c) PROVE Abstract!Begin(c)
  <2>1. Calls[c] = "waiting" /\ Calls' = [Calls EXCEPT ![c] = "evaluating"]
    BY <1>1, <1>5 DEF BeginRender, Calls, TypeOK
  <2>2. Version' = Version /\ Version = tree /\ Version # {}
    BY <1>5 DEF BeginRender, Version, IInv, StatusInv
  <2>3. files' = [files EXCEPT ![c] = {tree}]
    BY <1>1, <1>5 DEF BeginRender, ReadFiles, IInv, FilesInv, TypeOK
  <2>4. Seen' = [Seen EXCEPT ![c] = tree]
    <3>1. files'[c] = {tree} /\ \A d \in Callers \ {c} : files'[d] = files[d]
      BY <1>1, <2>3 DEF TypeOK
    <3>2. TreeOf({tree}) = tree
      BY DEF TreeOf
    <3> QED
      BY <3>1, <3>2 DEF Seen
  <2> QED
    BY <2>1, <2>2, <2>4 DEF Abstract!Begin
<1>6. ASSUME NEW c \in Callers, EndRender(c) PROVE Abstract!End(c)
  <2>1. Calls[c] = "evaluating" /\ Calls' = [Calls EXCEPT ![c] = "idle"]
    BY <1>1, <1>6 DEF EndRender, Calls, TypeOK
  <2>2. files[c] = {tree}
    BY <1>6 DEF EndRender, IInv, FilesInv
  <2>3. files' = files
    BY <1>1, <1>6, <2>2 DEF EndRender, ReadFiles, TypeOK
  <2>4. Seen' = Seen /\ Version' = Version
    BY <1>6, <2>3 DEF EndRender, Seen, Version
  <2> QED
    BY <2>1, <2>4 DEF Abstract!End
<1>7. CASE UNCHANGED vars
  BY <1>7 DEF Abstract!vars, Version, Calls, Seen
<1> QED
  BY <1>2, <1>3, <1>4, <1>5, <1>6, <1>7 DEF Next, Evaluate, Abstract!Next

\* A Repo implements Snapshots: whatever worker(), Destroy and the remote do,
\* Execute evaluates one version, and versions change between evaluations.
THEOREM RepoImplementsSnapshots == Spec => ImplementsSnapshots
<1>1. Init => Abstract!Init
  BY DEF Init, NewStatus, Abstract!Init, Version, Calls, Seen, TreeOf
<1>2. IInv /\ IInv' /\ [Next]_vars => [Abstract!Next]_(Abstract!vars)
  BY RefinementStep
<1> QED
  BY <1>1, <1>2, Inductive, PTL DEF Spec, ImplementsSnapshots, Abstract!Spec
=============================================================================
