---------------------------- MODULE AnswersProofs ----------------------------
(***************************************************************************)
(* The safety properties of Answers, for any set of composite resources    *)
(* and any history of commits.  Every step of Answers is one of Repo,      *)
(* leaves the Repo alone or replaces it by a new one, so that the          *)
(* invariant of Repo holds here too.  On top of it: what a reader without  *)
(* Locker sees differs from status in the fields that are still pending    *)
(* only (MemoryInv); a handler evaluates exactly while its Execute runs,   *)
(* if its Repo has not been replaced (HandlerInv); after an evaluation no  *)
(* field is without its commit until Destroy returns (ShaInv); and as long *)
(* as nothing became visible, what has been read is what is there          *)
(* (UndisturbedInv).                                                       *)
(***************************************************************************)
EXTENDS Answers, RepoProofs, SequenceTheorems

USE DEF external, git, locks, vars, memory, held, answer, allVars

-----------------------------------------------------------------------------
(***************************************************************************)
(* The inductive invariant                                                 *)
(***************************************************************************)
Fields == {"IsInitialized", "Message", "IsUpdateSuccess", "CommitSha"}

\* The fields that are not pending have arrived; Destroy leaves none behind.
MemoryInv ==
  /\ half => pending # <<>>
  /\ destroy = "done" => pending = <<>>
  /\ \A f \in Fields : view[f] # status[f] => f \in Range(pending)

\* The flag and the message of an initialised Repo are written together.
StatusAgrees ==
  status.IsInitialized => (status.IsUpdateSuccess <=> status.Message \in Good)

\* Only the Repo that a handler has looked up knows of its Execute.
HandlerInv ==
  \A c \in Callers :
    /\ handler[c] = "executing" /\ ~stale[c] <=> exec[c] # "idle"
    /\ handler[c] \in {"executing", "lookup"} => ~another[c]

\* A Repo that has been evaluated has a commit until Destroy replaces its Status.
ShaInv ==
  \A c \in Callers :
    rendered[c] # NoCommit /\ ~stale[c] /\ ~another[c] /\ destroy # "done" =>
      view.CommitSha # NoCommit /\ status.CommitSha # NoCommit

\* The fields that the report under way has already.
HasMessage(c) == handler[c] \in {"commitSha", "isInitialized", "isUpdateSuccess", "answered"}
HasSha(c) == handler[c] \in {"isInitialized", "isUpdateSuccess", "answered"}

\* If nothing has become visible since the evaluation began, the Repo is still the
\* one evaluated, the memory is that of the evaluation, and the report a copy of
\* it as far as it goes.
UndisturbedInv ==
  \A c \in Callers : rendered[c] # NoCommit /\ ~changed[c] =>
    /\ ~half /\ ~stale[c] /\ ~another[c]
    /\ view.IsInitialized
    /\ view.IsUpdateSuccess <=> view.Message \in Good
    /\ view.IsUpdateSuccess /\ rendered[c] # "parted" => view.CommitSha = rendered[c]
    /\ HasMessage(c) => report[c].message = view.Message
    /\ HasSha(c) => report[c].commitSha = view.CommitSha
    /\ Answered(c) => (report[c].ok <=> view.IsUpdateSuccess)

\* A report without a commit was read after Destroy, or from the Repo that has
\* been replaced since: its ok will be false.
NamedInv ==
  \A c \in Callers : rendered[c] # NoCommit /\ ~another[c] =>
    /\ handler[c] = "isInitialized"
         => report[c].commitSha \in Commits \/ stale[c] \/ destroy = "done"
    /\ handler[c] = "isUpdateSuccess" => report[c].commitSha \in Commits
    /\ handler[c] = "answered" /\ report[c].ok => report[c].commitSha \in Commits

AnswersInv == /\ AnswersTypeOK /\ IInv /\ MemoryInv /\ StatusAgrees /\ HandlerInv
              /\ ShaInv /\ UndisturbedInv /\ NamedInv

-----------------------------------------------------------------------------
(***************************************************************************)
(* Assignments                                                             *)
(***************************************************************************)
\* An assignment is a sequence of one field, or of none if it shows nowhere.
LEMMA AssignmentRange ==
  \A old, new : \A f \in Fields :
    /\ Assignment(old, new, f) \in Seq(Fields)
    /\ old[f] # new[f] => f \in Range(Assignment(old, new, f))
    /\ old = new => Assignment(old, new, f) = <<>>
<1> SUFFICES ASSUME NEW old, NEW new, NEW f \in Fields
             PROVE  /\ Assignment(old, new, f) \in Seq(Fields)
                    /\ old[f] # new[f] => f \in Range(Assignment(old, new, f))
                    /\ old = new => Assignment(old, new, f) = <<>>
  OBVIOUS
<1>1. <<f>> \in Seq(Fields) /\ DOMAIN <<f>> = 1..1 /\ <<f>>[1] = f
  OBVIOUS
<1>2. f \in Range(<<f>>)
  BY <1>1 DEF Range
<1>3. <<>> \in Seq(Fields)
  OBVIOUS
<1> QED
  BY <1>1, <1>2, <1>3 DEF Assignment

\* A concatenation has the fields of both parts.
LEMMA ConcatRange ==
  \A s, t \in Seq(Fields) : /\ s \o t \in Seq(Fields)
                            /\ Range(s) \subseteq Range(s \o t)
                            /\ Range(t) \subseteq Range(s \o t)
<1> SUFFICES ASSUME NEW s \in Seq(Fields), NEW t \in Seq(Fields)
             PROVE  /\ s \o t \in Seq(Fields)
                    /\ Range(s) \subseteq Range(s \o t)
                    /\ Range(t) \subseteq Range(s \o t)
  OBVIOUS
<1>1. /\ s \o t \in Seq(Fields) /\ Len(s \o t) = Len(s) + Len(t)
      /\ Len(s) \in Nat /\ Len(t) \in Nat
      /\ \A i \in 1..(Len(s) + Len(t)) :
           (s \o t)[i] = IF i <= Len(s) THEN s[i] ELSE t[i - Len(s)]
  BY ConcatProperties
<1>2. DOMAIN s = 1..Len(s) /\ DOMAIN t = 1..Len(t) /\ DOMAIN (s \o t) = 1..(Len(s) + Len(t))
  BY <1>1, LenProperties
<1>3. Range(s) \subseteq Range(s \o t)
  BY <1>1, <1>2 DEF Range
<1>4. ASSUME NEW j \in 1..Len(t) PROVE t[j] \in Range(s \o t)
  <2>1. Len(s) + j \in DOMAIN (s \o t) /\ (s \o t)[Len(s) + j] = t[j]
    BY <1>1, <1>2
  <2> QED
    BY <2>1 DEF Range
<1>5. Range(t) \subseteq Range(s \o t)
  BY <1>2, <1>4 DEF Range
<1> QED
  BY <1>1, <1>3, <1>5

\* Every field whose value changes is among the assignments.
LEMMA AssignmentsCover ==
  \A old, new :
    /\ Assignments(old, new) \in Seq(Fields)
    /\ \A f \in Fields : old[f] # new[f] => f \in Range(Assignments(old, new))
    /\ old = new => Assignments(old, new) = <<>>
<1> SUFFICES ASSUME NEW old, NEW new
             PROVE  /\ Assignments(old, new) \in Seq(Fields)
                    /\ \A f \in Fields : old[f] # new[f] => f \in Range(Assignments(old, new))
                    /\ old = new => Assignments(old, new) = <<>>
  OBVIOUS
<1> DEFINE I == Assignment(old, new, "IsInitialized")
           M == Assignment(old, new, "Message")
           U == Assignment(old, new, "IsUpdateSuccess")
           S == Assignment(old, new, "CommitSha")
           B == IF old.IsInitialized THEN U \o M ELSE M \o U
<1>0. Assignments(old, new) = I \o B \o S
  BY DEF Assignments
<1>1. /\ I \in Seq(Fields) /\ M \in Seq(Fields) /\ U \in Seq(Fields) /\ S \in Seq(Fields)
      /\ old = new => I = <<>> /\ M = <<>> /\ U = <<>> /\ S = <<>>
  BY AssignmentRange DEF Fields
<1>2. \A f \in Fields :
        \/ Assignment(old, new, f) = I \/ Assignment(old, new, f) = M
        \/ Assignment(old, new, f) = U \/ Assignment(old, new, f) = S
  BY DEF Fields
<1> HIDE DEF I, M, U, S
<1>3. B \in Seq(Fields) /\ Range(M) \subseteq Range(B) /\ Range(U) \subseteq Range(B)
  BY <1>1, ConcatRange
<1>4. <<>> \in Seq(Fields) /\ <<>> \o <<>> = <<>>
  BY EmptySeq, ConcatEmptySeq
<1>5. old = new => B = <<>>
  BY <1>1, <1>4
<1> HIDE DEF B
<1>6. I \o B \in Seq(Fields) /\ Range(I) \subseteq Range(I \o B) /\ Range(B) \subseteq Range(I \o B)
  BY <1>1, <1>3, ConcatRange
<1> DEFINE All == (I \o B) \o S
<1>7. /\ All \in Seq(Fields)
      /\ Range(I \o B) \subseteq Range(All) /\ Range(S) \subseteq Range(All)
  BY <1>1, <1>6, ConcatRange
<1>8. old = new => All = <<>>
  <2> SUFFICES ASSUME old = new PROVE All = <<>>
    OBVIOUS
  <2>1. I \o B = <<>>
    BY <1>1, <1>4, <1>5
  <2> QED
    BY <1>1, <1>4, <2>1
<1>9. Assignments(old, new) = All
  BY <1>0
<1> HIDE DEF All
<1>10. ASSUME NEW f \in Fields, old[f] # new[f] PROVE f \in Range(All)
  <2>1. f \in Range(Assignment(old, new, f))
    BY <1>10, AssignmentRange
  <2> QED
    BY <2>1, <1>2, <1>3, <1>6, <1>7
<1> QED
  BY <1>7, <1>8, <1>9, <1>10

\* Nothing is pending in no assignments; the first one is pending or assigned.
LEMMA PendingRange ==
  /\ Range(<<>>) = {}
  /\ \A s \in Seq(Fields) : s # <<>> =>
       /\ Head(s) \in Fields /\ Tail(s) \in Seq(Fields)
       /\ Range(s) \subseteq {Head(s)} \cup Range(Tail(s))
<1>1. Range(<<>>) = {}
  BY DEF Range
<1> SUFFICES ASSUME NEW s \in Seq(Fields), s # <<>>
             PROVE  /\ Head(s) \in Fields /\ Tail(s) \in Seq(Fields)
                    /\ Range(s) \subseteq {Head(s)} \cup Range(Tail(s))
  BY <1>1
<1>2. /\ Head(s) \in Fields /\ Tail(s) \in Seq(Fields) /\ Len(Tail(s)) = Len(s) - 1
      /\ \A i \in 1..Len(Tail(s)) : Tail(s)[i] = s[i + 1]
  BY HeadTailProperties
<1>3. Head(s) = s[1] /\ Len(s) \in Nat /\ DOMAIN s = 1..Len(s) /\ DOMAIN Tail(s) = 1..(Len(s) - 1)
  BY <1>2, LenProperties
<1>4. ASSUME NEW i \in 1..Len(s), i # 1 PROVE s[i] \in Range(Tail(s))
  <2>1. i - 1 \in DOMAIN Tail(s) /\ Tail(s)[i - 1] = s[i]
    BY <1>2, <1>3, <1>4
  <2> QED
    BY <2>1 DEF Range
<1> QED
  BY <1>2, <1>3, <1>4 DEF Range

-----------------------------------------------------------------------------
(***************************************************************************)
(* The Repo in Answers                                                     *)
(***************************************************************************)
\* The steps of the Repo that no handler takes.
Background == Worker \/ CallDestroy \/ Destroy \/ RemoteMoves

\* The steps of a handler from its second lookup on.
ReportPart(c) == \/ Lookup(c) \/ ReadMessage(c) \/ ReadCommitSha(c)
                 \/ ReadIsInitialized(c) \/ ReadIsUpdateSuccess(c)

\* Every step is one of Repo, leaves the Repo alone, or replaces it.
LEMMA RepoSteps == [AnswersNext]_allVars => [Next]_vars \/ Recreate
<1> SUFFICES ASSUME [AnswersNext]_allVars, ~Recreate PROVE [Next]_vars
  OBVIOUS
<1>1. CASE RepoWorker \/ RepoDestroy \/ Environment
  BY <1>1 DEF RepoWorker, RepoDestroy, Environment, Next
<1>2. CASE Assign \/ Unlist \/ UNCHANGED allVars
  BY <1>2 DEF Assign, Unlist
<1>3. ASSUME NEW c \in Callers, Call(c) PROVE [Next]_vars
  BY <1>3 DEF Call, Next
<1>4. ASSUME NEW c \in Callers, GetRefusal(c) \/ Begin(c) \/ End(c) PROVE [Next]_vars
  BY <1>4 DEF GetRefusal, Begin, End, Evaluate, Next
<1>5. ASSUME NEW c \in Callers, GetStaleRefusal(c) \/ ReportPart(c) PROVE [Next]_vars
  BY <1>5 DEF GetStaleRefusal, ReportPart, Lookup, LookupFinds, LookupFails, ReadMessage,
    ReadCommitSha, ReadIsInitialized, ReadIsUpdateSuccess
<1> QED
  BY <1>1, <1>2, <1>3, <1>4, <1>5 DEF AnswersNext, Handler, ReportPart

\* A Repo whose Destroy has returned has nobody in it: a new one may take over its
\* directory, whatever the removal has left there.
LEMMA RecreateKeepsIInv ==
  ASSUME IInv, Recreate
  PROVE  IInv' /\ ~status.IsInitialized /\ UNCHANGED <<status, memory>>
<1>1. /\ destroy = "done" /\ worker' = "select" /\ destroy' = "idle"
      /\ exec' = [c \in Callers |-> "idle"]
      /\ UNCHANGED <<external, git, status, mutex, files, faults, memory>>
  BY DEF Recreate
<1>2. mutex = Free
  <2>1. mutex \in {Free, "worker", "destroy"} /\ worker = "stopped"
    BY <1>1 DEF IInv, TypeOK, StopInv
  <2> QED
    BY <1>1, <2>1 DEF IInv, LockInv, WorkerInside, DestroyInside
<1>3. ~status.IsInitialized
  BY <1>1 DEF IInv, StatusInv
<1>4. TypeOK'
  BY <1>1 DEF IInv, TypeOK
<1>5. LockInv' /\ StopInv'
  BY <1>1, <1>2 DEF LockInv, StopInv, WorkerInside, DestroyInside, NoReaders, Inside, Free
<1>6. StatusInv'
  BY <1>1, <1>3 DEF StatusInv
<1>7. FilesInv' /\ AtomicRender'
  BY <1>1 DEF IInv, FilesInv, AtomicRender
<1> QED
  BY <1>1, <1>3, <1>4, <1>5, <1>6, <1>7 DEF IInv

\* No pass and no Destroy begins or ends an Execute.
LEMMA BackgroundKeepsIdle ==
  ASSUME TypeOK, Background
  PROVE  \A c \in Callers : exec'[c] = "idle" <=> exec[c] = "idle"
<1>1. Calls' = Calls
  BY OthersKeepCalls DEF Background
<1>2. \A c \in Callers : Calls[c] = "idle" <=> exec[c] = "idle"
  BY DEF Calls
<1>3. \A c \in Callers : Calls'[c] = "idle" <=> exec'[c] = "idle"
  BY DEF Calls
<1> QED
  BY <1>1, <1>2, <1>3

\* After Destroy the Status is that of a new Repo, and stays so.
LEMMA BackgroundAndDestroy ==
  ASSUME IInv, Background
  PROVE  /\ destroy = "done" => destroy' = "done" /\ status' = status
         /\ destroy # "done" /\ destroy' = "done" => destroy = "remove" /\ status' = NewStatus
<1> USE DEF IInv, StopInv
<1>1. CASE Worker
  BY <1>1 DEF Worker, TakeStop, StartPass, CallLock, GotLock, Awake,
    InitPass, CloneFails, CloneExists, DetectFails, CheckoutFails, InitFailed, InitSucceeds,
    CheckPass, CheckCommit, CheckBranch, FetchTag, ListTags, CheckFails, NoUpdates,
    UpdatePass, PullBranch, CheckoutTag, UpdateFails, UpdateInterrupted, UpdateRefused,
    Updated, NotUpdated, PublishSha
<1>2. CASE CallDestroy \/ Destroy
  BY <1>2 DEF CallDestroy, Destroy, DestroyLock, DestroyGotLock, Remove
<1>3. CASE RemoteMoves
  BY <1>3 DEF RemoteMoves
<1> QED
  BY <1>1, <1>2, <1>3 DEF Background

\* What a step does to the Status: an initialised one has a flag and a message
\* that agree, and a commit once published is never taken back before Destroy.
LEMMA BackgroundAndStatus ==
  ASSUME IInv, StatusAgrees, Background
  PROVE  /\ StatusAgrees'
         /\ \/ status'.CommitSha = status.CommitSha
            \/ status'.CommitSha # NoCommit
            \/ destroy' = "done"
<1> DEFINE Goal == /\ StatusAgrees'
                   /\ \/ status'.CommitSha = status.CommitSha
                      \/ status'.CommitSha # NoCommit
                      \/ destroy' = "done"
<1>0. status \in Status
  BY DEF IInv, TypeOK
<1>1. CASE status' = status
  BY <1>1 DEF StatusAgrees, Good
<1>2. CASE CloneFails \/ CloneExists \/ DetectFails \/ CheckoutFails
  <2>1. PICK m : InitFailed(m)
    BY <1>2 DEF CloneFails, CloneExists, DetectFails, CheckoutFails
  <2>2. ~status.IsInitialized /\ status' = [status EXCEPT !.Message = m]
    BY <2>1 DEF InitFailed, IInv, StatusInv
  <2> QED
    BY <1>0, <2>2 DEF StatusAgrees, Status
<1>3. CASE InitSucceeds
  BY <1>0, <1>3 DEF InitSucceeds, StatusAgrees, Status, Good
<1>4. CASE CheckFails \/ UpdateFails \/ UpdateInterrupted \/ UpdateRefused
  BY <1>0, <1>4 DEF CheckFails, UpdateFails, UpdateInterrupted, UpdateRefused, NotUpdated,
    Report, StatusAgrees, Status, Good
<1>5. CASE NoUpdates \/ CheckoutTag
  BY <1>0, <1>5 DEF NoUpdates, CheckoutTag, Updated, Report, StatusAgrees, Status, Good
<1>6. CASE PullBranch
  <2>1. \/ Report(TRUE, "Update success") \/ Report(FALSE, "update failed")
    BY <1>6 DEF PullBranch, Updated, NotUpdated
  <2> QED
    BY <1>0, <2>1 DEF Report, StatusAgrees, Status, Good
<1>7. CASE PublishSha
  <2>1. clone # NoCommit
    BY <1>7 DEF PublishSha, IInv, StatusInv
  <2> QED
    BY <1>0, <1>7, <2>1 DEF PublishSha, StatusAgrees, Status, Good
<1>8. CASE Remove
  BY <1>8 DEF Remove, StatusAgrees, NewStatus
<1> QED
  BY <1>1, <1>2, <1>3, <1>4, <1>5, <1>6, <1>7, <1>8
     DEF Background, Worker, TakeStop, StartPass, CallLock, GotLock, Awake, InitPass,
         CheckPass, CheckCommit, CheckBranch, FetchTag, ListTags, UpdatePass,
         CallDestroy, Destroy, DestroyLock, DestroyGotLock, RemoteMoves

-----------------------------------------------------------------------------
(***************************************************************************)
(* Memory                                                                  *)
(***************************************************************************)
\* With nothing pending a reader sees the Status.
LEMMA SeesStatus ==
  ASSUME MemoryInv, pending = <<>>
  PROVE  ~half /\ \A f \in Fields : view[f] = status[f]
BY PendingRange DEF MemoryInv

\* Reading while nothing is half written returns what is there.
LEMMA ReadsView == \A c, f : ~half /\ ~stale[c] => Read(c, f) = {view[f]}
BY DEF Read

\* What the other goroutines write is pending or seen.
LEMMA PublishedKeepsMemory ==
  ASSUME IInv, MemoryInv, Published, Background
  PROVE  /\ MemoryInv' /\ ~half' /\ pending' \in Seq(Fields)
         /\ view' = view \/ (view' = status' /\ destroy' = "done")
         /\ changed' = [c \in Callers |-> changed[c] \/ (view' # view /\ rendered[c] # NoCommit)]
<1>1. pending = <<>> /\ ~half /\ half' = half /\ \A f \in Fields : view[f] = status[f]
  BY SeesStatus DEF Published
<1>2. CASE destroy = "remove" /\ destroy' = "done"
  <2>1. view' = status' /\ pending' = <<>>
    BY <1>2 DEF Published, ReplaceObject
  <2>2. <<>> \in Seq(Fields)
    OBVIOUS
  <2> QED
    BY <1>1, <1>2, <2>1, <2>2 DEF Published, MemoryInv
<1>3. CASE ~(destroy = "remove" /\ destroy' = "done")
  <2>1. pending' = Assignments(status, status') /\ view' = view
    BY <1>3 DEF Published
  <2>2. pending' \in Seq(Fields) /\ \A f \in Fields : status[f] # status'[f] => f \in Range(pending')
    BY <2>1, AssignmentsCover
  <2>3. destroy' = "done" => pending' = <<>>
    BY <1>3, <2>1, BackgroundAndDestroy, AssignmentsCover
  <2> QED
    BY <1>1, <2>1, <2>2, <2>3 DEF Published, MemoryInv
<1> QED
  BY <1>2, <1>3

\* An assignment makes one field, or half of it, visible.
LEMMA AssignKeepsMemory ==
  ASSUME MemoryInv, pending \in Seq(Fields), view \in Status, status \in Status, Assign
  PROVE  /\ MemoryInv' /\ pending' \in Seq(Fields) /\ view' \in Status
         /\ destroy # "done"
         /\ view'.CommitSha \in {view.CommitSha, status.CommitSha}
<1>1. /\ pending # <<>> /\ Head(pending) \in Fields /\ Tail(pending) \in Seq(Fields)
      /\ Range(pending) \subseteq {Head(pending)} \cup Range(Tail(pending))
  BY PendingRange DEF Assign
<1>2. UNCHANGED vars /\ destroy # "done"
  BY <1>1 DEF Assign, MemoryInv
<1>3. CASE Head(pending) \in Strings /\ ~half
  <2>1. half' = TRUE /\ UNCHANGED <<view, pending>>
    BY <1>3 DEF Assign
  <2> QED
    BY <1>1, <1>2, <2>1 DEF MemoryInv
<1>4. CASE ~(Head(pending) \in Strings /\ ~half)
  <2>1. /\ view' = [view EXCEPT ![Head(pending)] = status[Head(pending)]]
        /\ pending' = Tail(pending) /\ half' = FALSE
    BY <1>4 DEF Assign
  <2>2. DOMAIN view = Fields /\ DOMAIN status = Fields
    BY DEF Status, Fields
  <2>3. \A f \in Fields : view'[f] = IF f = Head(pending) THEN status[f] ELSE view[f]
    BY <1>1, <2>1, <2>2
  <2>4. view' \in Status
    <3>1. CASE Head(pending) = "IsInitialized"
      BY <2>1, <3>1 DEF Status
    <3>2. CASE Head(pending) = "Message"
      BY <2>1, <3>2 DEF Status
    <3>3. CASE Head(pending) = "IsUpdateSuccess"
      BY <2>1, <3>3 DEF Status
    <3>4. CASE Head(pending) = "CommitSha"
      BY <2>1, <3>4 DEF Status
    <3> QED
      BY <1>1, <3>1, <3>2, <3>3, <3>4 DEF Fields
  <2>5. view'.CommitSha \in {view.CommitSha, status.CommitSha}
    BY <2>3 DEF Fields
  <2>6. MemoryInv'
    BY <1>1, <1>2, <2>1, <2>3 DEF MemoryInv
  <2> QED
    BY <1>1, <1>2, <2>1, <2>4, <2>5, <2>6
<1> QED
  BY <1>3, <1>4

-----------------------------------------------------------------------------
(***************************************************************************)
(* Types                                                                   *)
(***************************************************************************)
\* A read returns a value of the field, or a mixture of two texts: of the commit
\* only if it was not there yet.
LEMMA ReadTypes ==
  ASSUME status \in Status, view \in Status
  PROVE  \A c : /\ Read(c, "Message") \subseteq Messages \cup {"none", "torn"}
                /\ Read(c, "CommitSha") \subseteq MaybeCommit \cup {"torn"}
                /\ Read(c, "IsUpdateSuccess") \subseteq BOOLEAN
                /\ ~stale[c] /\ view.CommitSha # NoCommit /\ status.CommitSha # NoCommit
                     => Read(c, "CommitSha") \subseteq Commits
BY DEF Read, Mixable, Status, NewStatus, Messages, MaybeCommit

LEMMA AnswersTypeStep ==
  AnswersTypeOK /\ IInv /\ IInv' /\ MemoryInv /\ [AnswersNext]_allVars => AnswersTypeOK'
<1> SUFFICES ASSUME AnswersTypeOK, IInv, IInv', MemoryInv, [AnswersNext]_allVars
             PROVE  AnswersTypeOK'
  OBVIOUS
<1>1. /\ TypeOK' /\ status \in Status /\ status' \in Status /\ clone \in MaybeCommit
  BY DEF IInv, TypeOK
<1>2. NoCommit \in MaybeCommit
  BY DEF MaybeCommit
<1> USE DEF AnswersTypeOK
<1>3. pending \in Seq(Fields)
  BY DEF Fields
<1>4. CASE RepoWorker \/ RepoDestroy \/ Environment
  <2>1. Published /\ Background /\ UNCHANGED <<listed, held, answer>>
    BY <1>4 DEF RepoWorker, RepoDestroy, Environment, Background
  <2>2. /\ ~half' /\ half' = half /\ pending' \in Seq(Fields) /\ view' \in Status
        /\ changed' = [c \in Callers |-> changed[c] \/ (view' # view /\ rendered[c] # NoCommit)]
    BY <1>1, <2>1, PublishedKeepsMemory, SeesStatus DEF Published
  <2>3. changed' \in [Callers -> BOOLEAN]
    BY <2>2
  <2>4. UNCHANGED <<handler, rendered, report, stale, another, listed>>
    BY <2>1
  <2> QED
    BY <1>1, <2>2, <2>3, <2>4 DEF Fields
<1>5. CASE Assign
  <2>1. pending' \in Seq(Fields) /\ view' \in Status
    BY <1>1, <1>3, <1>5, AssignKeepsMemory
  <2> QED
    BY <1>1, <1>5, <2>1 DEF Assign, Fields
<1>6. CASE Unlist \/ Recreate \/ UNCHANGED allVars
  BY <1>1, <1>6 DEF Unlist, Recreate
<1>7. ASSUME NEW c \in Callers,
             Call(c) \/ GetRefusal(c) \/ GetStaleRefusal(c) \/ Begin(c) \/ End(c)
      PROVE  AnswersTypeOK'
  <2>1. NewReport \in Reports
    BY <1>2 DEF NewReport, Reports
  <2>2. report' \in [Callers -> Reports]
    BY <1>7, <2>1 DEF Call, GetRefusal, GetStaleRefusal, Begin, End
  <2>3. rendered' \in [Callers -> MaybeCommit \cup {"parted"}]
    BY <1>1, <1>2, <1>7 DEF Call, GetRefusal, GetStaleRefusal, Begin, End
  <2>4. /\ stale' \in [Callers -> BOOLEAN] /\ another' \in [Callers -> BOOLEAN]
        /\ changed' \in [Callers -> BOOLEAN]
    BY <1>7 DEF Call, GetRefusal, GetStaleRefusal, Begin, End
  <2> QED
    BY <1>1, <1>7, <2>2, <2>3, <2>4 DEF Call, GetRefusal, GetStaleRefusal, Begin, End
<1>8. ASSUME NEW c \in Callers, Lookup(c) PROVE AnswersTypeOK'
  BY <1>1, <1>8 DEF Lookup, LookupFinds, LookupFails
<1>9. ASSUME NEW c \in Callers, ReadMessage(c) PROVE AnswersTypeOK'
  <2>1. PICK text \in Read(c, "Message") : report' = [report EXCEPT ![c].message = text]
    BY <1>9 DEF ReadMessage
  <2>2. text \in Messages \cup {"none", "torn"}
    BY <1>1, <2>1, ReadTypes
  <2>3. report' \in [Callers -> Reports]
    BY <2>1, <2>2 DEF Reports
  <2> QED
    BY <1>1, <1>9, <2>3 DEF ReadMessage
<1>10. ASSUME NEW c \in Callers, ReadCommitSha(c) PROVE AnswersTypeOK'
  <2>1. PICK sha \in Read(c, "CommitSha") : report' = [report EXCEPT ![c].commitSha = sha]
    BY <1>10 DEF ReadCommitSha
  <2>2. sha \in MaybeCommit \cup {"torn"}
    BY <1>1, <2>1, ReadTypes
  <2>3. report' \in [Callers -> Reports]
    BY <2>1, <2>2 DEF Reports
  <2> QED
    BY <1>1, <1>10, <2>3 DEF ReadCommitSha
<1>11. ASSUME NEW c \in Callers, ReadIsInitialized(c) PROVE AnswersTypeOK'
  <2>1. report' = report \/ report' = [report EXCEPT ![c].ok = FALSE]
    BY <1>11 DEF ReadIsInitialized
  <2>2. [report[c] EXCEPT !.ok = FALSE] \in Reports
    BY DEF Reports
  <2>3. report' \in [Callers -> Reports]
    BY <2>1, <2>2
  <2> QED
    BY <1>1, <1>11, <2>3 DEF ReadIsInitialized
<1>12. ASSUME NEW c \in Callers, ReadIsUpdateSuccess(c) PROVE AnswersTypeOK'
  <2>1. PICK ok \in Read(c, "IsUpdateSuccess") : report' = [report EXCEPT ![c].ok = ok]
    BY <1>12 DEF ReadIsUpdateSuccess
  <2>2. ok \in BOOLEAN
    BY <1>1, <2>1, ReadTypes
  <2>3. report' \in [Callers -> Reports]
    BY <2>1, <2>2 DEF Reports
  <2> QED
    BY <1>1, <1>12, <2>3 DEF ReadIsUpdateSuccess
<1> QED
  BY <1>4, <1>5, <1>6, <1>7, <1>8, <1>9, <1>10, <1>11, <1>12 DEF AnswersNext, Handler

-----------------------------------------------------------------------------
(***************************************************************************)
(* The inductive step                                                      *)
(***************************************************************************)
\* What AnswersInv says beyond types, the Repo and the memory.
HandlersInv == HandlerInv /\ ShaInv /\ UndisturbedInv /\ NamedInv

LEMMA InitAnswersInv == AnswersInit => AnswersInv
<1> SUFFICES ASSUME AnswersInit PROVE AnswersInv
  OBVIOUS
<1>1. IInv
  BY InitIInv DEF AnswersInit
<1>2. pending = <<>> /\ pending \in Seq(Fields)
  BY DEF AnswersInit
<1>3. NewReport \in Reports /\ NoCommit \in MaybeCommit
  BY DEF NewReport, Reports, MaybeCommit
<1>4. AnswersTypeOK
  BY <1>1, <1>2, <1>3 DEF AnswersInit, AnswersTypeOK, IInv, TypeOK, Fields
<1>5. MemoryInv /\ StatusAgrees
  BY <1>2 DEF AnswersInit, Init, NewStatus, MemoryInv, StatusAgrees
<1>6. HandlersInv
  BY DEF AnswersInit, Init, HandlersInv, HandlerInv, ShaInv, UndisturbedInv, NamedInv
<1> QED
  BY <1>1, <1>4, <1>5, <1>6 DEF AnswersInv, HandlersInv

\* A pass and Destroy: what they make visible is a change for every handler.
LEMMA BackgroundStep ==
  ASSUME AnswersInv, Background, Published, UNCHANGED <<listed, held, answer>>
  PROVE  MemoryInv' /\ StatusAgrees' /\ HandlersInv'
<1> USE DEF AnswersInv
<1>1. /\ MemoryInv' /\ ~half'
      /\ view' = view \/ (view' = status' /\ destroy' = "done")
      /\ changed' = [c \in Callers |-> changed[c] \/ (view' # view /\ rendered[c] # NoCommit)]
  BY PublishedKeepsMemory
<1>2. UNCHANGED <<listed, handler, rendered, report>>
  OBVIOUS
<1>3. destroy = "done" => destroy' = "done"
  BY BackgroundAndDestroy
<1>4. HandlerInv'
  BY <1>2, BackgroundKeepsIdle DEF IInv, HandlerInv
<1>5. ShaInv'
  BY <1>1, <1>2, <1>3, BackgroundAndStatus DEF ShaInv
<1>6. \A c \in Callers : ~changed'[c] /\ rendered[c] # NoCommit => ~changed[c] /\ view' = view
  BY <1>1
<1>7. UndisturbedInv'
  BY <1>1, <1>2, <1>6 DEF UndisturbedInv, HasMessage, HasSha, Answered
<1>8. NamedInv'
  BY <1>2, <1>3 DEF NamedInv
<1> QED
  BY <1>1, <1>4, <1>5, <1>7, <1>8, BackgroundAndStatus DEF HandlersInv

\* An assignment becomes visible: every handler is disturbed.
LEMMA AssignStep ==
  ASSUME AnswersInv, Assign
  PROVE  MemoryInv' /\ StatusAgrees' /\ HandlersInv'
<1> USE DEF AnswersInv
<1>1. MemoryInv' /\ destroy # "done" /\ view'.CommitSha \in {view.CommitSha, status.CommitSha}
  BY AssignKeepsMemory DEF AnswersTypeOK, IInv, TypeOK, Fields
<1>2. UNCHANGED <<vars, listed, stale, another, handler, rendered, report>>
  BY DEF Assign
<1>3. \A c \in Callers : rendered[c] # NoCommit => changed'[c]
  BY DEF Assign
<1>4. StatusAgrees' /\ HandlerInv' /\ NamedInv'
  BY <1>2 DEF StatusAgrees, HandlerInv, NamedInv
<1>5. ShaInv' /\ UndisturbedInv'
  BY <1>1, <1>2, <1>3 DEF ShaInv, UndisturbedInv
<1> QED
  BY <1>1, <1>4, <1>5 DEF HandlersInv

\* The beginning of an evaluation: the memory agrees with the Repo, which is
\* initialised and outside of a pass, so that its commit is the clone's.
LEMMA BeginStep ==
  ASSUME AnswersInv, NEW c \in Callers, Begin(c)
  PROVE  HandlersInv'
<1> USE DEF AnswersInv
<1> DEFINE from == IF tree = {clone} THEN clone ELSE "parted"
<1>1. /\ pending = <<>> /\ exec[c] = "locked" /\ status.IsInitialized
      /\ exec' = [exec EXCEPT ![c] = "rendering"]
      /\ UNCHANGED <<status, destroy, view, half, listed, stale, another, handler, report>>
      /\ rendered' = [rendered EXCEPT ![c] = from]
      /\ changed' = [changed EXCEPT ![c] = FALSE]
  BY DEF Begin, BeginRender
<1>2. ~half /\ \A f \in Fields : view[f] = status[f]
  BY <1>1, SeesStatus
<1>3. /\ ~WorkerInside /\ destroy # "done" /\ status.CommitSha # NoCommit
      /\ status.IsUpdateSuccess => status.CommitSha = clone
  BY <1>1 DEF IInv, LockInv, NoReaders, Inside, StatusInv, WorkerInside
<1>4. /\ view.IsInitialized /\ view.CommitSha # NoCommit
      /\ view.IsUpdateSuccess <=> view.Message \in Good
      /\ view.IsUpdateSuccess /\ from # "parted" => view.CommitSha = from
  BY <1>1, <1>2, <1>3 DEF Fields, StatusAgrees
<1>5. handler[c] = "executing" /\ ~stale[c] /\ ~another[c]
  BY <1>1 DEF HandlerInv
<1> HIDE DEF from
<1>6. /\ rendered'[c] = from /\ ~changed'[c] /\ exec'[c] = "rendering"
      /\ \A d \in Callers \ {c} : /\ rendered'[d] = rendered[d] /\ changed'[d] = changed[d]
                                 /\ exec'[d] = exec[d]
  BY <1>1 DEF AnswersTypeOK, IInv, TypeOK
<1>7. HandlerInv'
  BY <1>1, <1>5, <1>6 DEF HandlerInv
<1>8. ShaInv'
  BY <1>1, <1>3, <1>4, <1>6 DEF ShaInv
<1>9. UndisturbedInv'
  BY <1>1, <1>2, <1>4, <1>5, <1>6 DEF UndisturbedInv, HasMessage, HasSha, Answered
<1>10. NamedInv'
  BY <1>1, <1>5, <1>6 DEF NamedInv
<1> QED
  BY <1>7, <1>8, <1>9, <1>10 DEF HandlersInv

\* The Repo is replaced: what the handlers know of it is stale, and whatever was
\* evaluated has seen it change, if only into the Status that Destroy leaves.
LEMMA RecreateStep ==
  ASSUME AnswersInv, Recreate
  PROVE  HandlersInv'
<1> USE DEF AnswersInv
<1>1. /\ destroy = "done" /\ exec' = [c \in Callers |-> "idle"]
      /\ stale' = [c \in Callers |-> TRUE]
      /\ UNCHANGED <<memory, status, another, handler, rendered, report, changed>>
  BY DEF Recreate
<1>2. ~view.IsInitialized
  <2>1. pending = <<>> /\ ~status.IsInitialized
    BY <1>1, RecreateKeepsIInv DEF MemoryInv
  <2> QED
    BY <2>1, SeesStatus DEF Fields
<1>3. HandlerInv' /\ ShaInv'
  BY <1>1 DEF HandlerInv, ShaInv
<1>4. UndisturbedInv'
  BY <1>1, <1>2 DEF UndisturbedInv
<1>5. NamedInv'
  BY <1>1 DEF NamedInv
<1> QED
  BY <1>3, <1>4, <1>5 DEF HandlersInv

\* A handler calls Execute, is refused or has its evaluation: it has not read
\* anything of the report yet.
LEMMA CallStep ==
  ASSUME AnswersInv, NEW c \in Callers,
         Call(c) \/ GetRefusal(c) \/ GetStaleRefusal(c) \/ End(c)
  PROVE  HandlersInv'
<1> USE DEF AnswersInv
<1>1. UNCHANGED <<status, destroy, view, half, listed>>
  BY DEF Call, Execute, GetRefusal, Refuse, GetStaleRefusal, End, EndRender
<1>2. \A d \in Callers \ {c} :
        /\ handler'[d] = handler[d] /\ rendered'[d] = rendered[d]
        /\ report'[d] = report[d] /\ changed'[d] = changed[d]
        /\ stale'[d] = stale[d] /\ another'[d] = another[d]
        /\ exec'[d] = exec[d]
  BY DEF Call, Execute, GetRefusal, Refuse, GetStaleRefusal, End, EndRender,
         AnswersTypeOK, IInv, TypeOK
<1>3. /\ handler'[c] \in {"executing", "lookup"}
      /\ \/ rendered'[c] = NoCommit
         \/ /\ rendered'[c] = rendered[c] /\ report'[c] = report[c]
            /\ changed'[c] = changed[c] /\ stale'[c] = stale[c] /\ another'[c] = another[c]
  BY DEF Call, GetRefusal, GetStaleRefusal, End, AnswersTypeOK
<1>4. HandlerInv'
  <2>1. /\ handler'[c] = "executing" /\ ~stale'[c] <=> exec'[c] # "idle"
        /\ ~another'[c]
    <3>1. CASE Call(c) /\ listed
      BY <3>1 DEF Call, Execute, AnswersTypeOK, IInv, TypeOK
    <3>2. CASE Call(c) /\ ~listed
      BY <3>2 DEF Call, HandlerInv, AnswersTypeOK
    <3>3. CASE GetRefusal(c) \/ End(c)
      BY <3>3 DEF GetRefusal, Refuse, End, EndRender, HandlerInv, AnswersTypeOK, IInv, TypeOK
    <3>4. CASE GetStaleRefusal(c)
      BY <3>4 DEF GetStaleRefusal, HandlerInv, AnswersTypeOK
    <3> QED
      BY <3>1, <3>2, <3>3, <3>4
  <2> QED
    BY <1>2, <2>1 DEF HandlerInv
<1>5. ShaInv'
  BY <1>1, <1>2, <1>3 DEF ShaInv
<1>6. UndisturbedInv'
  BY <1>1, <1>2, <1>3 DEF UndisturbedInv, HasMessage, HasSha, Answered
<1>7. NamedInv'
  BY <1>1, <1>2, <1>3 DEF NamedInv
<1> QED
  BY <1>4, <1>5, <1>6, <1>7 DEF HandlersInv

\* The handler asks for the Repo and reads its Status: an undisturbed one copies
\* what the evaluation saw, and no commit is read only after Destroy.
LEMMA ReportStep ==
  ASSUME AnswersInv, NEW c \in Callers, ReportPart(c)
  PROVE  HandlersInv'
<1> USE DEF AnswersInv
<1>1. UNCHANGED <<vars, memory, listed, rendered, changed>>
  BY DEF ReportPart, Lookup, LookupFinds, LookupFails, ReadMessage, ReadCommitSha,
         ReadIsInitialized, ReadIsUpdateSuccess
<1>2. \A d \in Callers \ {c} : /\ handler'[d] = handler[d] /\ report'[d] = report[d]
                               /\ stale'[d] = stale[d] /\ another'[d] = another[d]
  BY DEF ReportPart, Lookup, LookupFinds, LookupFails, ReadMessage, ReadCommitSha,
         ReadIsInitialized, ReadIsUpdateSuccess, AnswersTypeOK
<1>3. /\ handler[c] # "executing" /\ handler'[c] \notin {"executing", "lookup"}
      /\ ~stale'[c] /\ ~another'[c] => ~stale[c] /\ ~another[c]
  BY DEF ReportPart, Lookup, LookupFinds, LookupFails, ReadMessage, ReadCommitSha,
         ReadIsInitialized, ReadIsUpdateSuccess, AnswersTypeOK
<1>4. HandlerInv' /\ ShaInv'
  BY <1>1, <1>2, <1>3 DEF HandlerInv, ShaInv
<1> DEFINE Undisturbed(d) ==
      rendered[d] # NoCommit /\ ~changed[d] =>
        /\ ~half /\ ~stale[d] /\ ~another[d]
        /\ view.IsInitialized
        /\ view.IsUpdateSuccess <=> view.Message \in Good
        /\ view.IsUpdateSuccess /\ rendered[d] # "parted" => view.CommitSha = rendered[d]
        /\ HasMessage(d) => report[d].message = view.Message
        /\ HasSha(d) => report[d].commitSha = view.CommitSha
        /\ Answered(d) => (report[d].ok <=> view.IsUpdateSuccess)
    Named(d) ==
      rendered[d] # NoCommit /\ ~another[d] =>
        /\ handler[d] = "isInitialized"
             => report[d].commitSha \in Commits \/ stale[d] \/ destroy = "done"
        /\ handler[d] = "isUpdateSuccess" => report[d].commitSha \in Commits
        /\ handler[d] = "answered" /\ report[d].ok => report[d].commitSha \in Commits
<1>5. Undisturbed(c) /\ Named(c)
  BY DEF UndisturbedInv, NamedInv
<1>6. report[c] \in Reports /\ status \in Status /\ view \in Status
  BY DEF AnswersTypeOK, IInv, TypeOK
<1>7. ASSUME Lookup(c) PROVE Undisturbed(c)' /\ Named(c)'
  <2>1. /\ handler'[c] \in {"message", "kept"} /\ report' = report
        /\ ~stale[c] /\ ~another[c] => ~stale'[c] /\ ~another'[c]
    BY <1>7 DEF Lookup, LookupFinds, LookupFails, AnswersTypeOK
  <2> QED
    BY <1>1, <1>5, <2>1 DEF HasMessage, HasSha, Answered
<1>8. ASSUME ReadMessage(c) PROVE Undisturbed(c)' /\ Named(c)'
  <2>1. PICK text \in Read(c, "Message") : report' = [report EXCEPT ![c].message = text]
    BY <1>8 DEF ReadMessage
  <2>2. /\ handler'[c] = "commitSha" /\ UNCHANGED <<stale, another>>
        /\ report'[c].message = text
    BY <1>6, <1>8, <2>1 DEF ReadMessage, AnswersTypeOK, Reports
  <2>3. ~half /\ ~stale[c] => text = view.Message
    BY <2>1, ReadsView
  <2> QED
    BY <1>1, <1>5, <2>2, <2>3 DEF HasMessage, HasSha, Answered
<1>9. ASSUME ReadCommitSha(c) PROVE Undisturbed(c)' /\ Named(c)'
  <2>1. PICK sha \in Read(c, "CommitSha") : report' = [report EXCEPT ![c].commitSha = sha]
    BY <1>9 DEF ReadCommitSha
  <2>2. /\ handler[c] = "commitSha" /\ handler'[c] = "isInitialized"
        /\ UNCHANGED <<stale, another>>
        /\ report'[c].commitSha = sha /\ report'[c].message = report[c].message
    BY <1>6, <1>9, <2>1 DEF ReadCommitSha, AnswersTypeOK, Reports
  <2>3. ~half /\ ~stale[c] => sha = view.CommitSha
    BY <2>1, ReadsView
  <2>4. rendered[c] # NoCommit /\ ~another[c] => sha \in Commits \/ stale[c] \/ destroy = "done"
    BY <1>6, <2>1, ReadTypes DEF ShaInv
  <2>5. Undisturbed(c)'
    BY <1>1, <1>5, <2>2, <2>3 DEF HasMessage, HasSha, Answered
  <2>6. Named(c)'
    BY <1>1, <2>2, <2>4
  <2> QED
    BY <2>5, <2>6
<1>10. ASSUME ReadIsInitialized(c) PROVE Undisturbed(c)' /\ Named(c)'
  <2>1. handler[c] = "isInitialized" /\ UNCHANGED <<stale, another>>
    BY <1>10 DEF ReadIsInitialized
  <2>2. CASE handler'[c] = "isUpdateSuccess" /\ report' = report /\ TRUE \in Read(c, "IsInitialized")
    <3>1. ~stale[c]
      BY <2>2 DEF Read, NewStatus
    <3>2. view.IsInitialized \/ status.IsInitialized
      BY <2>2, <3>1 DEF Read, Mixable
    <3>3. destroy # "done"
      BY <3>2, SeesStatus DEF MemoryInv, Fields, IInv, StatusInv
    <3> QED
      BY <1>1, <1>5, <2>1, <2>2, <3>1, <3>3 DEF HasMessage, HasSha, Answered
  <2>3. CASE /\ handler'[c] = "answered" /\ FALSE \in Read(c, "IsInitialized")
             /\ report' = [report EXCEPT ![c].ok = FALSE]
    <3>1. /\ ~report'[c].ok /\ report'[c].message = report[c].message
          /\ report'[c].commitSha = report[c].commitSha
      BY <1>6, <2>3 DEF AnswersTypeOK, Reports
    <3>2. ~half /\ ~stale[c] => ~view.IsInitialized
      BY <2>3, ReadsView
    <3> QED
      BY <1>1, <1>5, <2>1, <2>3, <3>1, <3>2 DEF HasMessage, HasSha, Answered
  <2> QED
    BY <1>10, <2>2, <2>3 DEF ReadIsInitialized, AnswersTypeOK
<1>11. ASSUME ReadIsUpdateSuccess(c) PROVE Undisturbed(c)' /\ Named(c)'
  <2>1. PICK ok \in Read(c, "IsUpdateSuccess") : report' = [report EXCEPT ![c].ok = ok]
    BY <1>11 DEF ReadIsUpdateSuccess
  <2>2. /\ handler[c] = "isUpdateSuccess" /\ handler'[c] = "answered"
        /\ UNCHANGED <<stale, another>>
        /\ report'[c].ok = ok /\ report'[c].message = report[c].message
        /\ report'[c].commitSha = report[c].commitSha
    BY <1>6, <1>11, <2>1 DEF ReadIsUpdateSuccess, AnswersTypeOK, Reports
  <2>3. ~half /\ ~stale[c] => ok = view.IsUpdateSuccess
    BY <2>1, ReadsView
  <2> QED
    BY <1>1, <1>5, <2>2, <2>3 DEF HasMessage, HasSha, Answered
<1>12. Undisturbed(c)' /\ Named(c)'
  BY <1>7, <1>8, <1>9, <1>10, <1>11 DEF ReportPart
<1>13. ASSUME NEW d \in Callers, d # c PROVE Undisturbed(d)' /\ Named(d)'
  <2>1. Undisturbed(d) /\ Named(d)
    BY DEF UndisturbedInv, NamedInv
  <2>2. /\ handler'[d] = handler[d] /\ report'[d] = report[d]
        /\ stale'[d] = stale[d] /\ another'[d] = another[d]
    BY <1>2, <1>13
  <2> QED
    BY <1>1, <2>1, <2>2 DEF HasMessage, HasSha, Answered
<1>14. UndisturbedInv' /\ NamedInv'
  BY <1>12, <1>13 DEF UndisturbedInv, NamedInv
<1> QED
  BY <1>4, <1>14 DEF HandlersInv

LEMMA AnswersStep == AnswersInv /\ [AnswersNext]_allVars => AnswersInv'
<1> SUFFICES ASSUME AnswersInv, [AnswersNext]_allVars PROVE AnswersInv'
  OBVIOUS
<1>1. IInv'
  BY RepoSteps, RecreateKeepsIInv, Step DEF AnswersInv
<1>2. AnswersTypeOK'
  BY <1>1, AnswersTypeStep DEF AnswersInv
<1> SUFFICES MemoryInv' /\ StatusAgrees' /\ HandlersInv'
  BY <1>1, <1>2 DEF AnswersInv, HandlersInv
<1>3. CASE RepoWorker \/ RepoDestroy \/ Environment
  BY <1>3, BackgroundStep DEF RepoWorker, RepoDestroy, Environment, Background
<1>4. CASE Assign
  BY <1>4, AssignStep
<1>5. ASSUME UNCHANGED <<status, memory>>, destroy' = destroy \/ destroy' # "done"
      PROVE  MemoryInv' /\ StatusAgrees'
  BY <1>5 DEF AnswersInv, MemoryInv, StatusAgrees
<1>6. CASE Unlist \/ UNCHANGED allVars
  <2>1. UNCHANGED <<vars, memory, held, answer, changed>>
    BY <1>6 DEF Unlist
  <2>2. HandlersInv'
    BY <2>1 DEF AnswersInv, HandlersInv, HandlerInv, ShaInv, UndisturbedInv, NamedInv,
       HasMessage, HasSha, Answered
  <2> QED
    BY <1>5, <2>1, <2>2
<1>7. CASE Recreate
  BY <1>5, <1>7, RecreateStep DEF Recreate
<1>8. ASSUME NEW c \in Callers,
             Call(c) \/ GetRefusal(c) \/ GetStaleRefusal(c) \/ End(c)
      PROVE  MemoryInv' /\ StatusAgrees' /\ HandlersInv'
  BY <1>5, <1>8, CallStep
     DEF Call, Execute, GetRefusal, Refuse, GetStaleRefusal, End, EndRender
<1>9. ASSUME NEW c \in Callers, Begin(c)
      PROVE  MemoryInv' /\ StatusAgrees' /\ HandlersInv'
  BY <1>5, <1>9, BeginStep DEF Begin, BeginRender
<1>10. ASSUME NEW c \in Callers, ReportPart(c)
       PROVE  MemoryInv' /\ StatusAgrees' /\ HandlersInv'
  BY <1>5, <1>10, ReportStep
     DEF ReportPart, Lookup, LookupFinds, LookupFails, ReadMessage, ReadCommitSha,
         ReadIsInitialized, ReadIsUpdateSuccess
<1> QED
  BY <1>3, <1>4, <1>6, <1>7, <1>8, <1>9, <1>10 DEF AnswersNext, Handler, ReportPart

\* The invariant that the properties of the answers rest on.
THEOREM AnswersInductive == AnswersSpec => []AnswersInv
BY InitAnswersInv, AnswersStep, PTL DEF AnswersSpec

-----------------------------------------------------------------------------
(***************************************************************************)
(* What the answers say                                                    *)
(***************************************************************************)
\* Every variable has its type in every behaviour, a report read across passes
\* and a Destroy included (Function.RunFunction, function.go:219-230).
THEOREM AnswersTypeCorrect == AnswersSpec => []AnswersTypeOK
<1>1. AnswersInv => AnswersTypeOK
  BY DEF AnswersInv
<1> QED
  BY <1>1, AnswersInductive, PTL

\* With no pass and no Destroy since its evaluation began, ok and message of an
\* answer agree, and one that says ok names the commit that was rendered, if it was
\* one, although they are read one by one without Locker (function.go:227-229).
THEOREM UndisturbedReportsAreTrue == AnswersSpec => []UndisturbedReportIsTrue
<1>1. AnswersInv => UndisturbedReportIsTrue
  BY DEF AnswersInv, UndisturbedInv, UndisturbedReportIsTrue, Answered, HasMessage, HasSha
<1> QED
  BY <1>1, AnswersInductive, PTL

\* Whatever passes, Destroy and replacements of the Repo come between the reads, an
\* answer to an evaluation that says ok names a commit, unless the second lookup has
\* found another Repo (function.go:219-229, repoManager.go:63-92, repo.go:441).
THEOREM OkReportsNameACommit == AnswersSpec => []OkNamesACommit
<1>1. AnswersInv => OkNamesACommit
  BY DEF AnswersInv, NamedInv, OkNamesACommit, Answered
<1> QED
  BY <1>1, AnswersInductive, PTL
=============================================================================
