------------------------------- MODULE Answers -------------------------------
(***************************************************************************)
(* The report on its repository that RunFunction puts in the status of a   *)
(* composite resource (pkg/crossplane/function.go:219-230), composed with  *)
(* the Repo it is about.  When Execute has returned, and released Locker,  *)
(* the handler reads the fields of repo.Status one by one without Locker,  *)
(* while worker() may be assigning them and Destroy replaces the object.   *)
(* It has looked the Repo up again, and may have found another one that    *)
(* was created for the same url and revision after the first was deleted.  *)
(*                                                                         *)
(* Repo writes status in one step for a group of assignments.  Here they   *)
(* reach view, the memory a reader without Locker sees, one by one in the  *)
(* order of the code.  The other goroutines wait meanwhile: the writer has *)
(* Locker, so that what they do commutes with the assignments.             *)
(***************************************************************************)
EXTENDS Repo, Sequences

VARIABLES
  view,      \* Status as a reader without Locker sees it
  pending,   \* assigned fields that are not visible yet, in order
  half,      \* of the first one, a string, one of two words is visible
  listed,    \* the Repo is in the map of RepoManager
  handler,   \* program counter of each handler, after Execute has been called
  stale,     \* the Repo that each handler has looked up has been replaced since
  another,   \* the report is read from a Repo that replaced the evaluated one
  rendered,  \* commit the evaluation was made from, NoCommit if it was refused
  changed,   \* view has changed since that evaluation began
  report     \* what the call of the handler has put in status.repository

memory == <<view, pending, half>>
held == <<stale, another>>
answer == <<handler, rendered, report>>
allVars == <<vars, memory, listed, held, answer, changed>>

Reports == [message : Messages \cup {"none", "torn"},
            commitSha : MaybeCommit \cup {"torn"}, ok : BOOLEAN]

\* Faulty variant: no message before the first answer.
NewReportMute == [message |-> "", commitSha |-> NoCommit, ok |-> FALSE]

\* Nothing has been put there: the fields of an earlier answer stay as they are.
NewReport == [message |-> "none", commitSha |-> NoCommit, ok |-> FALSE]

-----------------------------------------------------------------------------
(***************************************************************************)
(* Memory                                                                  *)
(***************************************************************************)
Strings == {"Message", "CommitSha"}

\* To assign the value that a field has already shows nowhere.
Assignment(old, new, f) == IF old[f] # new[f] THEN <<f>> ELSE <<>>

\* The assignments of a pass: init() raises its flag first, the sha comes last.
Assignments(old, new) ==
  Assignment(old, new, "IsInitialized")
    \o (IF old.IsInitialized
          THEN Assignment(old, new, "IsUpdateSuccess") \o Assignment(old, new, "Message")
          ELSE Assignment(old, new, "Message") \o Assignment(old, new, "IsUpdateSuccess"))
    \o Assignment(old, new, "CommitSha")

\* Faulty variant: Destroy clears the fields of the Status it has.
ClearInPlace ==
  /\ pending' = <<"CommitSha", "Message", "IsUpdateSuccess", "IsInitialized">>
  /\ UNCHANGED view

\* Destroy assigns the pointer to a new Status.
ReplaceObject == view' = status' /\ pending' = <<>>

Published ==
  /\ pending = <<>>
  /\ IF destroy = "remove" /\ destroy' = "done"
       THEN ReplaceObject
       ELSE pending' = Assignments(status, status') /\ UNCHANGED view
  /\ changed' = [c \in Callers |-> changed[c] \/ (view' # view /\ rendered[c] # NoCommit)]
  /\ UNCHANGED half

\* A string is a pointer and a length, which are stored one after the other.
Assign ==
  /\ pending # <<>>
  /\ IF Head(pending) \in Strings /\ ~half
       THEN half' = TRUE /\ UNCHANGED <<view, pending>>
       ELSE /\ view' = [view EXCEPT ![Head(pending)] = status[Head(pending)]]
            /\ pending' = Tail(pending) /\ half' = FALSE
  /\ changed' = [c \in Callers |-> changed[c] \/ rendered[c] # NoCommit]
  /\ UNCHANGED <<vars, listed, held, answer>>

\* What a read of a field returns.  Texts of different lengths may be mixed up,
\* and so may a hash and the word "UnInitialized" that a new Status has in its
\* place; two hashes have one length.  A Repo that has been replaced had been
\* destroyed before, and has a new Status for good.
Mixable(f) == \/ f = "Message"
              \/ f = "CommitSha" /\ NoCommit \in {view[f], status[f]}

Read(c, f) ==
  IF stale[c] THEN {NewStatus[f]}
  ELSE IF half /\ Head(pending) = f
    THEN {view[f], status[f]} \cup (IF Mixable(f) THEN {"torn"} ELSE {})
    ELSE {view[f]}

-----------------------------------------------------------------------------
(***************************************************************************)
(* The Repo, and its removal from the map once Destroy has returned        *)
(***************************************************************************)
RepoWorker == Worker /\ Published /\ UNCHANGED <<listed, held, answer>>
RepoDestroy == Destroy /\ Published /\ UNCHANGED <<listed, held, answer>>

Environment ==
  /\ CallDestroy \/ RemoteMoves
  /\ Published /\ UNCHANGED <<listed, held, answer>>

Unlist ==
  /\ destroy = "done" /\ listed /\ listed' = FALSE
  /\ UNCHANGED <<vars, memory, held, answer, changed>>

\* A module asks for the url and revision again: a new Repo, with a worker and a
\* lock of its own, over what the removal has left of the directory.
Recreate ==
  /\ destroy = "done" /\ ~listed
  /\ listed' = TRUE /\ worker' = "select" /\ destroy' = "idle"
  /\ exec' = [c \in Callers |-> "idle"]
  /\ stale' = [c \in Callers |-> TRUE]
  /\ UNCHANGED <<external, git, status, mutex, files, faults, memory, another, answer, changed>>

-----------------------------------------------------------------------------
(***************************************************************************)
(* RunFunction                                                             *)
(***************************************************************************)
\* Without the Repo in the map Execute fails as a lookup does: see Lookup.
Call(c) ==
  /\ handler[c] \in {"answered", "kept"} /\ pending = <<>>
  /\ IF listed THEN Execute(c) ELSE UNCHANGED vars
  /\ handler' = [handler EXCEPT ![c] = IF listed THEN "executing" ELSE "lookup"]
  /\ rendered' = [rendered EXCEPT ![c] = NoCommit]
  /\ report' = [report EXCEPT ![c] = NewReport]
  /\ stale' = [stale EXCEPT ![c] = FALSE]
  /\ another' = [another EXCEPT ![c] = FALSE]
  /\ changed' = [changed EXCEPT ![c] = FALSE]
  /\ UNCHANGED <<memory, listed>>

GetRefusal(c) ==
  /\ pending = <<>> /\ Refuse(c)
  /\ handler' = [handler EXCEPT ![c] = "lookup"]
  /\ UNCHANGED <<memory, listed, held, rendered, report, changed>>

\* A call that waited for the lock of a Repo that has been replaced since.
GetStaleRefusal(c) ==
  /\ handler[c] = "executing" /\ stale[c]
  /\ handler' = [handler EXCEPT ![c] = "lookup"]
  /\ UNCHANGED <<vars, memory, listed, held, rendered, report, changed>>

\* A tree that is not the one of HEAD is that of no commit: "parted".
Begin(c) ==
  /\ pending = <<>> /\ BeginRender(c)
  /\ rendered' = [rendered EXCEPT ![c] = IF tree = {clone} THEN clone ELSE "parted"]
  /\ changed' = [changed EXCEPT ![c] = FALSE]
  /\ UNCHANGED <<memory, listed, held, handler, report>>

End(c) ==
  /\ pending = <<>> /\ EndRender(c)
  /\ handler' = [handler EXCEPT ![c] = "lookup"]
  /\ UNCHANGED <<memory, listed, held, rendered, report, changed>>

\* The Repo that is in the map now, if there is one.
LookupFinds(c) ==
  /\ handler[c] = "lookup" /\ listed
  /\ handler' = [handler EXCEPT ![c] = "message"]
  /\ another' = [another EXCEPT ![c] = @ \/ stale[c]]
  /\ stale' = [stale EXCEPT ![c] = FALSE]
  /\ UNCHANGED <<vars, memory, listed, rendered, report, changed>>

\* Without a Repo the status keeps the report of an earlier answer.
LookupFails(c) ==
  /\ handler[c] = "lookup" /\ ~listed
  /\ handler' = [handler EXCEPT ![c] = "kept"]
  /\ UNCHANGED <<vars, memory, listed, held, rendered, report, changed>>

Lookup(c) == LookupFinds(c) \/ LookupFails(c)

ReadMessage(c) ==
  /\ handler[c] = "message"
  /\ handler' = [handler EXCEPT ![c] = "commitSha"]
  /\ \E text \in Read(c, "Message") : report' = [report EXCEPT ![c].message = text]
  /\ UNCHANGED <<vars, memory, listed, held, rendered, changed>>

ReadCommitSha(c) ==
  /\ handler[c] = "commitSha"
  /\ handler' = [handler EXCEPT ![c] = "isInitialized"]
  /\ \E sha \in Read(c, "CommitSha") : report' = [report EXCEPT ![c].commitSha = sha]
  /\ UNCHANGED <<vars, memory, listed, held, rendered, changed>>

\* repo.Status.IsInitialized && repo.Status.IsUpdateSuccess: two reads.
ReadIsInitialized(c) ==
  /\ handler[c] = "isInitialized"
  /\ \/ /\ TRUE \in Read(c, "IsInitialized")
        /\ handler' = [handler EXCEPT ![c] = "isUpdateSuccess"]
        /\ UNCHANGED report
     \/ /\ FALSE \in Read(c, "IsInitialized")
        /\ handler' = [handler EXCEPT ![c] = "answered"]
        /\ report' = [report EXCEPT ![c].ok = FALSE]
  /\ UNCHANGED <<vars, memory, listed, held, rendered, changed>>

ReadIsUpdateSuccess(c) ==
  /\ handler[c] = "isUpdateSuccess"
  /\ handler' = [handler EXCEPT ![c] = "answered"]
  /\ \E ok \in Read(c, "IsUpdateSuccess") : report' = [report EXCEPT ![c].ok = ok]
  /\ UNCHANGED <<vars, memory, listed, held, rendered, changed>>

-----------------------------------------------------------------------------
AnswersInit ==
  /\ Init
  /\ view = status /\ pending = <<>> /\ half = FALSE
  /\ listed = TRUE
  /\ stale = [c \in Callers |-> FALSE] /\ another = [c \in Callers |-> FALSE]
  /\ handler = [c \in Callers |-> "answered"]
  /\ rendered = [c \in Callers |-> NoCommit]
  /\ changed = [c \in Callers |-> FALSE]
  /\ report = [c \in Callers |-> NewReport]

Handler(c) == \/ GetRefusal(c) \/ GetStaleRefusal(c) \/ Begin(c) \/ End(c)
              \/ Lookup(c) \/ ReadMessage(c) \/ ReadCommitSha(c)
              \/ ReadIsInitialized(c) \/ ReadIsUpdateSuccess(c)

AnswersNext == \/ RepoWorker \/ RepoDestroy \/ Environment \/ Assign
               \/ Unlist \/ Recreate
               \/ \E c \in Callers : Call(c) \/ Handler(c)

AnswersSpec == AnswersInit /\ [][AnswersNext]_allVars

\* As in Repo; assignments become visible, and a handler that runs goes on.
AnswersFairness == /\ WF_allVars(RepoWorker) /\ WF_allVars(Assign)
                   /\ \A c \in Callers : WF_allVars(Handler(c))

AnswersFairSpec == AnswersSpec /\ AnswersFairness

-----------------------------------------------------------------------------
\* Every variable has its type.
AnswersTypeOK ==
  /\ TypeOK
  /\ view \in Status /\ half \in BOOLEAN /\ listed \in BOOLEAN
  /\ pending \in Seq({"IsInitialized", "Message", "IsUpdateSuccess", "CommitSha"})
  /\ handler \in [Callers -> {"answered", "kept", "executing", "lookup", "message", "commitSha",
                              "isInitialized", "isUpdateSuccess"}]
  /\ stale \in [Callers -> BOOLEAN] /\ another \in [Callers -> BOOLEAN]
  /\ rendered \in [Callers -> MaybeCommit \cup {"parted"}]
  /\ changed \in [Callers -> BOOLEAN]
  /\ report \in [Callers -> Reports]

-----------------------------------------------------------------------------
(***************************************************************************)
(* What the answers say                                                    *)
(***************************************************************************)
\* The answer to an evaluation, with a report of its own.
Answered(c) == handler[c] = "answered" /\ rendered[c] # NoCommit

Good == {"Repository initialization success", "No updates", "Update success"}

\* If no pass and no Destroy came between an evaluation and the last read, ok and
\* message agree, which is what the health check prints for a Degraded resource
\* (tower/argo/main.tf:374-376), and an answer that says ok names the commit that
\* was rendered, if it was one: an interrupted update may have left a tree of no commit.
UndisturbedReportIsTrue ==
  \A c \in Callers : Answered(c) /\ ~changed[c] =>
    /\ report[c].ok <=> report[c].message \in Good
    /\ report[c].ok /\ rendered[c] # "parted" => report[c].commitSha = rendered[c]

\* However the reads are spread over passes and over Destroy, and whether the Repo
\* is replaced under the reader: an answer to an evaluation that says ok names a
\* commit.  Only a second lookup that finds another Repo than the one evaluated
\* may meet its initialisation, which raises both flags before it has a commit.
OkNamesACommit ==
  \A c \in Callers :
    Answered(c) /\ report[c].ok /\ ~another[c] => report[c].commitSha \in Commits

\* If the revision can be followed from some time on and the composite resource
\* is reconciled again and again, its report is in the end that of the remote
\* commit, without a trace of earlier failures or mixed reads.
ReportConverges ==
  \A c \in Callers :
    <>[]Followable /\ []<>(handler[c] = "executing") =>
      <>[](handler[c] = "answered" /\ status.IsInitialized =>
             /\ report[c].ok /\ report[c].commitSha = remote
             /\ report[c].message \in Good)
=============================================================================
