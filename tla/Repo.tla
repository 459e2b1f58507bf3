-------------------------------- MODULE Repo --------------------------------
(***************************************************************************)
(* One repository of the repository server (pkg/repo/repo.go): the Repo    *)
(* object, its update goroutine worker(), the calls of Execute made by     *)
(* concurrent gRPC handlers, and the one call of Destroy.  They share      *)
(* config.Path (a git clone), Status, the RWMutex Locker and the           *)
(* unbuffered channel stop.                                                *)
(*                                                                         *)
(* Commits are opaque.  What git itself does (go-git) is external and is   *)
(* modelled from the calls repo.go makes and the errors it handles.        *)
(***************************************************************************)
EXTENDS Naturals

CONSTANTS
  Callers,      \* goroutines that may call Execute
  Commits,      \* commits of the remote repository
  NoCommit,     \* no commit: an absent revision, an absent clone
  FastForward,  \* <<c, d>> : d is c or a descendant of c
  Configs,      \* configurations that a Repo may be created with
  MaxMoves,     \* bound on the changes of the remote revision
  MaxFaults     \* bound on the failing network and file system calls

\* The kind of the revision, and whether the repository is read with a secret.
Tags == {"Tag", "AnnotatedTag"}
Kinds == {"Commit", "Branch"} \cup Tags
AllConfigs == [kind : Kinds, private : BOOLEAN]

ASSUME RepoAssumption ==
  /\ Configs \subseteq AllConfigs
  /\ NoCommit \notin Commits
  /\ FastForward \subseteq Commits \X Commits
  /\ \A c \in Commits : <<c, c>> \in FastForward
  /\ MaxMoves \in Nat
  /\ MaxFaults \in Nat

VARIABLES
  config,   \* what Repo.config names
  remote,   \* commit the revision names on the server now, NoCommit when it is absent
  object,   \* whether a fetch is sent the object that the revision names on the server
  clone,    \* commit HEAD names under config.Path, NoCommit when there is no clone
  head,     \* HEAD names that commit itself, or an annotated tag of it
  index,    \* commit whose files the index lists, NoCommit when there is no clone
  tree,     \* commits the files of the working tree are of: several after a failure
  fetched,  \* commit the revision names inside the clone, NoCommit when it names none
  status,   \* Repo.Status
  mutex,    \* the goroutine whose Lock() has announced itself on Locker
  worker,   \* program counter of worker()
  destroy,  \* program counter of the call of Destroy
  exec,     \* program counter of each Execute
  files,    \* states of the tree that the last execution of each caller has read
  moves, faults

external == <<config, remote, object, moves>>
git == <<clone, head, index, tree, fetched>>
locks == <<mutex, exec, files>>
vars == <<external, git, status, locks, worker, destroy, faults>>

-----------------------------------------------------------------------------
(***************************************************************************)
(* Status                                                                  *)
(***************************************************************************)
MaybeCommit == Commits \cup {NoCommit}

\* Error texts are kept only as far as they name the call that failed.
Messages == {"UnInitialized", "clone failed", "repository already exists",
             "undetected Revision type", "checkout failed",
             "Repository initialization success", "check failed",
             "No updates", "update failed", "Update success"}

Status == [IsInitialized : BOOLEAN, IsUpdateSuccess : BOOLEAN,
           Message : Messages, CommitSha : MaybeCommit]

\* Faulty variant: no message before the first pass.
NewStatusMute == [IsInitialized |-> FALSE, IsUpdateSuccess |-> FALSE,
                  Message |-> "", CommitSha |-> NoCommit]

NewStatus == [IsInitialized |-> FALSE, IsUpdateSuccess |-> FALSE,
              Message |-> "UnInitialized", CommitSha |-> NoCommit]

-----------------------------------------------------------------------------
(***************************************************************************)
(* Locker, a sync.RWMutex (external).  Lock() first announces itself,      *)
(* which keeps new readers out, then waits for the readers inside.  A      *)
(* second Lock() waits until the first one has unlocked.  Unlock() lets    *)
(* every waiting reader in.                                                *)
(***************************************************************************)
Free == "none"
Inside == {"locked", "rendering"}
NoReaders == \A c \in Callers : exec[c] \notin Inside

Announce(p) == /\ mutex = Free
               /\ mutex' = p
               /\ UNCHANGED <<exec, files>>

Unlock == /\ mutex' = Free
          /\ exec' = [c \in Callers |->
                        IF exec[c] = "blocked" THEN "locked" ELSE exec[c]]
          /\ UNCHANGED files

\* A call of the network or the file system fails.
Fault == faults < MaxFaults /\ faults' = faults + 1

-----------------------------------------------------------------------------
(***************************************************************************)
(* worker(): poll stop, run work() under Locker, sleep, repeat             *)
(***************************************************************************)
Report(ok, message) ==
  status' = [status EXCEPT !.IsUpdateSuccess = ok, !.Message = message]

\* A select takes the stop message only if Destroy is already blocked in its
\* send; the default branch only if it is not.
TakeStop ==
  /\ worker = "select" /\ destroy = "send"
  /\ worker' = "stopped" /\ destroy' = "remove"
  /\ UNCHANGED <<external, git, status, locks, faults>>

StartPass ==
  /\ worker = "select" /\ destroy # "send"
  /\ worker' = "lock"
  /\ UNCHANGED <<external, git, status, locks, destroy, faults>>

CallLock ==
  /\ worker = "lock" /\ Announce("worker")
  /\ worker' = "drain"
  /\ UNCHANGED <<external, git, status, destroy, faults>>

\* Faulty variant: the pass takes Locker as a reader.
GotLockShared ==
  /\ worker = "drain"
  /\ worker' = IF status.IsInitialized THEN "check" ELSE "init"
  /\ UNCHANGED <<external, git, status, locks, destroy, faults>>

GotLock ==
  /\ worker = "drain" /\ NoReaders
  /\ worker' = IF status.IsInitialized THEN "check" ELSE "init"
  /\ UNCHANGED <<external, git, status, locks, destroy, faults>>

Awake ==
  /\ worker = "sleep" /\ worker' = "select"
  /\ UNCHANGED <<external, git, status, locks, destroy, faults>>

-----------------------------------------------------------------------------
(***************************************************************************)
(* init(): PlainClone, detectRevisionType, checkout.  A failing clone      *)
(* removes what it wrote; a failure after it leaves the clone behind, and  *)
(* a clone that is already there makes every later PlainClone fail.        *)
(***************************************************************************)
\* Faulty variant: a failed initialisation ends the goroutine.
InitGivesUp(message) ==
  /\ worker = "init" /\ worker' = "stopped"
  /\ status' = [status EXCEPT !.Message = message]
  /\ Unlock
  /\ UNCHANGED <<external, destroy>>

InitFailed(message) ==
  /\ worker = "init" /\ worker' = "sleep"
  /\ status' = [status EXCEPT !.Message = message]
  /\ Unlock
  /\ UNCHANGED <<external, destroy>>

CloneFails ==
  /\ InitFailed("clone failed")
  /\ Fault
  /\ UNCHANGED git

CloneExists ==
  /\ clone # NoCommit
  /\ InitFailed("repository already exists")
  /\ UNCHANGED <<git, faults>>

\* The clone has the default branch checked out and the revision is not in it:
\* it does not exist, or it is a branch that the clone does not configure.
DetectFails ==
  /\ clone = NoCommit /\ remote = NoCommit
  /\ InitFailed("undetected Revision type")
  /\ clone' \in Commits /\ index' = clone' /\ tree' = {clone'} /\ fetched' = NoCommit
  /\ UNCHANGED <<head, faults>>

CheckoutFails ==
  /\ clone = NoCommit /\ remote # NoCommit
  /\ InitFailed("checkout failed")
  /\ clone' \in Commits /\ index' = remote /\ tree' = {clone', remote}
  /\ fetched' = remote
  /\ Fault
  /\ UNCHANGED head

\* Faulty variant: a clone that is already there is used as it is.
InitReuses ==
  /\ worker = "init" /\ worker' = "publish"
  /\ remote # NoCommit
  /\ clone' = remote /\ head' = "commit" /\ index' = remote /\ tree' = {remote}
  /\ fetched' = remote
  /\ status' = [status EXCEPT !.IsInitialized = TRUE, !.IsUpdateSuccess = TRUE,
                              !.Message = "Repository initialization success"]
  /\ UNCHANGED <<external, locks, destroy, faults>>

InitSucceeds ==
  /\ worker = "init" /\ worker' = "publish"
  /\ clone = NoCommit /\ remote # NoCommit
  /\ clone' = remote /\ head' = "commit" /\ index' = remote /\ tree' = {remote}
  /\ fetched' = remote
  /\ status' = [status EXCEPT !.IsInitialized = TRUE, !.IsUpdateSuccess = TRUE,
                              !.Message = "Repository initialization success"]
  /\ UNCHANGED <<external, locks, destroy, faults>>

-----------------------------------------------------------------------------
(***************************************************************************)
(* checkUpdates().  A branch is fetched with credentials; a tag is fetched *)
(* and listed without, so that a private repository refuses both.          *)
(***************************************************************************)
Refused == config.kind \in Tags /\ config.private

\* The hash of an annotated tag is the tag object's: HEAD has it only after a
\* checkout that failed before it came to the commit.
NeedUpdate(c) == clone # c \/ (config.kind = "AnnotatedTag" /\ head = "commit")

CheckCommit ==
  /\ worker = "check" /\ config.kind = "Commit"
  /\ worker' = "no updates"
  /\ UNCHANGED <<external, git, status, locks, destroy, faults>>

\* A deleted branch keeps its remote-tracking reference, a deleted tag its tag.
\* Without a refspec for it a tag is followed only if its object is there: never
\* an annotated tag put on a commit that the clone has, nor a tag on a commit of
\* no branch.
Fetch == fetched' = IF remote = NoCommit \/ object = "withheld" THEN fetched ELSE remote

\* Faulty variant: the check compares with what was fetched before.
CheckBranchOffline ==
  /\ worker = "check" /\ config.kind = "Branch"
  /\ worker' = IF NeedUpdate(fetched) THEN "update" ELSE "no updates"
  /\ UNCHANGED <<external, git, status, locks, destroy, faults>>

CheckBranch ==
  /\ worker = "check" /\ config.kind = "Branch"
  /\ Fetch
  /\ worker' = IF NeedUpdate(fetched') THEN "update" ELSE "no updates"
  /\ UNCHANGED <<external, clone, head, index, tree, status, locks, destroy, faults>>

FetchTag ==
  /\ worker = "check" /\ config.kind \in Tags /\ ~Refused
  /\ Fetch
  /\ worker' = "list"
  /\ UNCHANGED <<external, clone, head, index, tree, status, locks, destroy, faults>>

ListTags ==
  /\ worker = "list" /\ remote # NoCommit
  /\ worker' = IF NeedUpdate(remote) THEN "update" ELSE "no updates"
  /\ UNCHANGED <<external, git, status, locks, destroy, faults>>

\* work() reports the error and goes on, with the result "no update needed".
CheckFails ==
  /\ worker \in {"check", "list"} /\ config.kind # "Commit"
  /\ \/ Refused /\ UNCHANGED faults
     \/ worker = "list" /\ remote = NoCommit /\ UNCHANGED faults
     \/ Fault
  /\ worker' = "check failed"
  /\ Report(FALSE, "check failed")
  /\ UNCHANGED <<external, git, locks, destroy>>

NoUpdates ==
  /\ worker \in {"no updates", "check failed"}
  /\ worker' = "publish"
  /\ Report(TRUE, "No updates")
  /\ UNCHANGED <<external, git, locks, destroy, faults>>

-----------------------------------------------------------------------------
(***************************************************************************)
(* update(): Pull of a branch, checkout of a tag, then Status              *)
(***************************************************************************)
Updated == /\ worker' = "publish"
           /\ Report(TRUE, "Update success")
           /\ UNCHANGED locks

\* Faulty variant: the error path returns without Unlock.
NotUpdatedLocked == /\ worker' = "sleep"
                    /\ Report(FALSE, "update failed")
                    /\ UNCHANGED locks

NotUpdated == /\ worker' = "sleep"
              /\ Report(FALSE, "update failed")
              /\ Unlock

\* Pull and Checkout make HEAD name the commit first, list its files in the index
\* and write them last.  They refuse a tree that has changed from the index, but
\* for files the index does not list: those they let pass and leave alone.
Dirty == tree # {index}

CheckedOut(c) ==
  /\ clone' = c /\ head' = "commit" /\ index' = c
  /\ tree' = {c} \/ (Dirty /\ tree' = tree \cup {c})

\* A checkout of an annotated tag that ends early leaves HEAD at the tag.
OnlyHead(c) ==
  /\ clone' = c /\ head' = IF config.kind = "AnnotatedTag" THEN "tag" ELSE "commit"
  /\ UNCHANGED <<index, tree>>

\* Once the index is written, none, some or all of the files have been rewritten.
PartWritten(c) ==
  /\ clone' = c /\ head' = "commit" /\ index' = c
  /\ tree' \in {tree, tree \cup {c}, {c}}

\* The commit update() checks out, a branch after a second fetch.
Target(c) == \/ config.kind = "Branch" /\ c = remote
                 /\ <<clone, c>> \in FastForward /\ Fetch
             \/ config.kind \in Tags /\ c = fetched /\ UNCHANGED fetched

\* Pull fetches again; it only moves forward.  That the server has gone back to
\* HEAD since the check is no error: the second fetch was an update.
PullBranch ==
  /\ worker = "update" /\ config.kind = "Branch"
  /\ Fetch
  /\ IF <<clone, remote>> \in FastForward
       THEN CheckedOut(remote) /\ Updated
       ELSE UNCHANGED <<clone, head, index, tree>> /\ NotUpdated
  /\ UNCHANGED <<external, destroy, faults>>

CheckoutTag ==
  /\ worker = "update" /\ config.kind \in Tags
  /\ \E c \in Commits : Target(c) /\ CheckedOut(c)
  /\ Updated
  /\ UNCHANGED <<external, destroy, faults>>

\* A failure before HEAD moves: in the second fetch, or after it.
UpdateFails ==
  /\ worker = "update" /\ Fault
  /\ NotUpdated
  /\ UNCHANGED fetched \/ (config.kind = "Branch" /\ Fetch)
  /\ UNCHANGED <<external, clone, head, index, tree, destroy>>

\* A failure after it.
UpdateInterrupted ==
  /\ worker = "update" /\ Fault
  /\ NotUpdated
  /\ \E c \in Commits : Target(c) /\ (OnlyHead(c) \/ PartWritten(c))
  /\ UNCHANGED <<external, destroy>>

\* What an interrupted update left in the tree makes the next one fail as well,
\* after it has moved HEAD.
UpdateRefused ==
  /\ worker = "update" /\ Dirty
  /\ NotUpdated
  /\ \E c \in Commits : Target(c) /\ OnlyHead(c)
  /\ UNCHANGED <<external, destroy, faults>>

\* Faulty variant: only the initialisation publishes a commit.
PublishShaOnce ==
  /\ worker = "publish" /\ worker' = "sleep"
  /\ status' = [status EXCEPT !.CommitSha = IF @ = NoCommit THEN clone ELSE @]
  /\ Unlock
  /\ UNCHANGED <<external, git, destroy, faults>>

\* Status.CommitSha is read from HEAD after the other fields are written.  The
\* hash of an annotated tag stands for its commit here.
PublishSha ==
  /\ worker = "publish" /\ worker' = "sleep"
  /\ status' = [status EXCEPT !.CommitSha = clone]
  /\ Unlock
  /\ UNCHANGED <<external, git, destroy, faults>>

-----------------------------------------------------------------------------
(***************************************************************************)
(* Destroy(): lock, hand the stop message to worker(), remove the clone    *)
(***************************************************************************)
CallDestroy ==
  /\ destroy = "idle" /\ destroy' = "lock"
  /\ UNCHANGED <<external, git, status, locks, worker, faults>>

DestroyLock ==
  /\ destroy = "lock" /\ Announce("destroy")
  /\ destroy' = "drain"
  /\ UNCHANGED <<external, git, status, worker, faults>>

\* Faulty variant: the directory is removed while worker() lives on.
DestroyUnstopped ==
  /\ destroy = "drain" /\ NoReaders
  /\ destroy' = "remove"
  /\ UNCHANGED <<external, git, status, locks, worker, faults>>

DestroyGotLock ==
  /\ destroy = "drain" /\ NoReaders
  /\ destroy' = "send"
  /\ UNCHANGED <<external, git, status, locks, worker, faults>>

\* Faulty variant: the Status of the removed repository is kept.
RemoveKeepsStatus ==
  /\ destroy = "remove" /\ destroy' = "done"
  /\ UNCHANGED status
  /\ \/ /\ clone' = NoCommit /\ index' = NoCommit /\ tree' = {} /\ fetched' = NoCommit
        /\ UNCHANGED faults
     \/ Fault /\ UNCHANGED <<clone, index, tree, fetched>>
  /\ Unlock
  /\ UNCHANGED <<external, head, worker>>

\* os.RemoveAll may fail; the error is returned and only logged by the caller.
Remove ==
  /\ destroy = "remove" /\ destroy' = "done"
  /\ status' = NewStatus
  /\ \/ /\ clone' = NoCommit /\ index' = NoCommit /\ tree' = {} /\ fetched' = NoCommit
        /\ UNCHANGED faults
     \/ Fault /\ UNCHANGED <<clone, index, tree, fetched>>
  /\ Unlock
  /\ UNCHANGED <<external, head, worker>>

-----------------------------------------------------------------------------
(***************************************************************************)
(* Execute(): RLock, refuse an uninitialised repository, evaluate the      *)
(* module from the files under config.Path, RUnlock.  The evaluation opens *)
(* files from its first step to its last, so it reads the clone twice.     *)
(***************************************************************************)
Execute(c) ==
  /\ exec[c] = "idle"
  /\ exec' = [exec EXCEPT ![c] = IF mutex = Free THEN "locked" ELSE "blocked"]
  /\ files' = [files EXCEPT ![c] = {}]
  /\ UNCHANGED <<external, git, status, mutex, worker, destroy, faults>>

Refuse(c) ==
  /\ exec[c] = "locked" /\ ~status.IsInitialized
  /\ exec' = [exec EXCEPT ![c] = "idle"]
  /\ UNCHANGED <<external, git, status, mutex, files, worker, destroy, faults>>

ReadFiles(c) == files' = [files EXCEPT ![c] = @ \cup {tree}]

BeginRender(c) ==
  /\ exec[c] = "locked" /\ status.IsInitialized
  /\ exec' = [exec EXCEPT ![c] = "rendering"]
  /\ ReadFiles(c)
  /\ UNCHANGED <<external, git, status, mutex, worker, destroy, faults>>

EndRender(c) ==
  /\ exec[c] = "rendering"
  /\ exec' = [exec EXCEPT ![c] = "idle"]
  /\ ReadFiles(c)
  /\ UNCHANGED <<external, git, status, mutex, worker, destroy, faults>>

-----------------------------------------------------------------------------
\* The server: commits are pushed, tags are moved, revisions appear and
\* disappear; a commit hash, once pushed, names that commit for good.
RemoteMoves ==
  /\ moves < MaxMoves /\ moves' = moves + 1
  /\ remote' \in MaybeCommit
  /\ object' \in IF config.kind \in Tags THEN {"sent", "withheld"} ELSE {"sent"}
  /\ config.kind = "Commit" => remote = NoCommit
  /\ UNCHANGED <<config, git, status, locks, worker, destroy, faults>>

-----------------------------------------------------------------------------
Init ==
  /\ config \in Configs
  /\ remote \in MaybeCommit /\ object = "sent"
  /\ clone = NoCommit /\ head = "commit" /\ index = NoCommit /\ tree = {}
  /\ fetched = NoCommit
  /\ status = NewStatus
  /\ mutex = Free
  /\ worker = "select" /\ destroy = "idle"
  /\ exec = [c \in Callers |-> "idle"]
  /\ files = [c \in Callers |-> {}]
  /\ moves = 0 /\ faults = 0

InitPass == \/ CloneFails \/ CloneExists \/ DetectFails
            \/ CheckoutFails \/ InitSucceeds

CheckPass == \/ CheckCommit \/ CheckBranch \/ FetchTag \/ ListTags
             \/ CheckFails \/ NoUpdates

UpdatePass == \/ PullBranch \/ CheckoutTag
              \/ UpdateFails \/ UpdateInterrupted \/ UpdateRefused

Worker == \/ TakeStop \/ StartPass \/ CallLock \/ GotLock \/ Awake
          \/ InitPass \/ CheckPass \/ UpdatePass \/ PublishSha

Destroy == DestroyLock \/ DestroyGotLock \/ Remove

Evaluate(c) == Refuse(c) \/ BeginRender(c) \/ EndRender(c)

Next == \/ Worker
        \/ CallDestroy \/ Destroy
        \/ \E c \in Callers : Execute(c) \/ Evaluate(c)
        \/ RemoteMoves

Spec == Init /\ [][Next]_vars

\* The Go scheduler runs every goroutine that can run, git calls and
\* evaluations end.  A Lock() that waits for another one gets its turn: a
\* sync.Mutex is handed to the longest waiter once that has waited 1ms.
\* Nothing obliges anyone to call Execute or Destroy.
Fairness == /\ WF_vars(Worker)
            /\ WF_vars(Destroy) /\ SF_vars(DestroyLock)
            /\ \A c \in Callers : WF_vars(Evaluate(c))

FairSpec == Spec /\ Fairness

-----------------------------------------------------------------------------
(***************************************************************************)
(* Types                                                                   *)
(***************************************************************************)
\* Every variable has its type.
TypeOK ==
  /\ config \in Configs
  /\ remote \in MaybeCommit /\ clone \in MaybeCommit /\ fetched \in MaybeCommit
  /\ object \in {"sent", "withheld"} /\ head \in {"commit", "tag"}
  /\ index \in MaybeCommit /\ tree \in SUBSET Commits
  /\ status \in Status
  /\ mutex \in {Free, "worker", "destroy"}
  /\ worker \in {"select", "lock", "drain", "init", "check", "list",
                 "no updates", "check failed", "update", "publish", "sleep", "stopped"}
  /\ destroy \in {"idle", "lock", "drain", "send", "remove", "done"}
  /\ exec \in [Callers -> {"idle", "blocked"} \cup Inside]
  /\ files \in [Callers -> SUBSET (SUBSET Commits)]
  /\ moves \in 0..MaxMoves /\ faults \in 0..MaxFaults

-----------------------------------------------------------------------------
(***************************************************************************)
(* Safety                                                                  *)
(***************************************************************************)
\* Execute evaluates a module from one state of the working tree: never from a
\* tree that is being pulled, checked out, replaced or removed, although the
\* worker and Destroy rewrite the directory the evaluation reads.
AtomicRender ==
  \A c \in Callers : /\ {} \notin files[c]
                     /\ \A x, y \in files[c] : x = y

\* While a module is being evaluated, Status.CommitSha is the commit it is
\* evaluated from, whatever passes failed before: the sha a handler may report
\* names what it rendered.  It need not while the last update is reported as
\* failed, nor where one that was interrupted has left the tree and HEAD apart:
\* the pass after that finds HEAD where it should be and says "No updates".
RenderedIsPublished ==
  \A c \in Callers :
    exec[c] = "rendering" /\ status.IsUpdateSuccess /\ tree = {clone}
      => files[c] = {{status.CommitSha}}

\* After Destroy has returned, the old worker never writes the directory or
\* the Status again, so a new Repo with the same hash owns the path alone.
NoWorkAfterDestroy ==
  [][destroy = "done" => UNCHANGED <<git, status>>]_vars

\* An initialisation that fails after its clone (the revision is not there
\* yet, the checkout fails) is final: work() retries init() every period, but
\* PlainClone refuses the directory, so the Repo never becomes initialised.
LeftoverIsFinal ==
  [][(clone # NoCommit /\ ~status.IsInitialized) => ~status'.IsInitialized]_vars

-----------------------------------------------------------------------------
(***************************************************************************)
(* Refinement of Snapshots                                                 *)
(***************************************************************************)
\* The version is the working tree of an initialised Repo; what a caller has seen
\* is the one state among those it has read.
Version == IF status.IsInitialized THEN tree ELSE {}
Calls == [c \in Callers |-> CASE exec[c] = "idle" -> "idle"
                              [] exec[c] = "rendering" -> "evaluating"
                              [] OTHER -> "waiting"]
TreeOf(F) == IF F = {} THEN {} ELSE CHOOSE x \in F : TRUE
Seen == [c \in Callers |-> TreeOf(files[c])]

Abstract == INSTANCE Snapshots WITH Versions <- SUBSET Commits, NoVersion <- {},
                                    version <- Version, call <- Calls, seen <- Seen

\* Every behaviour of a Repo, its passes, faults and its end included, is one
\* of Snapshots: Execute sees one version and versions change between calls.
ImplementsSnapshots == Abstract!Spec

-----------------------------------------------------------------------------
(***************************************************************************)
(* The inductive invariant behind the safety properties                    *)
(***************************************************************************)
WorkerInside == worker \in {"init", "check", "list", "no updates", "check failed",
                            "update", "publish"}
DestroyInside == destroy \in {"send", "remove"}

\* Locker excludes: whoever has it as a writer is alone in the clone.
LockInv ==
  /\ (WorkerInside \/ worker = "drain") <=> mutex = "worker"
  /\ (DestroyInside \/ destroy = "drain") <=> mutex = "destroy"
  /\ WorkerInside \/ DestroyInside => NoReaders
  /\ mutex = Free => \A c \in Callers : exec[c] # "blocked"

\* worker() has ended exactly when Destroy has handed it the stop message.
StopInv == worker = "stopped" <=> destroy \in {"remove", "done"}

\* An initialised Repo has a clone with files in it.  Unless its last update is
\* reported as failed, it publishes the commit of HEAD, except between the move
\* of HEAD and the end of the same pass.
StatusInv ==
  /\ worker \in {"check", "list", "no updates", "check failed", "update", "publish"}
       => status.IsInitialized
  /\ worker = "init" => ~status.IsInitialized
  /\ destroy = "done" => ~status.IsInitialized
  /\ status.IsInitialized => clone # NoCommit /\ fetched # NoCommit /\ tree # {}
  /\ status.IsInitialized /\ worker # "publish" => status.CommitSha # NoCommit
  /\ status.IsInitialized /\ status.IsUpdateSuccess /\ worker # "publish"
       => status.CommitSha = clone

\* An evaluation under way has read nothing but the tree of this moment.
FilesInv ==
  \A c \in Callers :
    /\ exec[c] = "rendering" => files[c] = {tree} /\ status.IsInitialized
    /\ exec[c] \in {"locked", "blocked"} => files[c] = {}

IInv == TypeOK /\ LockInv /\ StopInv /\ StatusInv /\ FilesInv /\ AtomicRender

-----------------------------------------------------------------------------
(***************************************************************************)
(* Liveness                                                                *)
(***************************************************************************)
\* Destroy holds Locker and waits for worker() to take the stop message;
\* worker() has polled stop before that and waits for Locker.
Trapped == destroy = "send" /\ worker = "lock"

\* The revision can be followed: it exists, nobody destroys the Repo, a branch
\* moves forward, a tag can be read without credentials and its object is sent.
Followable ==
  /\ remote # NoCommit /\ destroy = "idle" /\ ~Refused /\ object = "sent"
  /\ config.kind = "Branch" => clone = NoCommit \/ <<clone, remote>> \in FastForward

\* If the revision can be followed from some time on, an initialised Repo ends
\* up with HEAD at its commit and publishes it, whatever failed before.  Whether
\* the files follow HEAD is another matter: an interrupted update has parted them
\* for good.
Converges ==
  <>[]Followable =>
    <>[](status.IsInitialized => /\ clone = remote /\ status.CommitSha = remote
                                 /\ status.IsUpdateSuccess)

\* A revision that exists is cloned and initialised in the end, unless a failed
\* initialisation has left its clone in the way.
InitialisesUnlessLeftover ==
  <>[](remote # NoCommit /\ destroy = "idle") =>
    <>(status.IsInitialized \/ clone # NoCommit)

\* Every Execute returns, unless Destroy and worker() wait for each other.
ExecuteReturns ==
  \A c \in Callers : exec[c] # "idle" ~> (exec[c] = "idle" \/ Trapped)

\* Destroy returns, unless worker() was already past its poll of stop.
DestroyReturnsUnlessTrapped == destroy # "idle" ~> (destroy = "done" \/ Trapped)

-----------------------------------------------------------------------------
(***************************************************************************)
(* What the repository says and the code does not do                       *)
(***************************************************************************)
\* Destroy ends, as its message "destroyed" says (repo.go:443).
DestroyReturns == destroy # "idle" ~> destroy = "done"

\* A pass whose check failed leaves IsUpdateSuccess false: the health check of
\* the composite resource turns "Degraded" on that alone (tower/argo/main.tf:375).
FailedCheckIsReported ==
  [][worker = "check failed" => ~status'.IsUpdateSuccess]_vars
=============================================================================
