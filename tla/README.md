# Verification of crossform

crossform is a Crossplane composition function. A composite resource (`xModule`)
names a git repository, a revision and a path; crossform keeps a clone of every
revision in use, evaluates the Jsonnet or CUE module found there against the
observed state, and answers Crossplane with the composed resources it wants.
This directory holds TLA+ models of that program, the TLC configurations that
check them, and proofs checked by TLAPS. Paths are relative to the repository.

## 1. The system

| Component | State | Operations | Talks to |
|---|---|---|---|
| **Repo** `pkg/repo/repo.go`, `status.go` | clone under `config.Path`, `Status`, `Locker` (RWMutex), `stop` (unbuffered channel) | `worker`/`work`: `init`, `checkUpdates`, `update`; `Execute`; `Destroy` | git server; Executor; RepoManager |
| **RepoManager** `pkg/RepoManager/repoManager.go` | `repos`, `uses`, channels `ConfigUpdates` and `ConfigDeletes`, directory `./repos` | `worker`, `GetRepo`, `Execute` | informer (channels), handlers, Repo |
| **Informer** `main.go` 24-80 | store of the modules | `AddFunc`, `UpdateFunc`, `DeleteFunc` | API server; RepoManager |
| **Config** `pkg/repo/config.go` | url, revision, `Hash`, `Path` | `NewConfig`, `GetSecretData`, and `getAuth` of Repo | API server (secrets) |
| **RunFunction** `pkg/crossplane/function.go` | none between calls | one gRPC handler | Crossplane; RepoManager; `Status` of a Repo, read without its lock |
| **Report** `pkg/crossplane/report.go` | none | `newReport` | status of the composite resource |
| **Executor** `pkg/executor/` | `ExecResult` of one call | `Exec`, `execFile`, Jsonnet and CUE back ends | files of the clone; `lib.jsonnet`, `lib.cue` |
| **Proxy function** `pkg/crossplane/proxy-function.go` | map of connections | one gRPC handler | the repository server named in the spec |
| Process, chart, health check | - | start, probes; XRD; `health.lua` in `tower/argo/main.tf` | - |

An event of the informer goes through a channel to the goroutine of RepoManager,
which starts a Repo for the first use of a revision, counts further uses, and
destroys the Repo with the last one. Each Repo has a goroutine of its own that
pulls every 30 seconds. A gRPC handler looks the Repo up, evaluates under its
read lock, and builds an answer that Crossplane applies: a composed resource
that is not in it is deleted.

What is hard here:

* a clone shared by a writer, several readers and the call that removes it;
* two channels whose order the receiver chooses, bounded, filled by an event
  handler that blocks; use counts that have to survive all of that;
* a handler that still holds a Repo while it is destroyed and replaced, or that
  looks it up a second time and finds another one;
* failures half way: a clone without its checkout, a pull that is refused or that
  stops between HEAD and the files, a directory that cannot be removed, a panic
  that ends the process;
* an answer assembled file by file in random order, in several rounds, in which
  anything left out is deleted;
* a status read field by field without the lock its writer holds;
* secrets edited while the passes of a Repo read them again and again;
* manifests that are merged into what was observed, so that what one
  reconciliation applies is the input of the next;
* in the proxy, a map that handlers share without a lock.

Per component, what makes it correct: a Repo evaluates one state of its files at
a time, which is the commit it publishes unless an update broke off, follows its revision, and is silent once destroyed. RepoManager
keeps a running Repo for each revision in use and never two in one directory. The
function never lets an incomplete or broken evaluation delete anything, and does
not claim health it does not have. PROJECT.json lists the hazards line by line
with the properties aimed at each.

## 2. The modules

| Module | Models | Kind |
|---|---|---|
| `Snapshots` | what a Repo promises to its callers | abstract specification |
| `Repo` | one Repo, its goroutine, `Execute`, `Destroy`, the git server | component, refines `Snapshots` |
| `RepoProofs` | theorems about `Repo` | proofs |
| `Answers` | the report on its repository in the status of a composite resource | composes `Repo` with handlers of RunFunction |
| `AnswersProofs` | theorems about `Answers`, on top of `RepoProofs` | proofs |
| `Credentials` | `GetSecretData` and `getAuth` under edited secrets, with the end of the process | component |
| `CredentialsProofs` | theorems about `Credentials` | proofs |
| `Registry` | what RepoManager promises to those who evaluate | abstract specification |
| `RepoManager` | informer, RepoManager, life of many Repos, handlers, restart | component, refines `Registry` |
| `RepoManagerProofs` | theorems about `RepoManager`, the refinement of `Registry` among them | proofs |
| `AccountingProofs` | the balance of uses of `RepoManager`, on top of `RepoManagerProofs` | proofs |
| `RunFunction` | RunFunction, Exec and the report for one composite resource, with Crossplane around them | component |
| `RunFunctionProofs` | theorems about `RunFunction` | proofs |
| `Rendering` | manifests of composed resources, from the library to server-side apply | component |
| `RenderingProofs` | theorems about `Rendering` | proofs |
| `Proxy` | the proxy function and its connections | component |
| `ProxyProofs` | theorems about `Proxy` | proofs |
| `MC...` | constants of the small instances | for TLC |

Definitions keep the names of the code. "Faulty variant" marks an operator that
no specification uses: it is the definition after it with a plausible bug, kept
to confirm that the property aimed at that bug notices it (section 5).

### Repo

`worker` is the program counter of `worker()`/`work()`; its values are the places
where another goroutine can come between:
`select -> lock -> drain -> init | check (-> list) -> no updates | check failed |
update -> publish -> sleep`. `destroy` and `exec[c]` are those of `Destroy` and of
each `Execute`. `mutex` is the writer that has announced itself on `Locker`:
from then on new readers are `blocked`, and the writer gets in when the readers
inside have left (`drain`), as in `sync.RWMutex`. `stop` has no variable: a send on an
unbuffered channel is one step of both goroutines (`TakeStop`).

`remote` is the commit the revision names on the server, `fetched` the one it names inside the
clone. Of the clone itself there are three variables, because a failure parts them: `clone`
is the commit of HEAD, `index` the one whose files git believes to be there, `tree` the
commits the files are really of. `head` tells whether HEAD holds a commit or the tag object
of an annotated tag. `config.kind` tells a commit, a branch, a lightweight tag and an annotated
tag apart, because `checkUpdates` does; `private` matters because tags are fetched without
credentials. `Configs` is the set of configurations an instance looks at.
`files[c]` collects the states of the tree that an evaluation has read: once when it begins
and once when it ends, enough to see two states in one evaluation. The messages of `Status`
keep only the name of the call that failed; `Revision` in Status is constant and left out.

`Fault` is a call of git or of the file system that fails. A clone that fails
cleans up after itself (go-git does); everything that fails after the clone
leaves it. go-git's Pull and Checkout move HEAD first, then write the index, then the
files, so that `update()` fails in one of three ways: before HEAD has moved, perhaps after
the second fetch (`UpdateFails`); after it, with HEAD alone moved, or the index and none, some
or all of the files (`UpdateInterrupted`); or because an earlier interruption has left files
that differ from the index, which git refuses as unstaged changes once HEAD has moved
(`UpdateRefused`). A tree whose differing files are not in the index is let through and
stays mixed (`CheckedOut`). `Pull` refuses what is not a fast forward; if the server
has gone back to HEAD since the check, its own fetch has moved a reference, and it
succeeds.

A fetch without a refspec for it moves a tag only if the server sends the object: `object` is
`"withheld"` for an annotated tag that was put on a commit the clone already has, and for
a tag on a commit of no branch. Then `fetched` stays as it is, whatever `ListTags` finds.

### Snapshots

One version, and for each caller what it is doing and which version it has seen.
Versions change only while nobody evaluates. `Repo` maps `version` to the working tree of
an initialised Repo (a set of commits, of one element unless an update broke off) and `seen` to
the one state the caller has read, and implements the specification (`ImplementsSnapshots`).

### RepoManager

`modules` is the API server, `known` the informer's store: `Deliver` may skip
versions. `sending` are the sends the event handler still has to make, in order, each blocking on
a full channel. `worker()` chooses freely between its channels (`TakeUpdate`,
`TakeDelete`); `Create`, `Destroyed` and `Remove` are steps of their own because
`NewRepo`, the wait inside `Destroy`, and the writes of the maps are. A Repo is its
revision and a number, so that a handler can hold an old one. Of its inside,
only what `Repo` shows is kept: running, initialised, the clone in its directory,
the lock held by `Destroy`, and the hang found there (`DestroyHangs`, which the
code makes possible at any `Destroy` of a running Repo). `Restart` stands for a
deleted pod, a concurrent map access that aborts the process, and every panic
named in the hazards: all memory and `./repos` are lost, the cluster is not.

### Registry

Each revision is served by at most one Repo, numbered in the order they are made;
calls evaluate in the Repo that serves; a Repo is given up only while nobody evaluates in it,
and never comes back. In `RepoManager` a Repo serves from `NewRepo` until `Destroy` has
ended its goroutine, a step before it leaves the map: a handler may still find
it there, but it refuses. `ImplementsRegistry` says that channels, counts, failing
removals and restarts show no more than this to a caller.

### Answers

`Answers` extends `Repo`: its actions are conjoined with the memory a reader without
`Locker` sees. Where `Repo` assigns several fields of `Status` in one step, `pending` holds
them and `Assign` makes them visible one by one in the order of the code, a string in two
halves (a pointer and a length); `ReplaceObject` is the assignment of a new object in
`Destroy`. While fields are pending the other goroutines of `Repo` wait, which
loses nothing: the writer has `Locker`. `handler[c]` goes through `Execute`, the second
lookup of the Repo, and the four reads (`ok` is two of them, the second only if the
first is true). A mixture of two hashes is one of them, as they have one length; a
mixture of two texts, or of a hash and the word "UnInitialized", is `"torn"`.

`Unlist` takes the destroyed Repo out of the map; `Recreate` is a new one for the same url and
revision, over what is left of the directory. A handler that holds the first one is `stale[c]`
from then on, is refused, and reads the new `Status` that `Destroy` has left there; if its second lookup
comes after `Recreate` it reads the second Repo, and `another[c]` remembers that. Without a Repo
in the map the report of an earlier call stays (`"kept"`). `report` is what the present call has
written. `rendered[c]` is the commit that was evaluated, `"parted"` if the tree was not that of HEAD.

### Credentials

A pass asks `getAuth` before it clones, fetches a branch or pulls; a tag is fetched and listed
without credentials (repo.go:279, 289), a commit never. `GitCalls` are the calls that present
something, anonymous ones included. `AuthError` and `NilAuth` are the table of outcomes over the
scheme and the first secret whose repository is the url; `NilAuth` is the case in which
`auth.Name()` is called on a nil interface (repo.go:135) and the process ends. `Edit`
changes a secret between any two steps. Locking and commits are `Repo`'s and left out.

### RunFunction

A module is a set of fields with a file, a type and an id; at each call every
field evaluates to anything its type allows (`outcome`), because the expressions
are the author's. `ExecFile`, `RequestMore` and `Duplicated` are one iteration of the
loop of `Exec`, for any file not yet executed: all orders. `result` is `ExecResult`
with ids for values; `desired` tells a new manifest from a copy of the observed one.
`Answer` and `Respond` are the rest of `RunFunction`. Crossplane is external, modelled
from what the handler relies on: a call is repeated with the extra resources
asked for until the requirements are stable, within `MaxRounds`, and the stable
answer is applied (`Apply`). `CallFails` is any call without an answer: the early
Fatal returns, and the end of the process. `NewReport` is `newReport`: for each
kind of field a map in which errors overwrite what was written before, and a kept
resource its DEFERRED. Versions in `CueVersions` are written in CUE: their inputs are
never validated (cueExecutor.go:241), and with a second file the process ends
(`CuePanics`, cueExecutor.go:89).

### Rendering

A manifest is the set of its fields, of its metadata by the way `RunFunction` treats it
(`"server"` stands for managedFields, uid and the like, `"crossplane.io/"` for labels and
annotations with that prefix), and of what is in its status. `Manifest`, `Deferred` and
`Ready` are `resource()` of lib.jsonnet, `Result` what `Exec` keeps, `Clean` the deletions in
`RunFunction`, which skip a manifest without metadata. The module's object may give metadata, leave
it out, or set it to null, which removes what was observed (`metadata` of an entry). `Injected` adds the connection details to the observed status, as
`NewExecutor` does in place. Any subset of the resources may fail in a call, and
a call may be frozen by a critical error. Server-side apply, controllers and pushes
are external (`Applied`, `Control`, `Push`).

### Proxy

`pc[h]` walks through `RunFunction`: nil test, `make`, lookup, dial, store, call. Between any
two accesses of the map another handler may come. `Abort` is the runtime's "concurrent
map writes", which may end the process when a write meets another access, and
may go unnoticed.

## 3. The runs

| Run | Question | Instance | Result |
|---|---|---|---|
| `repo_safety` | does an evaluation ever see the clone change, is it the published commit, and does the Repo refine `Snapshots`? | 2 callers, 3 commits (a branch and a forced push), 8 configurations, 2 moves, 2 faults | holds, about 2 470 000 states |
| `repo_liveness` | does a Repo converge, and does everybody return? | 1 caller, 2 commits, 5 configurations, 2 moves, 2 faults | holds, about 270 000 states |
| `repo_destroy` | does `Destroy` return? | 1 caller, no moves, no faults | violated: finding 1 |
| `repo_failedcheck` | is a failed check visible? | 1 fault | violated: finding 2 |
| `repomanager_safety` | do the uses add up, is every module served, is a directory ever shared, is `Registry` implemented? | 2 modules, 2 revisions, 1 handler, channels of 2, 3 changes, 1 fault, 1 restart | holds, about 930 000 states |
| `repomanager_liveness` | is every module served in the end, does the handler of events ever block for good? | channels of 1, 1 change, 1 fault, 1 restart | holds |
| `runfunction_safety` | does a broken, incomplete or reordered execution delete or hide anything? | modules of 1 and 2 files, Jsonnet and CUE, with resources, requests, output, input, one id twice in a file and across files; 3 rounds, 1 push, 1 loss | holds, about 1 000 000 states |
| `answers` | is what a handler reports of its repository true? | 1 composite resource, a branch, 2 commits, 1 move, 1 fault, `Destroy` and replacement | holds, about 1 430 000 states |
| `credentials` | which secret is presented, and when does the process end? | 2 secrets of 9 kinds, all schemes and kinds of revision, 2 edits, 1 fault | holds, about 110 000 states |
| `rendering` | what comes of merging, keeping and cleaning over several reconciliations? | 3 resources, 2 fields, 4 versions, 2 pushes, 3 changes by others | holds, about 1 110 000 states |
| `rendering_dependon` | may `dependOn` be a resource? | the same without pushes and changes | violated: finding 3 |
| `proxy` | do the races on the map end? | 3 handlers, 2 servers, 1 abort | holds, about 2 130 000 states |

Properties, by what they say:

* **Repo.** `AtomicRender`: an evaluation reads one state of the tree, never one that is
  being written or removed. `RenderedIsPublished`: it is the commit of `Status.CommitSha`,
  unless the last update is reported as failed or an interrupted one has left tree
  and HEAD apart. `NoWorkAfterDestroy`: nothing is written
  after `Destroy` has returned. `LeftoverIsFinal`: an initialisation that failed after
  its clone is final (a weakness of the code that other properties have to
  reckon with, stated as it is). `Converges`: HEAD and `Status` arrive at a revision that can be
  followed, whatever failed, broke off or was refused before; `Followable` says which
  revisions cannot: branches that do not move forward, private tags, tags whose object is
  withheld. `InitialisesUnlessLeftover`, `ExecuteReturns`,
  `DestroyReturnsUnlessTrapped`: progress, each with the exact exception.
* **RepoManager.** `Accounting`: counted and announced uses are the users, plus one for
  each delete that came too early. So a use may be leaked, never lost.
  `ServedWhenQuiet`: with nothing pending, each known module has a running Repo.
  `OneRepoPerDirectory`, `EvaluatesTheCurrentRepo`: a stale handler never evaluates
  in a directory that another Repo's lock protects. `ModulesAreServed`,
  `HandlerReturns`, `CallsReturn`: progress unless a `Destroy` hangs.
* **RunFunction.** `IncompleteIsNotApplied`, `KeepsDeclared`, `BrokenChangesNothing`,
  `OutputsStay`, `HealthyIsComplete`. Two of them name an exception, `Forgotten`: the
  list of deferred resources is assigned per file (executor.go:196), so those
  of earlier files are lost. `DuplicatesAreFatal`: files that claim one resource come to no answer that
  changes anything; fields of one file may.
* **Registry and Answers.** `ImplementsRegistry` as above. `UndisturbedReportIsTrue`: with
  no pass and no `Destroy` between, the text fits `ok`, and a report that says ok names the
  rendered commit, if the tree was that of one. `OkNamesACommit`: however the reads are spread over passes,
  over `Destroy` (it rests on the assignment of a whole object there) and over a replacement,
  `ok` does not come without a commit, unless the second lookup has found the replacement:
  that one raises both flags before it has a commit (repo.go:393-396), and such a report says ok
  with "UnInitialized". Without the exceptions TLC refutes both. `ReportConverges`: mixed reads and
  old failures leave no trace.
* **Credentials.** `PresentsOneSecret`: what is presented is of one secret and of the kind the
  scheme asks for; a clone, a pull and the fetch of a branch are anonymous only if no secret names the
  repository, the fetch and list of a tag always are. `Recovers`: secrets that
  are right from some time on heal the Repo, crashes included. `CrashesAgain`: a
  secret of the wrong kind ends the process for ever, and for all other Repos in it.
* **RunFunction.** `ReportHidesNothing`: each failing field of an applied answer reads
  ERROR (unless its output kept the published value), each deferred one DEFERRED
  (unless it exists: then OK), and neither appears when `hasErrors` is false.
* **Rendering.** `ManifestsAreClean`: no server metadata is sent back, and a status with its connection
  details only in a manifest whose metadata the module sets to null. `ReadyIsObserved`: no
  readiness from kept manifests or earlier calls. `FieldsStay` states what the library
  does, not what one would wish: a field dropped from the module is never removed.
* **Proxy.** `SettledIsKept`: after the races of the first calls each server keeps one
  connection.

### Bounds

A constant bounds every counter. Two moves of the remote give a push followed
by a forced push, or a deletion and a return; two faults let one call fail in two
passes or two different calls fail. Three commits hold every fast-forward relation two
pushes can have; the liveness run has two, of which going back is the forced push, and five of the eight
`Configs`: `private` matters to tags alone, and to both kinds alike. Two faults also let an update be
interrupted and the next one be interrupted or refused. Two callers are the least that shows one reader leaving while another
stays; the lock treats callers alike, hence the symmetry. Two modules and two
revisions give sharing and moving; three changes let a module leave and come back
while another one moves. Channels of one or two elements are full often, which
10000 never are. Two files suffice for order (each property of a result is about one id,
which at most two files touch before the execution is fatal), three rounds for
requirements that change once and settle. The liveness runs use smaller bounds and no symmetry.
One handler suffices in `Answers`: handlers share nothing but the Repo, which reads of
`Status` do not change. One move and one fault give it a pass that succeeds and one that
fails or is interrupted on either side of each read, and `Configs` has the branch alone:
a handler sees `Status`, not what it is that was pulled or checked out. In `Credentials` two secrets are the least among which
the first match matters, and two edits replace a good secret by a bad one and back. In
`Rendering` two pushes drop a field and bring it back, three changes make two
conditions true and disturb a field. Three handlers in `Proxy` let one dial, one store and one
throw the map away.
`RepoManager` is checked without deadlock checking: a cluster that stays
as it is leaves it nothing to do, and `Stuck` is a state the code really has; and so are
`Repo` and `Answers`, where all callers may be caught in the deadlock of finding 1 with no move
of the remote left. All others check deadlock.

### Fairness

Go runs every goroutine that can run, and a git call or an evaluation ends: weak
fairness of `Worker`, `Destroy`, `Evaluate`. A waiting `Lock()` is not passed over for
ever by a goroutine that locks again, because `sync.Mutex` hands itself to a
waiter that has waited for a millisecond: strong fairness of `DestroyLock`. The
`select` of RepoManager picks at random among ready channels: strong fairness of
`TakeUpdate` and `TakeDelete`. Nothing obliges anybody to call, to push or to
restart. `Answers` adds that a handler that runs goes on and that assignments become
visible; `ReportConverges` assumes of Crossplane, in its premise, that it reconciles again and
again. `Credentials` adds the kubelet, which restarts a container that has ended.
No fairness is assumed of faults or edits. "A running Repo clones" in RepoManager
stands for its retries.

## 4. What is proved

Every invariant, action property and refinement that a passing run checks is also a
theorem about its specification: it holds for all values of the constants, of which only the
named assumptions of each module are used (`RepoAssumption` and its like: bounds are
numbers, histories and modules have the shape their comments say).

| Module | Theorem | Property |
|---|---|---|
| `RepoProofs` | `TypeCorrect`, `Inductive` | `TypeOK`, `IInv` |
| | `EvaluationIsAtomic` | `AtomicRender` |
| | `EvaluatedIsPublished` | `RenderedIsPublished` |
| | `DestroyIsFinal` | `NoWorkAfterDestroy` |
| | `FailedInitIsFinal` | `LeftoverIsFinal` |
| | `RepoImplementsSnapshots` | `ImplementsSnapshots` |
| `RepoManagerProofs` | `TypeCorrect` | `TypeOK` |
| | `DirectoriesAreNotShared` | `OneRepoPerDirectory` |
| | `EvaluationsAreCurrent` | `EvaluatesTheCurrentRepo` |
| | `RepoManagerImplementsRegistry` | `ImplementsRegistry` |
| `AccountingProofs` | `UsesAreAccounted` | `Accounting` |
| | `KnownModulesAreServed` | `ServedWhenQuiet` |
| `RunFunctionProofs` | `TypeCorrect` | `TypeOK` |
| | `IncompleteExecutionsWait` | `IncompleteIsNotApplied` |
| | `DeclaredIsKept` | `KeepsDeclared` |
| | `BrokenIsFrozen` | `BrokenChangesNothing` |
| | `PublishedOutputsStay` | `OutputsStay` |
| | `HealthTellsTheTruth` | `HealthyIsComplete` |
| | `ReportIsHonest` | `ReportHidesNothing` |
| | `DuplicatesEnd` | `DuplicatesAreFatal` |
| `AnswersProofs` | `AnswersTypeCorrect` | `AnswersTypeOK` |
| | `UndisturbedReportsAreTrue` | `UndisturbedReportIsTrue` |
| | `OkReportsNameACommit` | `OkNamesACommit` |
| `CredentialsProofs` | `TypeCorrect` | `TypeOK` |
| | `OneSecretIsPresented` | `PresentsOneSecret` |
| `RenderingProofs` | `AnswersAreClean` | `ManifestsAreClean` |
| | `ReadinessIsObserved` | `ReadyIsObserved` |
| | `ObservedFieldsStay` | `FieldsStay` |
| `ProxyProofs` | `SettledStays` | `SettledIsKept` |

Each proof has the same plan: an inductive invariant in named parts, its types first; one step
per action; the properties from the invariant, action properties from it and one step.
The invariants were checked by TLC on the instances of section 3 before they were proved.

### Repo

`AtomicRender` is not inductive: a reader inside while the worker rewrites the clone
satisfies it for one more step. `IInv` adds the four reasons why that never
happens. `LockInv` ties the program counters to `mutex`: whoever is inside as a writer
is alone. `StopInv`: the worker has ended exactly when `Destroy` has handed it the
message, so nothing runs behind `Destroy`. `StatusInv`: an initialised Repo has a clone with files
in it and, while its last update is not reported as failed, publishes the commit of HEAD outside a pass; an
interrupted update clears the flag before it unlocks. `FilesInv`: a reader inside has read the tree of this moment, so
that `RenderedIsPublished` follows where tree and HEAD agree.
`InvsStep` shows these preserved with one step per action of the code, `AtomicRenderStep`
adds the files, `Step` combines them. The action properties follow from the
invariant and one step. The refinement (`RefinementStep`) maps each action: a pass
stutters or is `NewVersion`, which needs `NoReaders` from `LockInv`
(`VersionNeedsLock`); `Execute` is `Call`, the rest `Refuse`, `Begin` and `End`.

### RepoManager

None of its properties is inductive: nothing in them says that a Repo that runs is in the map.
`WorkerInv` says what the goroutine of RepoManager is in the middle of: a revision being
created has no Repo yet, one being destroyed has its last use. `TablesInv`: a revision has a
use exactly when it has a Repo, because both maps are written by that goroutine only.
`InstancesInv`: nothing runs but what is in the map, and everything there runs but the Repo
being removed, whose goroutine has ended. `CallsInv`: a call evaluates in a Repo that is
initialised, however long ago it has looked it up. `OneRepoPerDirectory` is then the fact that
the map has one Repo for a revision, and `EvaluatesTheCurrentRepo` follows from `InstancesInv`
and `CallsInv`.

In the refinement `Create` is `Serve`, `Destroyed` is `GiveUp` (its guard, that nobody evaluates,
is the lock `Destroy` takes), `Clone` is `Prepared` or a stutter, `Evaluate` is `Begin`,
`Return` is `End` and `Restart` is `Restart`. Channels, counts, lookups, removals and the
informer stutter.

`Accounting` is an equation between cardinalities, one for each revision: messages under way
and in the channels, uses, modules known, deletes dropped. `AccountingProofs` counts places in
sequences and in the informer's store: a send or a receive moves one
from a place to another, hearing of a module changes the store by at most one for the
old and one for the new revision (`CountEvent`, `CountUsers`), and `AccountingIsBalance` turns
the equation into one between numbers. `ServedWhenQuiet` needs it: with nothing under way a
module's revision has at least one use, so that by `TablesInv` and `InstancesInv` it has a Repo
that runs.

### RunFunction

Files are executed in any order, each adding to `result` what the answer will be made of. The
invariant says what the answer owes to each field. `BeginningInv`: before the first file
there is nothing. `ExecutionInv`: a field whose file has been executed is entered in the result
as its outcome requires (`Entered`; `Validated` for inputs), nothing that later files do takes it
away, and an execution that lacks a requested resource asks for more than it was given, which is
why `IncompleteIsNotApplied`. `AnsweredInv`: an answer is fatal for exactly the
named reasons, a fatal one is `Frozen`, and the report is the one on the result, so that
`ReportHidesNothing` becomes a lemma about `newReport` and its order of overwriting. `Distinct` says
that two files executed so far have claimed no resource together: what the first one claimed is
desired (`Entered`), and that is what `Duplicates` compares the second one with.

### Answers

Every step of `Answers` but `Recreate` is one of `Repo` or leaves the Repo alone, so that the invariant
of `RepoProofs` is preserved; `RecreateKeepsIInv` shows that a Repo made over what a removal has left
satisfies it as well. `MemoryInv`: a reader without the lock sees `Status`, but for the
fields still pending, and `Destroy` leaves none pending; it rests on `AssignmentsCover`, that no
changed field is missing from the assignments of a pass. `HandlerInv`: a handler evaluates exactly
while its `Execute` runs. `ShaInv`: once a Repo has been evaluated, neither `Status` nor the
memory is without a commit until `Destroy` returns; a handler that has begun before and is not `another` is not
concerned by what a replacement does. `UndisturbedInv`: while nothing
becomes visible, the memory is that of the evaluation, and the report a copy of it
as far as the reads have gone; at the beginning of an evaluation that is true because readers
keep passes out (`LockInv` and `StatusInv` of `Repo`, and `StatusAgrees`). `NamedInv`: a report
without a commit was read after `Destroy`, or from the replaced Repo, and then its `ok` will be false, as the
commit is read before the flags.

### Credentials

The type is inductive, and with it `TagInv`: on the way to a tag `auth` is anonymous. `PresentsOneSecret` is about
single steps: `WhoPresents` lists the steps into a git call, only `GetAuth` of them presents a secret, and
what its checks leave of a secret is of the kind of the scheme (`SecretFitsScheme`). That
`FirstMatch` is a match with none before it is a lemma about `SelectInSeq`, from
the well-foundedness of the order of numbers.

### Rendering

The invariant is the type of the manifests, `ManifestsAreClean` itself, and `Given`: an answer
not yet applied holds every field its call has observed, but for the nulls of a version that
cannot change before it is applied. `ResultKeepsFields` shows this of all ways a manifest is
made, rendered, kept or deferred; `AppliedKeepsFields` that applying it keeps what it holds,
whatever controllers have done since. `ExistInv` says that what exists and what a call has observed has
metadata, so that a kept manifest is never one of those the cleaning skips.

### Proxy

What could break it is a handler that turns to
`Make`, which replaces the map. It does so only on finding the map nil, and the invariant
says that a nil map holds no connection, so no server is settled then; nobody
looks up or stores before the map is made.

### What is not proved

All liveness (`Converges`, `InitialisesUnlessLeftover`, `ExecuteReturns`,
`DestroyReturnsUnlessTrapped`, `ModulesAreServed`, `HandlerReturns`, `CallsReturn`, `ReportConverges`,
`Recovers`, `CrashesAgain`) is model-checked only: weak and strong fairness need
ENABLED, which the provers used here do not handle. The violations are counterexamples
of TLC. The modules hold no RECURSIVE operator, so that all of them can be proved about;
`Assignments` is a concatenation rather than a filter over a sequence for the same reason.

## 5. The faulty variants

For each property of a passing run PROJECT.json names one variant that breaks it.
They are bugs somebody could write: a pass that takes the lock as a reader, a
`Destroy` that does not wait for the worker or keeps the old Status, an error path without
`Unlock`, an initialisation that accepts a leftover clone, a check that does not
fetch; an update event that forgets the old revision, a use count that is ignored
or decremented for an unknown revision, a `Destroy` that leaves the goroutine running;
requests, failing resources or failing outputs left out of the answer, a partial
answer after a critical error, an error left out of `hasErrors`, duplicates looked up among
requests only, a report that writes errors first; a `Destroy` that does not wait for evaluations or clears `Status` in place, a commit
published once; the last matching secret for the first, an error of `getAuth` taken
for "no credentials", `||` for `&&`; a cleaning that skips kept manifests, a readiness that
ignores `Synced`, a merge without its base; a proxy that always dials.

## 6. Findings

1. **`Destroy` can deadlock** (repo.go:440). It sends on `stop` while holding
   `Locker`; a worker that has polled `stop` and waits for `Locker` never
   receives. With it wait the goroutine of RepoManager, every `Execute` of the Repo,
   and in the end the informer. Run `repo_destroy`; everything else is checked
   with that exception spelled out (`Trapped`, `Stuck`).
2. **A failed check is reported as success** (repo.go:402-427). The error branch does
   not return, the `else` branch overwrites it. The health check
   (tower/argo/main.tf:375) never sees it.
3. **`dependOn` cannot be a resource** (lib.jsonnet:15), though the assertion of `isReady` asks for "one
   resource or array of resources" (lib.jsonnet:22): `conditionsTrue` wants an id, and fails. Run
   `rendering_dependon`.

Further observations; the properties in parentheses state the behaviour as it is:

* An annotated tag that is moved to a commit the clone already has never moves there: each pass
  checks the old one out again and says "Update success" (`Fetch`, `Followable`).
* A Pull or Checkout that fails after it has moved HEAD leaves files of the old commit, or of both. The next
  pass compares the server with HEAD and says "No updates", ok and the new commit (repo.go:411-426), and modules
  are evaluated from the files as they are. Later updates do not repair them: git refuses them as unstaged
  changes, after it has moved HEAD (`UpdateInterrupted`, `UpdateRefused`, `RenderedIsPublished`).
* Two fields of one file with the same id are not fatal, as the message at executor.go:219 says of duplicates:
  the later one overwrites the earlier one in execFile (executor.go:403, `DuplicatesAreFatal`).
* The fetch and the list of a tag pass no credentials, although the clone did: the tags of a private
  repository are never followed, behind finding 2 (`PresentsOneSecret`, `Refused`).
* A report read from a Repo that has just replaced the evaluated one may say ok with the commit
  "UnInitialized" (`another` in `OkNamesACommit`).
* A manifest whose metadata the module sets to null is sent back with the observed status and the
  connection details (`ManifestsAreClean`).
* `deferred` of lib.jsonnet is `isReady(dependOn)`, not its negation (`Deferred`).
* A field the module no longer has is never removed (`FieldsStay`); finalizers are
  asserted to be a map (function.go:137), are a list, and stay in what is sent back.
* Secrets of the wrong kind, and any scheme but ssh, http and https, end the process of all
  Repos (`CrashesAgain`). config.go:83 repeats the condition of config.go:80, so that its
  message is never given and an empty password is accepted.
* Only the deferred resources of the last file are kept (`Forgotten`); one that was kept
  reads OK in the report (`ReportHidesNothing`).
* A CUE module of two files ends the process (cueExecutor.go:89), and CUE inputs are
  never validated. In lib.cue, the id of `#output` is `id: id`, a reference to itself.

## 7. Not modelled

* **External code:** the Jsonnet and CUE engines, go-git, client-go, gRPC and Crossplane appear
  as what this code relies on. lib.cue has no model of its own, because it
  means what unification in CUE makes of it; nor has the choice of fields and hidden
  fields in cueExecutor.go.
* **Data and wording:** JSON, YAML and protobuf conversions, the parsing of urls, JSON
  schemas, texts of errors and logs.
* **Never called:** `RepoManager.Destroy` (its send on a nil channel would block
  forever) and `writeTestData`.
* **Hash:** url and revision are concatenated without a separator; RepoManager assumes
  that revisions do not collide, and PROJECT.json lists the hazard. It is about strings, not steps.
* **Process:** start-up, probes that always answer ok, logger, chart, infrastructure. They have no state
  beyond `Init` and `Restart`.
* **Between the models:** `RunFunction` takes from `Repo` that an evaluation sees one version (proved as
  `EvaluationIsAtomic`), `RepoManager` that a Repo runs, is initialised, excludes
  `Destroy` from evaluations and may hang in it. `Credentials` stands beside `Repo`: its
  failing `getAuth` is a fault there, its panic a `Restart` of `RepoManager`. `Answers` has one Repo after the
  other in one set of variables, so that of a replaced Repo it keeps only what a handler can still see.

## 8. Plan

The modules of the system's own logic are written, and their safety properties are proved.
What could still be added, in this order:

1. A second look at the interfaces: `RunFunction` and `RepoManager` take from `Repo` what
   section 7 says; a specification that composes `Repo` with `Registry`
   would replace that by a refinement.
2. More facts about single components that only runs have covered so far: that a hang of
   `Destroy` is the only state in which `RepoManager` stops (the shape of `Stuck`), that a
   `Trapped` Repo stays so.
3. The validation of inputs and the requirements over several rounds in more detail.

## 9. Running

    tlc -config Repo_safety.cfg MCRepo
    tlc -config RepoManager_safety.cfg MCRepoManager
    tlc -config RunFunction_safety.cfg MCRunFunction
    tlc -config Answers.cfg MCAnswers
    tlc -config Credentials.cfg MCCredentials
    tlc -config Rendering.cfg MCRendering
    tlc -config Proxy.cfg Proxy
    tlapm RepoProofs.tla
    tlapm RepoManagerProofs.tla
    tlapm AccountingProofs.tla
    tlapm RunFunctionProofs.tla
    tlapm AnswersProofs.tla
    tlapm CredentialsProofs.tla
    tlapm RenderingProofs.tla
    tlapm ProxyProofs.tla

On two cores `Repo_safety` and `Answers` take between one and two minutes, each of the other
runs less than one, the proofs
between some seconds and one minute a module.
