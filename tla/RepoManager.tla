----------------------------- MODULE RepoManager -----------------------------
(***************************************************************************)
(* The repository server of the process: the informer that watches the     *)
(* modules (main.go), the goroutine of RepoManager that creates, counts    *)
(* and destroys one Repo for each revision that modules use                *)
(* (pkg/RepoManager/repoManager.go), and the gRPC handlers that look a     *)
(* Repo up and evaluate a module in it.                                    *)
(*                                                                         *)
(* A revision stands for the Hash of a Config (url and revision), which    *)
(* also names the directory of its clone.  Of the inside of a Repo only    *)
(* what Repo.tla shows is kept: whether its goroutine runs, whether it is  *)
(* initialised, that it evaluates under its lock, that Destroy may hang.   *)
(***************************************************************************)
EXTENDS Naturals, Sequences, FiniteSets

CONSTANTS
  Modules,      \* composite resources of kind xModule
  Hashes,       \* revisions of repositories
  NoHash,       \* there is no such module
  Callers,      \* gRPC handlers
  Capacity,     \* of each of the two channels (10000 in the code)
  MaxChanges,   \* bound on the changes of modules
  MaxFaults,    \* bound on failing file system and git calls
  MaxRestarts   \* bound on the restarts of the process

ASSUME RepoManagerAssumption ==
  /\ IsFiniteSet(Modules)
  /\ NoHash \notin Hashes
  /\ Capacity \in Nat \ {0}
  /\ MaxChanges \in Nat /\ MaxFaults \in Nat /\ MaxRestarts \in Nat

VARIABLES
  modules,      \* revision of each module in the API server
  known,        \* revision of each module in the store of the informer
  sending,      \* sends the event handler has still to make, in order
  updates,      \* channel ConfigUpdates
  deletes,      \* channel ConfigDeletes
  worker,       \* program counter of worker()
  target,       \* revision worker() is busy with
  repos,        \* m.repos: number of the Repo of each revision, 0 for none
  uses,         \* m.uses, 0 for none
  made,         \* number of Repos made so far for each revision
  running,      \* Repos whose goroutine runs
  initialized,  \* Repos with Status.IsInitialized
  cloned,       \* revisions with a clone in their directory
  calls,        \* what each handler is doing, and with which Repo
  dropped,      \* deletes dropped with the warning "repository not found"
  changes, faults, restarts

cluster == <<modules, changes>>
informer == <<known, sending>>
channels == <<updates, deletes>>
tables == <<repos, uses, made, dropped>>
instances == <<running, initialized, cloned>>
bounds == <<faults, restarts>>
vars == <<cluster, informer, channels, worker, target, tables, instances, calls, bounds>>

-----------------------------------------------------------------------------
MaybeHash == Hashes \cup {NoHash}
NoRepo == 0

\* A Repo is known by its revision and its number.
Repo(h) == <<h, repos[h]>>

Idle == [at |-> "idle", repo |-> <<NoHash, NoRepo>>]

\* Destroy has called Lock() and keeps every new reader of the Repo out.
Locked(r) == worker \in {"destroying", "stuck"} /\ r = Repo(target)

NobodyEvaluates(r) == \A c \in Callers : ~(calls[c].at = "evaluating" /\ calls[c].repo = r)

Fault == faults < MaxFaults /\ faults' = faults + 1

-----------------------------------------------------------------------------
(***************************************************************************)
(* The cluster and the informer                                            *)
(***************************************************************************)
ChangeModule(m) ==
  /\ changes < MaxChanges /\ changes' = changes + 1
  /\ \E h \in MaybeHash \ {modules[m]} : modules' = [modules EXCEPT ![m] = h]
  /\ UNCHANGED <<informer, channels, worker, target, tables, instances, calls, bounds>>

Add(h) == [to |-> "ConfigUpdates", hash |-> h]
Delete(h) == [to |-> "ConfigDeletes", hash |-> h]

\* Faulty variant: UpdateFunc forgets the old revision.
EventOnlyNew(old, new) ==
  (IF old = NoHash \/ new # NoHash THEN <<>> ELSE <<Delete(old)>>)
    \o (IF new = NoHash THEN <<>> ELSE <<Add(new)>>)

\* AddFunc, UpdateFunc and DeleteFunc
Event(old, new) == (IF old = NoHash THEN <<>> ELSE <<Delete(old)>>)
                     \o (IF new = NoHash THEN <<>> ELSE <<Add(new)>>)

\* Events come one at a time, when the handler has returned.  The informer may
\* see several changes of a module as one (a watch that was interrupted).
Deliver(m) ==
  /\ sending = <<>> /\ known[m] # modules[m]
  /\ known' = [known EXCEPT ![m] = modules[m]]
  /\ sending' = Event(known[m], modules[m])
  /\ UNCHANGED <<cluster, channels, worker, target, tables, instances, calls, bounds>>

\* A send blocks the handler while the channel is full.
Send ==
  /\ sending # <<>> /\ sending' = Tail(sending)
  /\ \/ /\ Head(sending).to = "ConfigUpdates" /\ Len(updates) < Capacity
        /\ updates' = Append(updates, Head(sending).hash)
        /\ UNCHANGED deletes
     \/ /\ Head(sending).to = "ConfigDeletes" /\ Len(deletes) < Capacity
        /\ deletes' = Append(deletes, Head(sending).hash)
        /\ UNCHANGED updates
  /\ UNCHANGED <<cluster, known, worker, target, tables, instances, calls, bounds>>

-----------------------------------------------------------------------------
(***************************************************************************)
(* worker(): the select chooses freely between two channels that are not   *)
(* empty, so a delete may overtake an update sent before it, and the       *)
(* reverse.                                                                *)
(***************************************************************************)
\* Another module begins to use a revision that has a Repo.
CountUse ==
  /\ worker = "select" /\ updates # <<>> /\ repos[Head(updates)] # NoRepo
  /\ uses' = [uses EXCEPT ![Head(updates)] = @ + 1]
  /\ updates' = Tail(updates)
  /\ UNCHANGED <<cluster, informer, deletes, worker, target, repos, made, dropped,
                 instances, calls, bounds>>

BeginCreate ==
  /\ worker = "select" /\ updates # <<>> /\ repos[Head(updates)] = NoRepo
  /\ worker' = "creating" /\ target' = Head(updates)
  /\ updates' = Tail(updates)
  /\ UNCHANGED <<cluster, informer, deletes, tables, instances, calls, bounds>>

\* NewRepo starts the goroutine of the Repo; the maps are written unlocked.
Create ==
  /\ worker = "creating" /\ worker' = "select"
  /\ made' = [made EXCEPT ![target] = @ + 1]
  /\ repos' = [repos EXCEPT ![target] = made[target] + 1]
  /\ uses' = [uses EXCEPT ![target] = 1]
  /\ running' = running \cup {<<target, made[target] + 1>>}
  /\ UNCHANGED <<cluster, informer, channels, target, dropped, initialized, cloned, calls, bounds>>

\* The delete has overtaken the update that would have created the Repo.
DropDelete ==
  /\ worker = "select" /\ deletes # <<>> /\ repos[Head(deletes)] = NoRepo
  /\ dropped' = [dropped EXCEPT ![Head(deletes)] = @ + 1]
  /\ deletes' = Tail(deletes)
  /\ UNCHANGED <<cluster, informer, updates, worker, target, repos, uses, made,
                 instances, calls, bounds>>

\* Faulty variant: a delete of a revision without a Repo is counted too.
UncountUseUnknown ==
  /\ worker = "select" /\ deletes # <<>> /\ uses[Head(deletes)] # 1
  /\ uses' = [uses EXCEPT ![Head(deletes)] = @ - 1]
  /\ deletes' = Tail(deletes)
  /\ UNCHANGED <<cluster, informer, updates, worker, target, repos, made, dropped,
                 instances, calls, bounds>>

UncountUse ==
  /\ worker = "select" /\ deletes # <<>> /\ uses[Head(deletes)] > 1
  /\ uses' = [uses EXCEPT ![Head(deletes)] = @ - 1]
  /\ deletes' = Tail(deletes)
  /\ UNCHANGED <<cluster, informer, updates, worker, target, repos, made, dropped,
                 instances, calls, bounds>>

\* Faulty variant: the Repo is destroyed whatever the number of its uses.
BeginDestroyAlways ==
  /\ worker = "select" /\ deletes # <<>> /\ repos[Head(deletes)] # NoRepo
  /\ worker' = "destroying" /\ target' = Head(deletes)
  /\ deletes' = Tail(deletes)
  /\ UNCHANGED <<cluster, informer, updates, tables, instances, calls, bounds>>

\* The last use ends: Destroy is called and waits for the evaluations inside.
BeginDestroy ==
  /\ worker = "select" /\ deletes # <<>>
  /\ repos[Head(deletes)] # NoRepo /\ uses[Head(deletes)] <= 1
  /\ worker' = "destroying" /\ target' = Head(deletes)
  /\ deletes' = Tail(deletes)
  /\ UNCHANGED <<cluster, informer, updates, tables, instances, calls, bounds>>

\* Faulty variant: the destroyed Repo still says that it is initialised.
DestroyedInitialized ==
  /\ worker = "destroying" /\ NobodyEvaluates(Repo(target))
  /\ worker' = "removing"
  /\ running' = running \ {Repo(target)}
  /\ \/ cloned' = cloned \ {target} /\ UNCHANGED faults
     \/ Fault /\ UNCHANGED cloned
  /\ UNCHANGED <<cluster, informer, channels, target, tables, initialized, calls, restarts>>

\* Faulty variant: Destroy removes the clone and leaves the goroutine running.
DestroyedRunning ==
  /\ worker = "destroying" /\ NobodyEvaluates(Repo(target))
  /\ worker' = "removing"
  /\ initialized' = initialized \ {Repo(target)}
  /\ \/ cloned' = cloned \ {target} /\ UNCHANGED faults
     \/ Fault /\ UNCHANGED cloned
  /\ UNCHANGED <<cluster, informer, channels, target, tables, running, calls, restarts>>

\* Faulty variant: Destroy does not wait for the evaluations inside.
DestroyedAtOnce ==
  /\ worker = "destroying" /\ worker' = "removing"
  /\ running' = running \ {Repo(target)}
  /\ initialized' = initialized \ {Repo(target)}
  /\ \/ cloned' = cloned \ {target} /\ UNCHANGED faults
     \/ Fault /\ UNCHANGED cloned
  /\ UNCHANGED <<cluster, informer, channels, target, tables, calls, restarts>>

\* Faulty variant: an error of Destroy ends the goroutine.
DestroyedOrEnded ==
  /\ worker = "destroying" /\ NobodyEvaluates(Repo(target))
  /\ running' = running \ {Repo(target)}
  /\ initialized' = initialized \ {Repo(target)}
  /\ \/ worker' = "removing" /\ cloned' = cloned \ {target} /\ UNCHANGED faults
     \/ worker' = "ended" /\ Fault /\ UNCHANGED cloned
  /\ UNCHANGED <<cluster, informer, channels, target, tables, calls, restarts>>

\* The clone may be impossible to remove: the error is logged, nothing more.
Destroyed ==
  /\ worker = "destroying" /\ NobodyEvaluates(Repo(target))
  /\ worker' = "removing"
  /\ running' = running \ {Repo(target)}
  /\ initialized' = initialized \ {Repo(target)}
  /\ \/ cloned' = cloned \ {target} /\ UNCHANGED faults
     \/ Fault /\ UNCHANGED cloned
  /\ UNCHANGED <<cluster, informer, channels, target, tables, calls, restarts>>

\* The Repo has polled stop and waits for the lock Destroy holds: see Trapped
\* in Repo.tla.  This goroutine waits with them, for good.
DestroyHangs ==
  /\ worker = "destroying" /\ NobodyEvaluates(Repo(target))
  /\ Repo(target) \in running
  /\ worker' = "stuck"
  /\ UNCHANGED <<cluster, informer, channels, target, tables, instances, calls, bounds>>

Remove ==
  /\ worker = "removing" /\ worker' = "select"
  /\ repos' = [repos EXCEPT ![target] = NoRepo]
  /\ uses' = [uses EXCEPT ![target] = 0]
  /\ UNCHANGED <<cluster, informer, channels, target, made, dropped, instances, calls, bounds>>

-----------------------------------------------------------------------------
(***************************************************************************)
(* A running Repo (Repo.tla) clones its revision into the directory, which *)
(* has to be free.  An initialisation that fails later leaves the clone.   *)
(***************************************************************************)
Clone(r) ==
  /\ r \in running \ initialized /\ ~Locked(r) /\ r[1] \notin cloned
  /\ cloned' = cloned \cup {r[1]}
  /\ \/ initialized' = initialized \cup {r} /\ UNCHANGED faults
     \/ Fault /\ UNCHANGED initialized
  /\ UNCHANGED <<cluster, informer, channels, worker, target, tables, running, calls, restarts>>

-----------------------------------------------------------------------------
(***************************************************************************)
(* Execute(): GetRepo reads the map, then the Repo it found evaluates      *)
(***************************************************************************)
GetRepo(c) ==
  /\ calls[c].at = "idle"
  /\ \E h \in Hashes : calls' = [calls EXCEPT ![c] = [at |-> "reading", repo |-> <<h, NoRepo>>]]
  /\ UNCHANGED <<cluster, informer, channels, worker, target, tables, instances, bounds>>

NotFound(c) ==
  /\ calls[c].at = "reading" /\ repos[calls[c].repo[1]] = NoRepo
  /\ calls' = [calls EXCEPT ![c] = Idle]
  /\ UNCHANGED <<cluster, informer, channels, worker, target, tables, instances, bounds>>

Found(c) ==
  /\ calls[c].at = "reading" /\ repos[calls[c].repo[1]] # NoRepo
  /\ calls' = [calls EXCEPT ![c] = [at |-> "holding", repo |-> Repo(@.repo[1])]]
  /\ UNCHANGED <<cluster, informer, channels, worker, target, tables, instances, bounds>>

\* Faulty variant: a call waits until its Repo is initialised.
RefuseDestroyed(c) ==
  /\ calls[c].at = "holding" /\ ~Locked(calls[c].repo)
  /\ calls[c].repo \notin running
  /\ calls' = [calls EXCEPT ![c] = Idle]
  /\ UNCHANGED <<cluster, informer, channels, worker, target, tables, instances, bounds>>

Refuse(c) ==
  /\ calls[c].at = "holding" /\ ~Locked(calls[c].repo)
  /\ calls[c].repo \notin initialized
  /\ calls' = [calls EXCEPT ![c] = Idle]
  /\ UNCHANGED <<cluster, informer, channels, worker, target, tables, instances, bounds>>

Evaluate(c) ==
  /\ calls[c].at = "holding" /\ ~Locked(calls[c].repo)
  /\ calls[c].repo \in initialized
  /\ calls' = [calls EXCEPT ![c].at = "evaluating"]
  /\ UNCHANGED <<cluster, informer, channels, worker, target, tables, instances, bounds>>

Return(c) ==
  /\ calls[c].at = "evaluating"
  /\ calls' = [calls EXCEPT ![c] = Idle]
  /\ UNCHANGED <<cluster, informer, channels, worker, target, tables, instances, bounds>>

-----------------------------------------------------------------------------
\* The process ends: the pod is deleted, a map is read while it is written (the
\* runtime aborts), a handler or a Repo panics.  The next one removes ./repos
\* and hears of every module again.
Restart ==
  /\ restarts < MaxRestarts /\ restarts' = restarts + 1
  /\ known' = [m \in Modules |-> NoHash]
  /\ sending' = <<>> /\ updates' = <<>> /\ deletes' = <<>>
  /\ worker' = "select" /\ target' = NoHash
  /\ repos' = [h \in Hashes |-> NoRepo] /\ uses' = [h \in Hashes |-> 0]
  /\ made' = [h \in Hashes |-> 0] /\ dropped' = [h \in Hashes |-> 0]
  /\ running' = {} /\ initialized' = {} /\ cloned' = {}
  /\ calls' = [c \in Callers |-> Idle]
  /\ UNCHANGED <<cluster, faults>>

Init ==
  /\ modules \in [Modules -> MaybeHash]
  /\ known = [m \in Modules |-> NoHash]
  /\ sending = <<>> /\ updates = <<>> /\ deletes = <<>>
  /\ worker = "select" /\ target = NoHash
  /\ repos = [h \in Hashes |-> NoRepo] /\ uses = [h \in Hashes |-> 0]
  /\ made = [h \in Hashes |-> 0] /\ dropped = [h \in Hashes |-> 0]
  /\ running = {} /\ initialized = {} /\ cloned = {}
  /\ calls = [c \in Callers |-> Idle]
  /\ changes = 0 /\ faults = 0 /\ restarts = 0

TakeUpdate == CountUse \/ BeginCreate
TakeDelete == DropDelete \/ UncountUse \/ BeginDestroy
Worker == TakeUpdate \/ TakeDelete \/ Create \/ Destroyed \/ DestroyHangs \/ Remove
Call(c) == NotFound(c) \/ Found(c) \/ Refuse(c) \/ Evaluate(c) \/ Return(c)

Next == \/ \E m \in Modules : ChangeModule(m) \/ Deliver(m)
        \/ Send
        \/ Worker
        \/ \E r \in running : Clone(r)
        \/ \E c \in Callers : GetRepo(c) \/ Call(c)
        \/ Restart

Spec == Init /\ [][Next]_vars

\* Every goroutine that can run does; the select of worker() is random, so that
\* a channel that is not empty is chosen in the end.  A running Repo retries
\* its initialisation until it succeeds or finds a clone in its way.
Fairness == /\ \A m \in Modules : WF_vars(Deliver(m))
            /\ WF_vars(Send)
            /\ WF_vars(Worker) /\ SF_vars(TakeUpdate) /\ SF_vars(TakeDelete)
            /\ WF_vars(\E r \in running : Clone(r))
            /\ \A c \in Callers : WF_vars(Call(c))

FairSpec == Spec /\ Fairness

-----------------------------------------------------------------------------
RepoIds == Hashes \X Nat

\* Every variable has its type.
TypeOK ==
  /\ modules \in [Modules -> MaybeHash] /\ known \in [Modules -> MaybeHash]
  /\ sending \in Seq([to : {"ConfigUpdates", "ConfigDeletes"}, hash : Hashes])
  /\ updates \in Seq(Hashes) /\ Len(updates) <= Capacity
  /\ deletes \in Seq(Hashes) /\ Len(deletes) <= Capacity
  /\ worker \in {"select", "creating", "destroying", "removing", "stuck"}
  /\ target \in MaybeHash /\ (worker # "select" => target \in Hashes)
  /\ repos \in [Hashes -> Nat] /\ uses \in [Hashes -> Nat]
  /\ made \in [Hashes -> Nat] /\ dropped \in [Hashes -> Nat]
  /\ running \subseteq RepoIds /\ initialized \subseteq RepoIds /\ cloned \subseteq Hashes
  /\ calls \in [Callers -> [at : {"idle", "reading", "holding", "evaluating"},
                            repo : MaybeHash \X Nat]]
  /\ changes \in 0..MaxChanges /\ faults \in 0..MaxFaults /\ restarts \in 0..MaxRestarts

-----------------------------------------------------------------------------
(***************************************************************************)
(* Safety                                                                  *)
(***************************************************************************)
Count(s, h) == Cardinality({i \in 1..Len(s) : s[i] = h})
Users(h) == Cardinality({m \in Modules : known[m] = h})

\* Sends made or still to be made that worker() has not entered in the tables.
PendingAdds(h) == Count(sending, Add(h)) + Count(updates, h)
                    + (IF worker = "creating" /\ target = h THEN 1 ELSE 0)
PendingDeletes(h) == Count(sending, Delete(h)) + Count(deletes, h)
  + (IF worker \in {"destroying", "removing", "stuck"} /\ target = h THEN 1 ELSE 0)

\* The two channels reorder what the informer says, but lose nothing of it: the
\* uses counted and announced are the modules that use the revision, and one
\* more for each delete that came too early and was dropped.
Accounting ==
  \A h \in Hashes : uses[h] + PendingAdds(h) = Users(h) + PendingDeletes(h) + dropped[h]

\* When all that the informer said has been dealt with, every module it knows
\* has a Repo, and that Repo runs: no delete of one module, early or late, ever
\* takes the Repo of another one away for good.
Quiet == sending = <<>> /\ updates = <<>> /\ deletes = <<>> /\ worker = "select"

ServedWhenQuiet ==
  Quiet => \A m \in Modules :
             known[m] # NoHash => repos[known[m]] # NoRepo /\ Repo(known[m]) \in running

\* Two Repos never share a directory: the goroutine of the old one has ended
\* before a new one for the same revision starts.
OneRepoPerDirectory ==
  \A r, s \in running : r[1] = s[1] => r = s

\* A handler that looked a Repo up before it was destroyed and replaced never
\* evaluates in the directory that now belongs to another Repo's lock.
EvaluatesTheCurrentRepo ==
  \A c \in Callers : calls[c].at = "evaluating" =>
    /\ calls[c].repo = Repo(calls[c].repo[1]) /\ calls[c].repo \in running
    /\ calls[c].repo[1] \in cloned

-----------------------------------------------------------------------------
(***************************************************************************)
(* Refinement of Registry: a Repo serves its revision from NewRepo until   *)
(* Destroy has ended its goroutine, a step before it leaves the map.       *)
(***************************************************************************)
Serving == [h \in Hashes |-> IF Repo(h) \in running THEN repos[h] ELSE NoRepo]
Ready == {h \in Hashes : Repo(h) \in initialized}
Evaluating == [c \in Callers |-> IF calls[c].at = "evaluating" THEN {calls[c].repo} ELSE {}]

Abstract == INSTANCE Registry WITH
  serving <- Serving, last <- made, ready <- Ready, evaluating <- Evaluating

\* The map of Repos read under a lock and written without one, the two channels,
\* Destroy in the middle of calls, failing removals and restarts are, for those
\* who evaluate, the steps of Registry: one Repo at a time for each revision, and
\* none given up under an evaluation (repoManager.go:86, repo.go:433).
ImplementsRegistry == Abstract!Spec

-----------------------------------------------------------------------------
(***************************************************************************)
(* Liveness                                                                *)
(***************************************************************************)
Stuck == worker = "stuck"

\* The revision of a module that stays is in the end held by a Repo, and cloned
\* (by that Repo, or by one whose directory could not be removed), unless
\* worker() hangs in Destroy: whatever was reordered or restarted before.
ModulesAreServed ==
  \A m \in Modules, h \in Hashes :
    <>[](modules[m] = h) => <>[](Stuck \/ (repos[h] # NoRepo /\ h \in cloned))

\* The event handler never waits for good on a full channel, unless worker()
\* hangs in Destroy.
HandlerReturns == sending # <<>> ~> (sending = <<>> \/ Stuck)

\* Every gRPC call comes back, unless the Repo it holds is locked for good by a
\* Destroy that hangs.
CallsReturn ==
  \A c \in Callers : calls[c].at # "idle" ~> (calls[c].at = "idle" \/ Locked(calls[c].repo))
=============================================================================
