----------------------------- MODULE RunFunction -----------------------------
(***************************************************************************)
(* One composite resource and the composition function that renders it:    *)
(* RunFunction (pkg/crossplane/function.go) around Executor.Exec           *)
(* (pkg/executor/executor.go), called again and again by Crossplane, which *)
(* is external.  Crossplane repeats a call until the extra resources asked *)
(* for are those it has just passed, then deletes the composed resources   *)
(* that are not in the answer, creates those that are new, and stores the  *)
(* outputs in the status of the composite resource.                        *)
(*                                                                         *)
(* A module is a set of fields spread over files, all Jsonnet or all CUE.  *)
(* What a field evaluates to is free: the expressions are its author's.    *)
(***************************************************************************)
EXTENDS Naturals, FiniteSets

CONSTANTS
  Fields,     \* records [file, name, type, id]
  Versions,   \* sets of fields: the versions of the module in its repository
  CueVersions, \* those that are written in CUE
  MaxRounds,  \* calls Crossplane makes for one answer at most
  MaxPushes,  \* bound on the changes of the version
  MaxLosses   \* bound on composed resources that disappear by themselves

Types == {"resource", "request", "output", "input"}

ASSUME RunFunctionAssumption ==
  /\ \A x \in Fields : x.type \in Types
  /\ Versions \subseteq SUBSET Fields /\ CueVersions \subseteq Versions
  /\ MaxRounds \in Nat \ {0} /\ MaxPushes \in Nat /\ MaxLosses \in Nat

FilesOf(v) == {x.file : x \in v}
Files == FilesOf(Fields)
Ids == {x.id : x \in Fields}

VARIABLES
  version,      \* fields of the module in the clone now
  observed,     \* composed resources that exist
  published,    \* outputs in the status of the composite resource
  pc,           \* where the reconciliation is
  rounds,       \* calls made in this reconciliation
  requested,    \* requests whose extra resources Crossplane passes
  hasInputs,    \* the composite resource has spec.inputs
  outcome,      \* what each field of the module evaluates to in this call
  todo,         \* files of GetFileNames() still to be executed
  insufficient, \* insufficientRequestedResources
  result,       \* ExecResult
  fatal,        \* RunFunction's fatal
  report,       \* the report in the status of the answer
  pushes, losses

world == <<version, observed, published, pushes, losses>>
given == <<requested, hasInputs, outcome>>
answer == <<fatal, report>>
execution == <<todo, insufficient, result, answer>>
vars == <<world, pc, rounds, given, execution>>

-----------------------------------------------------------------------------
(***************************************************************************)
(* Data                                                                    *)
(***************************************************************************)
\* A resource of the module may be the composite resource itself ("self"), an
\* input may violate its schema ("invalid").
Outcomes == {"ok", "error", "deferred", "self", "invalid"}
Evaluations(x) == {"ok", "error"} \cup (CASE x.type = "resource" -> {"deferred", "self"}
                                         [] x.type = "input" -> {"invalid"}
                                         [] OTHER -> {})
NoOutcome == [x \in {} |-> "error"]

\* desired tells the new manifest from a copy of the observed one.
Manifests == {"none", "observed", "new"}
ExecResult ==
  [desired : [Ids -> Manifests], deferred : SUBSET Ids, desiredErrors : SUBSET Ids,
   request : SUBSET Ids, requestErrors : SUBSET Ids, outputs : SUBSET Ids,
   outputsErrors : SUBSET Ids, inputs : SUBSET Ids, inputsErrors : SUBSET Ids,
   invalid : BOOLEAN]

NewExecResult ==
  [desired |-> [i \in Ids |-> "none"], deferred |-> {}, desiredErrors |-> {},
   request |-> {}, requestErrors |-> {}, outputs |-> {},
   outputsErrors |-> {}, inputs |-> {}, inputsErrors |-> {}, invalid |-> FALSE]

\* Ids of the fields of file f, of one type, that evaluate in one of these ways.
\* Fields that share an id share an entry of a map: the later one overwrites.
In(f, type, ways) ==
  {x.id : x \in {y \in DOMAIN outcome : y.file = f /\ y.type = type /\ outcome[y] \in ways}}

Desired(r) == {i \in Ids : r.desired[i] # "none"}

-----------------------------------------------------------------------------
(***************************************************************************)
(* The report on a result: an item written later overwrites the earlier    *)
(* one with the same key.                                                  *)
(***************************************************************************)
ItemStatus == {"none", "OK", "DEFERRED", "ERROR"}

Items(ok, errors) ==
  [i \in Ids |-> CASE i \in errors -> "ERROR" [] i \in ok \ errors -> "OK" [] OTHER -> "none"]

\* Faulty variant: the errors are written before the resources that are kept.
ResourceItemsErrorsFirst(r) ==
  [i \in Ids |-> IF i \in Desired(r) THEN "OK"
                ELSE IF i \in r.desiredErrors THEN "ERROR"
                ELSE IF i \in r.deferred THEN "DEFERRED" ELSE "none"]

\* DEFERRED is overwritten when the deferred resource exists and is kept.
ResourceItems(r) ==
  [i \in Ids |-> IF i \in r.deferred \ (Desired(r) \cup r.desiredErrors) THEN "DEFERRED"
                ELSE Items(Desired(r), r.desiredErrors)[i]]

\* criticalError is the error of Execute.
NewReport(r, criticalError) ==
  [resource |-> ResourceItems(r),
   request |-> Items(r.request, r.requestErrors),
   output |-> Items(r.outputs, r.outputsErrors),
   input |-> Items(r.inputs, r.inputsErrors),
   inputsValidation |-> ~r.invalid,
   criticalError |-> criticalError]

NoReport == NewReport(NewExecResult, FALSE)

-----------------------------------------------------------------------------
(***************************************************************************)
(* Exec(): the files, in the random order of a Go map                      *)
(***************************************************************************)
\* ValidateInputs of the CUE back end accepts everything.
Refused(f) == IF DOMAIN outcome \in CueVersions THEN {} ELSE In(f, "input", {"invalid"})

\* execFile has been called without evaluation: inputs are validated if there
\* are any, and what the file requests is known.
Checked(f) ==
  IF hasInputs
    THEN [result EXCEPT !.invalid = @ \/ Refused(f) # {},
                        !.inputs = @ \cup In(f, "input", {"ok", "invalid"}),
                        !.inputsErrors = @ \cup In(f, "input", {"error"})]
    ELSE result

\* Faulty variant: requests are keyed by their field, not by their id.
RequestsByField(f) ==
  {x.name : x \in {y \in DOMAIN outcome : /\ y.file = f /\ y.type = "request"
                                         /\ outcome[y] = "ok"}}

Requests(f) == In(f, "request", {"ok"})

\* Once it is set the flag stays set for the files that follow.
Insufficient(f) == insufficient \/ ~(Requests(f) \subseteq requested)

Manifest(f) == In(f, "resource", {"ok", "self"})
Failed(f) == In(f, "resource", {"error"})

\* Faulty variant: only requests are looked up in the result.
DuplicateRequests(f) ==
  (Requests(f) \cap result.request) \cup
    IF Insufficient(f) THEN {} ELSE In(f, "request", {"error"}) \cap result.requestErrors

\* The ids that are in a map of the result already, from another file, or from
\* another map of the same file.  Two fields of one file and one map are not
\* noticed: the later one overwrites (executor.go:403).
Duplicates(f) ==
  (Requests(f) \cap result.request) \cup
    IF Insufficient(f) THEN {}
    ELSE UNION {In(f, "request", {"error"}) \cap result.requestErrors,
                Manifest(f) \cap Desired(result),
                Failed(f) \cap observed \cap (Desired(result) \cup Manifest(f)),
                In(f, "output", {"ok"}) \cap result.outputs}

\* Faulty variant: the requests of an incomplete execution are not reported.
RequestMoreQuietly(f) ==
  /\ pc = "executing" /\ f \in todo /\ Insufficient(f) /\ Duplicates(f) = {}
  /\ result' = Checked(f)
  /\ insufficient' = TRUE
  /\ todo' = todo \ {f}
  /\ UNCHANGED <<world, pc, rounds, given, answer>>

RequestMore(f) ==
  /\ pc = "executing" /\ f \in todo /\ Insufficient(f) /\ Duplicates(f) = {}
  /\ result' = [Checked(f) EXCEPT !.request = @ \cup Requests(f)]
  /\ insufficient' = TRUE
  /\ todo' = todo \ {f}
  /\ UNCHANGED <<world, pc, rounds, given, answer>>

\* Faulty variant: a resource that fails is left out, whatever exists of it.
MergedNew(f) ==
  [i \in Ids |-> IF i \in Manifest(f) THEN "new" ELSE result.desired[i]]

\* A resource that fails keeps its observed manifest.
Merged(f) ==
  [i \in Ids |-> CASE i \in Manifest(f) -> "new"
                   [] i \in Failed(f) \cap observed -> "observed"
                   [] OTHER -> result.desired[i]]

\* Faulty variant: outputs that fail are left out.
OutputsNow(f) == In(f, "output", {"ok"})

\* An output that fails keeps the value it has in the status.
Outputs(f) == In(f, "output", {"ok"}) \cup (In(f, "output", {"error"}) \cap published)

\* The list of deferred resources is assigned, not appended to: it is that of
\* the last file.
ExecFile(f) ==
  /\ pc = "executing" /\ f \in todo /\ ~Insufficient(f) /\ Duplicates(f) = {}
  /\ result' = [Checked(f) EXCEPT
       !.deferred = In(f, "resource", {"deferred"}),
       !.request = @ \cup Requests(f),
       !.requestErrors = @ \cup In(f, "request", {"error"}),
       !.desired = Merged(f),
       !.desiredErrors = @ \cup Failed(f),
       !.outputs = @ \cup Outputs(f),
       !.outputsErrors = @ \cup (In(f, "output", {"error"}) \ published)]
  /\ todo' = todo \ {f}
  /\ UNCHANGED <<world, pc, rounds, given, insufficient, answer>>

\* A duplicated id: "execution fatal".  The result so far is thrown away.
Duplicated(f) ==
  /\ pc = "executing" /\ f \in todo /\ Duplicates(f) # {}
  /\ pc' = "failed" /\ result' = NewExecResult
  /\ UNCHANGED <<world, rounds, given, todo, insufficient, answer>>

\* Nothing of a call outlives the reconciliation it is made for.
Reconciled ==
  /\ pc' = "idle" /\ rounds' = 0 /\ requested' = {} /\ hasInputs' = FALSE
  /\ outcome' = NoOutcome
  /\ todo' = {} /\ insufficient' = FALSE /\ result' = NewExecResult
  /\ fatal' = FALSE /\ report' = NoReport

-----------------------------------------------------------------------------
(***************************************************************************)
(* RunFunction()                                                           *)
(***************************************************************************)
\* newCueExecutor loads its files as one instance and then asks for one for each
\* file: with a second file it indexes out of range, and the process ends.
CueLoads(v) == Cardinality(FilesOf(v)) = 1

\* Execute calls the executor, which loads every file of the module.
Execute ==
  /\ pc = "called" /\ pc' = "executing"
  /\ version \in CueVersions => CueLoads(version)
  /\ outcome' \in [version -> Outcomes]
  /\ \A x \in version : outcome'[x] \in Evaluations(x)
  /\ todo' = FilesOf(version)
  /\ UNCHANGED <<world, rounds, requested, hasInputs, insufficient, result, answer>>

CuePanics ==
  /\ pc = "called" /\ version \in CueVersions /\ ~CueLoads(version)
  /\ Reconciled
  /\ UNCHANGED world

\* No Repo, or not initialised; or the executor cannot load the module.
ExecuteFails ==
  /\ pc = "called" /\ pc' = "failed"
  /\ UNCHANGED <<world, rounds, given, execution>>

\* "execution critical error, changes disabled"
Critical == \/ pc = "failed"
            \/ result.inputsErrors # {} \/ result.requestErrors # {} \/ result.invalid

Frozen == [i \in Ids |-> IF i \in observed THEN "observed" ELSE "none"]

\* Faulty variant: what has been rendered before the error is sent.
AnswerPartly ==
  [result EXCEPT !.desired =
     [i \in Ids |-> IF i \in result.deferred \cap observed THEN "observed" ELSE @[i]]]

\* A critical error freezes the composed resources; a deferred one is kept as
\* it is observed.
Answer ==
  [result EXCEPT !.desired =
     [i \in Ids |-> CASE Critical -> Frozen[i]
                      [] (~Critical) /\ i \in result.deferred \cap observed -> "observed"
                      [] OTHER -> @[i]]]

Selves == {x \in DOMAIN outcome : outcome[x] = "self"}

\* A field of the same file with the same id may be the one that is kept.
Overwritten(x) == \E y \in DOMAIN outcome : /\ y.file = x.file /\ y.id = x.id
                                            /\ y.type = "resource" /\ outcome[y] = "ok"

Respond ==
  /\ pc = "failed" \/ (pc = "executing" /\ todo = {})
  /\ Critical \/ \A x \in Selves : Answer.desired[x.id] = "new" => Overwritten(x)
  /\ pc' = "answered"
  /\ result' = Answer
  /\ fatal' = Critical
  /\ report' = NewReport(Answer, pc = "failed")
  /\ UNCHANGED <<world, rounds, given, todo, insufficient>>

\* A resource that is the composite resource itself is assigned through a nil
\* pointer: the process ends, the call fails, Crossplane tries again later.
Panic ==
  /\ pc = "executing" /\ todo = {} /\ ~Critical
  /\ \E x \in Selves : Answer.desired[x.id] = "new"
  /\ Reconciled
  /\ UNCHANGED world

\* The call ends without an answer that counts: RunFunction answers Fatal (it
\* cannot read the request or build the response), or the process ends.
CallFails ==
  /\ pc \in {"called", "executing", "failed"}
  /\ Reconciled
  /\ UNCHANGED world

\* Faulty variant: resources that fail are not counted.
HasErrorsElsewhere == fatal \/ result.deferred # {} \/ result.outputsErrors # {}

HasErrors == \/ fatal \/ result.deferred # {}
             \/ result.desiredErrors # {} \/ result.outputsErrors # {}

-----------------------------------------------------------------------------
(***************************************************************************)
(* Crossplane, the module's repository and the world (external)            *)
(***************************************************************************)
Reconcile ==
  /\ pc = "idle" /\ pc' = "called"
  /\ rounds' = 1 /\ requested' = {}
  /\ hasInputs' \in BOOLEAN
  /\ UNCHANGED <<world, outcome, execution>>

\* The requirements are stable: the answer asks for what the call was given.
Stable == pc = "answered" /\ result.request = requested

CallAgain ==
  /\ pc = "answered" /\ ~Stable /\ rounds < MaxRounds
  /\ pc' = "called" /\ rounds' = rounds + 1 /\ requested' = result.request
  /\ outcome' = NoOutcome
  /\ todo' = {} /\ insufficient' = FALSE /\ result' = NewExecResult
  /\ fatal' = FALSE /\ report' = NoReport
  /\ UNCHANGED <<world, hasInputs>>

GiveUp ==
  /\ pc = "answered" /\ ~Stable /\ rounds = MaxRounds
  /\ Reconciled
  /\ UNCHANGED world

Apply ==
  /\ Stable /\ Reconciled
  /\ observed' = Desired(result)
  /\ published' = IF fatal THEN published ELSE result.outputs
  /\ UNCHANGED <<version, pushes, losses>>

\* A pull of the worker; an evaluation in progress is not disturbed by it.
Push ==
  /\ pc # "executing" /\ pushes < MaxPushes /\ pushes' = pushes + 1
  /\ version' \in Versions \ {version}
  /\ UNCHANGED <<observed, published, losses, pc, rounds, given, execution>>

Lose ==
  /\ pc = "idle" /\ losses < MaxLosses /\ losses' = losses + 1
  /\ \E i \in observed : observed' = observed \ {i}
  /\ UNCHANGED <<version, published, pushes, pc, rounds, given, execution>>

Init ==
  /\ version \in Versions
  /\ observed = {} /\ published = {}
  /\ pc = "idle" /\ rounds = 0 /\ requested = {} /\ hasInputs = FALSE
  /\ outcome = NoOutcome
  /\ todo = {} /\ insufficient = FALSE /\ result = NewExecResult
  /\ fatal = FALSE /\ report = NoReport
  /\ pushes = 0 /\ losses = 0

File(f) == RequestMore(f) \/ ExecFile(f) \/ Duplicated(f)

Next == \/ Reconcile \/ Execute \/ CuePanics \/ ExecuteFails
        \/ \E f \in Files : File(f)
        \/ Respond \/ Panic \/ CallFails
        \/ CallAgain \/ GiveUp \/ Apply
        \/ Push \/ Lose

Spec == Init /\ [][Next]_vars

-----------------------------------------------------------------------------
\* Every variable has its type.
TypeOK ==
  /\ version \in Versions
  /\ observed \subseteq Ids /\ published \subseteq Ids
  /\ pc \in {"idle", "called", "executing", "failed", "answered"}
  /\ rounds \in 0..MaxRounds /\ requested \subseteq Ids /\ hasInputs \in BOOLEAN
  /\ DOMAIN outcome \subseteq Fields /\ \A x \in DOMAIN outcome : outcome[x] \in Outcomes
  /\ todo \subseteq Files /\ insufficient \in BOOLEAN /\ fatal \in BOOLEAN
  /\ result \in ExecResult
  /\ \A type \in Types : report[type] \in [Ids -> ItemStatus]
  /\ report.inputsValidation \in BOOLEAN /\ report.criticalError \in BOOLEAN
  /\ pushes \in 0..MaxPushes /\ losses \in 0..MaxLosses

-----------------------------------------------------------------------------
(***************************************************************************)
(* Safety                                                                  *)
(***************************************************************************)
Declared(type) == {x.id : x \in {y \in DOMAIN outcome : y.type = type}}

\* Deferred resources of the files that were not the last one to be executed.
Forgotten ==
  {x.id : x \in {y \in DOMAIN outcome : outcome[y] = "deferred"}} \ result.deferred

\* An answer from an execution that lacked requested resources has no desired
\* resources: Crossplane never applies one, or everything would be deleted.
IncompleteIsNotApplied == Stable /\ ~fatal => ~insufficient

\* A composed resource that exists and that the module still declares is never
\* deleted, whatever fails or waits and in whatever order files are executed,
\* except a deferred one that a later file makes Exec forget (executor.go:196).
KeepsDeclared ==
  Stable => \A i \in observed \cap Declared("resource") :
              i \in Desired(result) \/ i \in Forgotten

\* A request that fails, an input that fails or, in Jsonnet, violates its schema,
\* in whatever file and round, leaves every composed resource exactly as it is observed in
\* the answer that is applied: "changes disabled" (function.go:98).
Broken(x) == \/ x.type = "request" /\ outcome[x] = "error"
             \/ /\ x.type = "input" /\ hasInputs
                /\ outcome[x] \in IF DOMAIN outcome \in CueVersions THEN {"error"}
                                                                  ELSE {"error", "invalid"}

BrokenChangesNothing ==
  Stable /\ (\E x \in DOMAIN outcome : Broken(x)) => result.desired = Frozen

\* An output that is published and still declared stays published while its
\* expression fails, in every file order.
OutputsStay ==
  Stable /\ ~fatal => published \cap Declared("output") \subseteq result.outputs

\* A status that reports no errors tells the truth: all that the module declares
\* is desired and published, but for what Exec has forgotten.
HealthyIsComplete ==
  Stable /\ ~HasErrors =>
    /\ Declared("resource") \subseteq Desired(result) \cup Forgotten
    /\ Declared("output") \subseteq result.outputs

\* The report of an answer that is applied hides nothing, although its items
\* overwrite each other (report.go:93): a field that fails is an ERROR, unless
\* its output keeps the published value; what is deferred is DEFERRED, unless it
\* exists (then it reads OK), shares its id, or was forgotten; and a status
\* without errors has neither in its report.
Reported(x) == report[x.type][x.id]
Alone(x) == \A y \in DOMAIN outcome : y.id = x.id /\ y.type = x.type => y = x
Read(x) == x.type = "input" => hasInputs

ReportHidesNothing ==
  Stable /\ ~report.criticalError =>
    /\ \A x \in DOMAIN outcome :
         /\ outcome[x] = "error" /\ Read(x) =>
              Reported(x) = "ERROR" \/ (x.type = "output" /\ x.id \in published)
         /\ outcome[x] = "deferred" /\ Alone(x) /\ x.id \notin Forgotten =>
              Reported(x) = IF x.id \in observed THEN "OK" ELSE "DEFERRED"
    /\ ~HasErrors => \A type \in Types, i \in Ids : report[type][i] \in {"none", "OK"}

\* "duplicated id detected, execution fatal" (executor.go:220): two files that claim
\* one resource, with a new manifest or with that of what exists, never come to an
\* answer that changes anything, in whatever order they are executed.  Two fields
\* of one file may.
Claims(x) ==
  /\ x.type = "resource"
  /\ outcome[x] \in {"ok", "self"} \/ (outcome[x] = "error" /\ x.id \in observed)

DuplicatesAreFatal ==
  Stable /\ ~fatal =>
    \A x, y \in DOMAIN outcome : Claims(x) /\ Claims(y) /\ x.id = y.id => x.file = y.file
=============================================================================
