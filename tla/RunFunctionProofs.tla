-------------------------- MODULE RunFunctionProofs --------------------------
(***************************************************************************)
(* The answer of the composition function, for any fields, files, versions *)
(* of the module in Jsonnet or CUE, and any number of calls, pushes and    *)
(* losses: what an answer says of a field is settled when its file has     *)
(* been executed, whatever files come before and after.                    *)
(***************************************************************************)
EXTENDS RunFunction, TLAPS

\* Where no file has been executed there is nothing yet to answer.
BeginningInv ==
  /\ pc # "answered" => ~fatal /\ report = NoReport
  /\ pc \in {"idle", "called", "failed"} => result = NewExecResult
  /\ pc \in {"idle", "called"} => ~insufficient

Has(x, type, ways) == x.type = type /\ outcome[x] \in ways

\* What the execution of its file has entered in the result for a field.
Validated(x) ==
  hasInputs => /\ Has(x, "input", {"error"}) => x.id \in result.inputsErrors
               /\ Has(x, "input", {"invalid"}) /\ DOMAIN outcome \notin CueVersions =>
                    result.invalid

Entered(x) ==
  /\ Has(x, "request", {"error"}) => x.id \in result.requestErrors
  /\ Has(x, "resource", {"ok", "self"}) => fatal \/ x.id \in Desired(result)
  /\ Has(x, "resource", {"error"}) =>
       /\ x.id \in result.desiredErrors
       /\ x.id \in observed => fatal \/ x.id \in Desired(result)
  /\ Has(x, "output", {"ok"}) => x.id \in result.outputs
  /\ Has(x, "output", {"error"}) =>
       IF x.id \in published THEN x.id \in result.outputs ELSE x.id \in result.outputsErrors

\* Two files that have been executed have not claimed one resource.
Distinct(x, y) ==
  x.file \notin todo /\ y.file \notin todo /\ Claims(x) /\ Claims(y) /\ x.id = y.id
    => x.file = y.file

\* An execution that lacks requested resources asks for more than it was given.
\* What fails or is desired without being observed is so by a field.
ExecutionInv ==
  pc = "executing" \/ (pc = "answered" /\ ~report.criticalError) =>
    /\ \A x \in DOMAIN outcome : outcome[x] \in Evaluations(x)
    /\ insufficient => ~(result.request \subseteq requested)
    /\ \A x \in DOMAIN outcome : x.file \notin todo => Validated(x)
    /\ ~insufficient => \A x \in DOMAIN outcome : x.file \notin todo => Entered(x)
    /\ \A i \in result.desiredErrors :
         \E x \in DOMAIN outcome : x.id = i /\ Has(x, "resource", {"error"})
    /\ \A i \in Desired(result) \ observed :
         \E x \in DOMAIN outcome : x.id = i /\ Has(x, "resource", {"ok", "self"})
    /\ ~insufficient => \A x, y \in DOMAIN outcome : Distinct(x, y)

\* An answer is fatal for these reasons and then freezes what exists; its report
\* is the one on its result.
AnsweredInv ==
  pc = "answered" =>
    /\ fatal <=> \/ report.criticalError \/ result.invalid
                 \/ result.inputsErrors # {} \/ result.requestErrors # {}
    /\ fatal => result.desired = Frozen
    /\ result.deferred \cap observed \subseteq Desired(result)
    /\ report = NewReport(result, report.criticalError)
    /\ ~report.criticalError => todo = {}

IInv == TypeOK /\ BeginningInv /\ ExecutionInv /\ AnsweredInv

USE DEF world, given, answer, execution, vars

-----------------------------------------------------------------------------
(***************************************************************************)
(* Types                                                                   *)
(***************************************************************************)
WorldType == /\ version \in Versions /\ observed \subseteq Ids /\ published \subseteq Ids
             /\ pushes \in 0..MaxPushes /\ losses \in 0..MaxLosses
CallType == /\ pc \in {"idle", "called", "executing", "failed", "answered"}
            /\ rounds \in 0..MaxRounds /\ requested \subseteq Ids /\ hasInputs \in BOOLEAN
            /\ todo \subseteq Files /\ insufficient \in BOOLEAN /\ fatal \in BOOLEAN
OutcomeType == DOMAIN outcome \subseteq Fields /\ \A x \in DOMAIN outcome : outcome[x] \in Outcomes
ResultType == result \in ExecResult
ReportType == /\ \A type \in Types : report[type] \in [Ids -> ItemStatus]
              /\ report.inputsValidation \in BOOLEAN /\ report.criticalError \in BOOLEAN

\* The parts make up the type invariant.
LEMMA TypeParts ==
  TypeOK <=> WorldType /\ CallType /\ OutcomeType /\ ResultType /\ ReportType
BY DEF TypeOK, WorldType, CallType, OutcomeType, ResultType, ReportType

\* A field of the module has an id, a file and a type.
LEMMA FieldType ==
  ASSUME OutcomeType, NEW x \in DOMAIN outcome
  PROVE  x \in Fields /\ x.id \in Ids /\ x.file \in Files /\ x.type \in Types
BY RunFunctionAssumption DEF RunFunctionAssumption, OutcomeType, Ids, Files, FilesOf

\* What a file collects are ids.
LEMMA InType == OutcomeType => \A f, type, ways : In(f, type, ways) \subseteq Ids
BY FieldType DEF In

\* Nothing has been executed.
LEMMA NewResultType ==
  /\ NewExecResult \in ExecResult /\ Desired(NewExecResult) = {}
  /\ NewExecResult.deferred = {} /\ NewExecResult.request = {}
BY DEF NewExecResult, ExecResult, Manifests, Desired

\* The report on a result.
LEMMA ReportOnResult ==
  ASSUME NEW r \in ExecResult, NEW c \in BOOLEAN
  PROVE  /\ \A type \in Types : NewReport(r, c)[type] \in [Ids -> ItemStatus]
         /\ NewReport(r, c).inputsValidation \in BOOLEAN /\ NewReport(r, c).criticalError = c
<1>1. \A ok, errors : Items(ok, errors) \in [Ids -> ItemStatus]
  BY DEF Items, ItemStatus
<1>2. ResourceItems(r) \in [Ids -> ItemStatus]
  BY <1>1 DEF ResourceItems, ItemStatus
<1>3. r.invalid \in BOOLEAN
  BY DEF ExecResult
<1> QED
  BY <1>1, <1>2, <1>3 DEF NewReport, Types

\* execFile without evaluation writes the inputs only.
LEMMA CheckedFields ==
  ASSUME OutcomeType, ResultType, NEW f
  PROVE  /\ Checked(f) \in ExecResult
         /\ Checked(f).desired = result.desired /\ Checked(f).deferred = result.deferred
         /\ Checked(f).desiredErrors = result.desiredErrors
         /\ Checked(f).request = result.request
         /\ Checked(f).requestErrors = result.requestErrors
         /\ Checked(f).outputs = result.outputs
         /\ Checked(f).outputsErrors = result.outputsErrors
         /\ Checked(f).invalid <=> result.invalid \/ (hasInputs /\ Refused(f) # {})
         /\ Checked(f).inputsErrors =
              result.inputsErrors \cup IF hasInputs THEN In(f, "input", {"error"}) ELSE {}
<1>1. \A type, ways : In(f, type, ways) \subseteq Ids
  BY InType
<1>2. CASE hasInputs
  <2>1. Checked(f) = [result EXCEPT !.invalid = @ \/ Refused(f) # {},
                        !.inputs = @ \cup In(f, "input", {"ok", "invalid"}),
                        !.inputsErrors = @ \cup In(f, "input", {"error"})]
    BY <1>2 DEF Checked
  <2> QED
    BY <1>1, <1>2, <2>1 DEF ResultType, ExecResult
<1>3. CASE ~hasInputs
  <2>1. Checked(f) = result
    BY <1>3 DEF Checked
  <2> QED
    BY <1>3, <2>1 DEF ResultType, ExecResult
<1> QED
  BY <1>2, <1>3

\* A merged manifest is the new one, the observed one, or the one of another file.
LEMMA MergedManifests ==
  ASSUME ResultType, NEW f
  PROVE  /\ Merged(f) \in [Ids -> Manifests]
         /\ \A i \in Ids : Merged(f)[i] # "none" <=>
              i \in Manifest(f) \/ i \in Failed(f) \cap observed \/ i \in Desired(result)
BY DEF ResultType, ExecResult, Merged, Manifests, Desired

\* What is written when a file has been executed without and with evaluation.
LEMMA RequestMoreResult ==
  ASSUME OutcomeType, ResultType, NEW f, RequestMore(f)
  PROVE  /\ ResultType'
         /\ result'.desired = result.desired
         /\ result'.desiredErrors = result.desiredErrors
         /\ result'.request = result.request \cup Requests(f)
         /\ result'.invalid <=> result.invalid \/ (hasInputs /\ Refused(f) # {})
         /\ result'.inputsErrors =
              result.inputsErrors \cup IF hasInputs THEN In(f, "input", {"error"}) ELSE {}
<1>1. Requests(f) \subseteq Ids
  BY InType DEF Requests
<1>2. result' = [Checked(f) EXCEPT !.request = @ \cup Requests(f)]
  BY DEF RequestMore
<1> HIDE DEF Checked, Requests
<1> QED
  BY <1>1, <1>2, CheckedFields DEF ResultType, ExecResult

LEMMA ExecFileResult ==
  ASSUME OutcomeType, ResultType, WorldType, NEW f, ExecFile(f)
  PROVE  /\ ResultType'
         /\ result'.desired = Merged(f)
         /\ result'.desiredErrors = result.desiredErrors \cup Failed(f)
         /\ result'.requestErrors = result.requestErrors \cup In(f, "request", {"error"})
         /\ result'.outputs = result.outputs \cup Outputs(f)
         /\ result'.outputsErrors =
              result.outputsErrors \cup (In(f, "output", {"error"}) \ published)
         /\ result'.invalid <=> result.invalid \/ (hasInputs /\ Refused(f) # {})
         /\ result'.inputsErrors =
              result.inputsErrors \cup IF hasInputs THEN In(f, "input", {"error"}) ELSE {}
<1>1. /\ Requests(f) \subseteq Ids /\ Failed(f) \subseteq Ids /\ Outputs(f) \subseteq Ids
      /\ \A type, ways : In(f, type, ways) \subseteq Ids
  BY InType DEF Requests, Failed, Outputs
<1>2. result' = [Checked(f) EXCEPT
       !.deferred = In(f, "resource", {"deferred"}),
       !.request = @ \cup Requests(f),
       !.requestErrors = @ \cup In(f, "request", {"error"}),
       !.desired = Merged(f),
       !.desiredErrors = @ \cup Failed(f),
       !.outputs = @ \cup Outputs(f),
       !.outputsErrors = @ \cup (In(f, "output", {"error"}) \ published)]
  BY DEF ExecFile
<1>3. Merged(f) \in [Ids -> Manifests]
  BY MergedManifests
<1> HIDE DEF Checked, Requests, Failed, Outputs, Merged
<1> QED
  BY <1>1, <1>2, <1>3, CheckedFields DEF ResultType, ExecResult

\* Answer writes the desired resources only.
LEMMA AnswerFields ==
  ASSUME ResultType
  PROVE  /\ Answer \in ExecResult
         /\ Critical => Answer.desired = Frozen
         /\ ~Critical => \A i \in Ids :
              Answer.desired[i] # "none" <=>
                i \in result.deferred \cap observed \/ i \in Desired(result)
         /\ Answer.deferred = result.deferred /\ Answer.desiredErrors = result.desiredErrors
         /\ Answer.request = result.request /\ Answer.requestErrors = result.requestErrors
         /\ Answer.outputs = result.outputs /\ Answer.outputsErrors = result.outputsErrors
         /\ Answer.inputsErrors = result.inputsErrors /\ Answer.invalid = result.invalid
<1> DEFINE d == [i \in Ids |-> CASE Critical -> Frozen[i]
                      [] (~Critical) /\ i \in result.deferred \cap observed -> "observed"
                      [] OTHER -> result.desired[i]]
<1>1. Answer = [result EXCEPT !.desired = d]
  BY DEF Answer
<1>2. Frozen \in [Ids -> Manifests]
  BY DEF Frozen, Manifests
<1>3. d \in [Ids -> Manifests]
  BY <1>2 DEF ResultType, ExecResult, Manifests
<1>4. Critical => d = Frozen
  BY <1>2
<1>5. ~Critical => \A i \in Ids :
         d[i] # "none" <=> i \in result.deferred \cap observed \/ i \in Desired(result)
  BY DEF Desired
<1> HIDE DEF d, Critical
<1> QED
  BY <1>1, <1>3, <1>4, <1>5 DEF ResultType, ExecResult

\* Nothing is left of a call.
LEMMA ReconciledType ==
  ASSUME Reconciled
  PROVE  CallType' /\ OutcomeType' /\ ResultType' /\ ReportType'
<1>1. ReportType'
  BY NewResultType, ReportOnResult DEF Reconciled, ReportType, NoReport
<1>2. DOMAIN NoOutcome = {}
  BY DEF NoOutcome
<1>3. outcome' = NoOutcome /\ OutcomeType'
  BY <1>2 DEF Reconciled, OutcomeType
<1>4. CallType'
  <2>1. rounds' \in 0..MaxRounds
    BY RunFunctionAssumption DEF Reconciled
  <2>2. requested' \subseteq Ids /\ todo' \subseteq Files
    BY DEF Reconciled
  <2> QED
    BY <2>1, <2>2 DEF Reconciled, CallType
<1>5. ResultType'
  BY NewResultType DEF Reconciled, ResultType
<1> QED
  BY <1>1, <1>3, <1>4, <1>5

-----------------------------------------------------------------------------
(***************************************************************************)
(* Types are kept                                                          *)
(***************************************************************************)
LEMMA InitTypes == Init => TypeOK
<1> SUFFICES ASSUME Init PROVE TypeOK
  OBVIOUS
<1>1. ReportType
  BY NewResultType, ReportOnResult DEF Init, ReportType, NoReport
<1>2. DOMAIN NoOutcome = {}
  BY DEF NoOutcome
<1>3. CallType
  <2>1. rounds \in 0..MaxRounds
    BY RunFunctionAssumption DEF Init
  <2>2. requested \subseteq Ids /\ todo \subseteq Files
    BY DEF Init
  <2> QED
    BY <2>1, <2>2 DEF Init, CallType
<1>4. WorldType
  BY RunFunctionAssumption DEF Init, WorldType
<1>5. outcome = NoOutcome /\ OutcomeType /\ ResultType
  BY <1>2, NewResultType DEF Init, OutcomeType, ResultType
<1> QED
  BY <1>1, <1>3, <1>4, <1>5, TypeParts
LEMMA StepTypes == TypeOK /\ [Next]_vars => TypeOK'
<1> SUFFICES ASSUME TypeOK, [Next]_vars PROVE TypeOK'
  OBVIOUS
<1>0. WorldType /\ CallType /\ OutcomeType /\ ResultType /\ ReportType
  BY TypeParts
<1> SUFFICES WorldType' /\ CallType' /\ OutcomeType' /\ ResultType' /\ ReportType'
  BY TypeParts, PTL
<1>1. CASE Reconcile
  BY <1>0, <1>1, RunFunctionAssumption
  DEF Reconcile, WorldType, CallType, OutcomeType, ResultType, ReportType, RunFunctionAssumption
<1>2. CASE Execute
  <2>1. OutcomeType' /\ todo' \subseteq Files
    BY <1>0, <1>2, RunFunctionAssumption
    DEF Execute, WorldType, OutcomeType, Files, FilesOf, RunFunctionAssumption
  <2> QED
    BY <1>0, <1>2, <2>1 DEF Execute, WorldType, CallType, ResultType, ReportType
<1>3. CASE CuePanics \/ Panic \/ CallFails \/ GiveUp
  BY <1>0, <1>3, ReconciledType DEF CuePanics, Panic, CallFails, GiveUp, WorldType
<1>4. CASE ExecuteFails
  BY <1>0, <1>4
  DEF ExecuteFails, WorldType, CallType, OutcomeType, ResultType, ReportType
<1>5. ASSUME NEW f \in Files, RequestMore(f)
      PROVE  WorldType' /\ CallType' /\ OutcomeType' /\ ResultType' /\ ReportType'
  <2>1. ResultType'
    BY <1>0, <1>5, RequestMoreResult
  <2> QED
    BY <1>0, <1>5, <2>1 DEF RequestMore, WorldType, CallType, OutcomeType, ReportType
<1>6. ASSUME NEW f \in Files, ExecFile(f)
      PROVE  WorldType' /\ CallType' /\ OutcomeType' /\ ResultType' /\ ReportType'
  <2>1. ResultType'
    BY <1>0, <1>6, ExecFileResult
  <2> QED
    BY <1>0, <1>6, <2>1 DEF ExecFile, WorldType, CallType, OutcomeType, ReportType
<1>7. ASSUME NEW f \in Files, Duplicated(f)
      PROVE  WorldType' /\ CallType' /\ OutcomeType' /\ ResultType' /\ ReportType'
  BY <1>0, <1>7, NewResultType
  DEF Duplicated, WorldType, CallType, OutcomeType, ResultType, ReportType
<1>8. CASE Respond
  <2>1. Answer \in ExecResult
    BY <1>0, AnswerFields
  <2>2. ResultType' /\ ReportType'
    BY <1>8, <2>1, ReportOnResult DEF Respond, ResultType, ReportType
  <2>3. Critical \in BOOLEAN
    BY DEF Critical
  <2>4. CallType'
    BY <1>0, <1>8, <2>3 DEF Respond, CallType
  <2> QED
    BY <1>0, <1>8, <2>2, <2>4 DEF Respond, WorldType, OutcomeType
<1>9. CASE CallAgain
  <2>1. ReportType' /\ ResultType'
    BY <1>9, NewResultType, ReportOnResult DEF CallAgain, ReportType, ResultType, NoReport
  <2>2. result.request \subseteq Ids
    BY <1>0 DEF ResultType, ExecResult
  <2>3. rounds' \in 0..MaxRounds
    BY <1>0, <1>9, RunFunctionAssumption DEF CallAgain, CallType, RunFunctionAssumption
  <2> QED
    BY <1>0, <1>9, <2>1, <2>2, <2>3 DEF CallAgain, WorldType, CallType, OutcomeType, NoOutcome
<1>10. CASE Apply
  <2>1. CallType' /\ OutcomeType' /\ ResultType' /\ ReportType'
    BY <1>10, ReconciledType DEF Apply
  <2>2. Desired(result) \subseteq Ids /\ result.outputs \subseteq Ids
    BY <1>0 DEF ResultType, ExecResult, Desired
  <2> QED
    BY <1>0, <1>10, <2>1, <2>2 DEF Apply, WorldType
<1>11. CASE Push
  BY <1>0, <1>11, RunFunctionAssumption
  DEF Push, WorldType, CallType, OutcomeType, ResultType, ReportType, RunFunctionAssumption
<1>12. CASE Lose
  BY <1>0, <1>12, RunFunctionAssumption
  DEF Lose, WorldType, CallType, OutcomeType, ResultType, ReportType, RunFunctionAssumption
<1>13. CASE UNCHANGED vars
  BY <1>0, <1>13 DEF WorldType, CallType, OutcomeType, ResultType, ReportType
<1> QED
  BY <1>1, <1>2, <1>3, <1>4, <1>5, <1>6, <1>7, <1>8, <1>9, <1>10, <1>11, <1>12, <1>13 DEF Next, File

-----------------------------------------------------------------------------
(***************************************************************************)
(* The invariant is kept                                                   *)
(***************************************************************************)
\* A field is found among those of its file, type and outcome, and only there.
LEMMA InHas ==
  ASSUME NEW f, NEW type, NEW ways
  PROVE  /\ \A x \in DOMAIN outcome : x.file = f /\ Has(x, type, ways) => x.id \in In(f, type, ways)
         /\ \A i \in In(f, type, ways) : \E x \in DOMAIN outcome : x.id = i /\ Has(x, type, ways)
BY DEF In, Has

\* The inputs of a file are validated by both ways to execute it.
LEMMA FileValidates ==
  ASSUME NEW f, UNCHANGED <<outcome, hasInputs>>, todo' = todo \ {f},
         result.invalid \/ (hasInputs /\ Refused(f) # {}) => result'.invalid,
         result.inputsErrors \cup (IF hasInputs THEN In(f, "input", {"error"}) ELSE {})
           \subseteq result'.inputsErrors,
         NEW x \in DOMAIN outcome, x.file \notin todo', x.file \notin todo => Validated(x)
  PROVE  Validated(x)'
<1>1. CASE x.file \notin todo
  BY <1>1 DEF Validated, Has
<1>2. CASE x.file = f
  <2>1. hasInputs /\ Has(x, "input", {"error"}) => x.id \in result'.inputsErrors
    BY <1>2, InHas
  <2>2. hasInputs /\ Has(x, "input", {"invalid"}) /\ DOMAIN outcome \notin CueVersions =>
          result'.invalid
    BY <1>2, InHas DEF Refused
  <2> QED
    BY <2>1, <2>2 DEF Validated, Has
<1> QED
  BY <1>1, <1>2

\* A file that is executed without evaluation asks for more than was given.
LEMMA RequestMoreKeepsInv ==
  ASSUME IInv, NEW f \in Files, RequestMore(f)
  PROVE  ExecutionInv'
<1>1. OutcomeType /\ ResultType /\ ExecutionInv /\ pc = "executing"
  BY TypeParts DEF IInv, RequestMore
<1>2. /\ UNCHANGED <<outcome, hasInputs, observed, requested>> /\ pc' = "executing"
      /\ insufficient' = TRUE /\ todo' = todo \ {f} /\ Insufficient(f)
  BY DEF RequestMore
<1>3. ~(result'.request \subseteq requested)
  BY <1>1, <1>2, RequestMoreResult DEF Insufficient, ExecutionInv
<1>4. \A x \in DOMAIN outcome : x.file \notin todo' => Validated(x)'
  BY <1>1, <1>2, RequestMoreResult, FileValidates DEF ExecutionInv
<1>5. result'.desiredErrors = result.desiredErrors /\ Desired(result)' = Desired(result)
  BY <1>1, RequestMoreResult DEF Desired
<1> QED
  BY <1>1, <1>2, <1>3, <1>4, <1>5 DEF ExecutionInv, Has

\* A file that is executed enters all that its fields evaluate to.
LEMMA ExecFileKeepsInv ==
  ASSUME IInv, NEW f \in Files, ExecFile(f)
  PROVE  ExecutionInv'
<1>1. OutcomeType /\ ResultType /\ WorldType /\ ExecutionInv /\ pc = "executing"
  BY TypeParts DEF IInv, ExecFile
<1>2. /\ UNCHANGED <<outcome, hasInputs, observed, published, requested, fatal, insufficient>>
      /\ pc' = "executing" /\ ~insufficient /\ todo' = todo \ {f}
  BY <1>1 DEF ExecFile, Insufficient
<1>3. \A x \in DOMAIN outcome : x.file \notin todo' => Validated(x)'
  BY <1>1, <1>2, ExecFileResult, FileValidates DEF ExecutionInv
<1>4. Desired(result)' = Desired(result) \cup Manifest(f) \cup (Failed(f) \cap observed)
  <2>1. Manifest(f) \subseteq Ids /\ Failed(f) \subseteq Ids
    BY <1>1, InType DEF Manifest, Failed
  <2> QED
    BY <1>1, <2>1, ExecFileResult, MergedManifests DEF Desired
<1>5. ASSUME NEW x \in DOMAIN outcome, x.file \notin todo' PROVE Entered(x)'
  <2>1. CASE x.file \notin todo
    <3>1. Entered(x)
      BY <1>1, <1>2, <2>1 DEF ExecutionInv
    <3> QED
      BY <1>1, <1>2, <1>4, <3>1, ExecFileResult DEF Entered, Has
  <2>2. CASE x.file = f
    <3>1. /\ Has(x, "request", {"error"}) => x.id \in In(f, "request", {"error"})
          /\ Has(x, "resource", {"ok", "self"}) => x.id \in Manifest(f)
          /\ Has(x, "resource", {"error"}) => x.id \in Failed(f)
          /\ Has(x, "output", {"ok"}) => x.id \in Outputs(f)
          /\ Has(x, "output", {"error"}) => x.id \in In(f, "output", {"error"})
      BY <2>2, InHas DEF Manifest, Failed, Outputs
    <3>2. Has(x, "output", {"error"}) /\ x.id \in published => x.id \in Outputs(f)
      BY <3>1 DEF Outputs
    <3> QED
      BY <1>1, <1>2, <1>4, <3>1, <3>2, ExecFileResult DEF Entered, Has
  <2> QED
    BY <1>2, <1>5, <2>1, <2>2
<1>6. \A i \in result'.desiredErrors :
        \E x \in DOMAIN outcome : x.id = i /\ Has(x, "resource", {"error"})
  BY <1>1, ExecFileResult, InHas DEF ExecutionInv, Failed
<1>7. \A i \in Desired(result)' \ observed :
        \E x \in DOMAIN outcome : x.id = i /\ Has(x, "resource", {"ok", "self"})
  BY <1>1, <1>4, InHas DEF ExecutionInv, Manifest
<1>8. ASSUME NEW x \in DOMAIN outcome, NEW y \in DOMAIN outcome,
             x.file = f, y.file \notin todo, Claims(x), Claims(y)
      PROVE  x.id # y.id
  <2>1. ~fatal /\ Entered(y)
    BY <1>1, <1>2, <1>8 DEF IInv, BeginningInv, ExecutionInv
  <2>2. y.id \in Desired(result)
    BY <1>8, <2>1 DEF Entered, Claims, Has
  <2>3. x.id \in Manifest(f) \/ x.id \in Failed(f) \cap observed
    BY <1>8, InHas DEF Claims, Has, Manifest, Failed
  <2>4. Manifest(f) \cap Desired(result) = {} /\ Failed(f) \cap observed \cap Desired(result) = {}
    BY DEF ExecFile, Duplicates
  <2> QED
    BY <2>2, <2>3, <2>4
<1>9. \A x, y \in DOMAIN outcome : Distinct(x, y)'
  <2> SUFFICES ASSUME NEW x \in DOMAIN outcome, NEW y \in DOMAIN outcome PROVE Distinct(x, y)'
    OBVIOUS
  <2>1. Distinct(x, y)
    BY <1>1, <1>2 DEF ExecutionInv
  <2>2. Claims(x)' = Claims(x) /\ Claims(y)' = Claims(y)
    BY <1>2 DEF Claims
  <2> QED
    BY <1>2, <1>8, <2>1, <2>2 DEF Distinct
<1> QED
  BY <1>1, <1>2, <1>3, <1>5, <1>6, <1>7, <1>9 DEF ExecutionInv, Has

\* What is answered is what has been executed, with what exists kept of it.
LEMMA RespondKeepsInv ==
  ASSUME IInv, TypeOK', Respond
  PROVE  ExecutionInv' /\ AnsweredInv'
<1>1. OutcomeType /\ ResultType /\ WorldType /\ ExecutionInv /\ BeginningInv
  BY TypeParts DEF IInv
<1>2. /\ UNCHANGED <<outcome, hasInputs, observed, published, requested, insufficient, todo>>
      /\ pc' = "answered" /\ result' = Answer /\ fatal' = Critical
      /\ report' = NewReport(Answer, pc = "failed") /\ Frozen' = Frozen
      /\ pc = "failed" \/ (pc = "executing" /\ todo = {})
  BY DEF Respond, Frozen
<1>3. report'.criticalError = (pc = "failed")
  BY <1>1, <1>2, AnswerFields, ReportOnResult
<1>4. Critical => Desired(result)' = observed
  BY <1>1, <1>2, AnswerFields DEF Desired, Frozen, WorldType
<1>5. ~Critical => Desired(result)' = Desired(result) \cup (result.deferred \cap observed)
  <2>1. result.deferred \subseteq Ids
    BY <1>1 DEF ResultType, ExecResult
  <2> QED
    BY <1>1, <1>2, <2>1, AnswerFields DEF Desired
<1>6. AnsweredInv'
  <2>1. fatal' <=> \/ report'.criticalError \/ result'.invalid
                   \/ result'.inputsErrors # {} \/ result'.requestErrors # {}
    BY <1>1, <1>2, <1>3, AnswerFields DEF Critical
  <2>2. fatal' => result'.desired = Frozen'
    BY <1>1, <1>2, AnswerFields
  <2>3. result'.deferred \cap observed \subseteq Desired(result)'
    BY <1>1, <1>2, <1>4, <1>5, AnswerFields
  <2>4. report' = NewReport(result', report'.criticalError)
    BY <1>2, <1>3
  <2>5. ~report'.criticalError => todo' = {}
    BY <1>2, <1>3
  <2> QED
    BY <1>2, <2>1, <2>2, <2>3, <2>4, <2>5 DEF AnsweredInv
<1>7. ExecutionInv'
  <2> SUFFICES ASSUME pc = "executing" PROVE ExecutionInv'
    BY <1>2, <1>3 DEF ExecutionInv
  <2>1. ~fatal
    BY <1>1 DEF BeginningInv
  <2>2. \A x \in DOMAIN outcome : Validated(x) => Validated(x)'
    BY <1>1, <1>2, AnswerFields DEF Validated, Has
  <2>3. \A x \in DOMAIN outcome : Entered(x) => Entered(x)'
    BY <1>1, <1>2, <1>4, <1>5, <2>1, AnswerFields DEF Entered, Has
  <2>4. result'.desiredErrors = result.desiredErrors /\ result'.request = result.request
    BY <1>1, <1>2, AnswerFields
  <2>5. Desired(result)' \ observed \subseteq Desired(result) \ observed
    BY <1>4, <1>5
  <2>6. \A x, y \in DOMAIN outcome : Distinct(x, y) => Distinct(x, y)'
    BY <1>2 DEF Distinct, Claims
  <2> QED
    BY <1>1, <1>2, <2>2, <2>3, <2>4, <2>5, <2>6 DEF ExecutionInv, Has
<1> QED
  BY <1>6, <1>7

\* Nothing is left to answer for after an answer has been applied or lost.
LEMMA ReconciledInv ==
  ASSUME Reconciled
  PROVE  BeginningInv' /\ ExecutionInv' /\ AnsweredInv'
BY DEF Reconciled, BeginningInv, ExecutionInv, AnsweredInv

LEMMA StepIInv == IInv /\ [Next]_vars => IInv'
<1> SUFFICES ASSUME IInv, [Next]_vars PROVE IInv'
  OBVIOUS
<1>0. TypeOK' /\ BeginningInv /\ ExecutionInv /\ AnsweredInv
  BY StepTypes DEF IInv
<1> SUFFICES BeginningInv' /\ ExecutionInv' /\ AnsweredInv'
  BY <1>0 DEF IInv
<1>1. CASE Reconcile
  BY <1>0, <1>1 DEF Reconcile, BeginningInv, ExecutionInv, AnsweredInv
<1>2. CASE Execute
  <2>1. result' = NewExecResult /\ ~insufficient' /\ ~fatal' /\ report' = NoReport
    BY <1>0, <1>2 DEF Execute, BeginningInv
  <2>2. \A x \in DOMAIN outcome' : outcome'[x] \in Evaluations(x) /\ x.file \in todo'
    BY <1>2 DEF Execute, FilesOf
  <2>3. Desired(result)' = {} /\ result'.desiredErrors = {}
    BY <2>1 DEF NewExecResult, Desired
  <2>4. \A x, y \in DOMAIN outcome' : Distinct(x, y)'
    BY <2>2 DEF Distinct
  <2> QED
    BY <1>2, <2>1, <2>2, <2>3, <2>4 DEF Execute, BeginningInv, ExecutionInv, AnsweredInv
<1>3. CASE CuePanics \/ Panic \/ CallFails \/ GiveUp \/ Apply
  BY <1>3, ReconciledInv DEF CuePanics, Panic, CallFails, GiveUp, Apply
<1>4. CASE ExecuteFails
  BY <1>0, <1>4 DEF ExecuteFails, BeginningInv, ExecutionInv, AnsweredInv
<1>5. ASSUME NEW f \in Files, RequestMore(f)
      PROVE  BeginningInv' /\ ExecutionInv' /\ AnsweredInv'
  BY <1>0, <1>5, RequestMoreKeepsInv DEF RequestMore, BeginningInv, AnsweredInv
<1>6. ASSUME NEW f \in Files, ExecFile(f)
      PROVE  BeginningInv' /\ ExecutionInv' /\ AnsweredInv'
  BY <1>0, <1>6, ExecFileKeepsInv DEF ExecFile, BeginningInv, AnsweredInv
<1>7. ASSUME NEW f \in Files, Duplicated(f)
      PROVE  BeginningInv' /\ ExecutionInv' /\ AnsweredInv'
  BY <1>0, <1>7 DEF Duplicated, BeginningInv, ExecutionInv, AnsweredInv
<1>8. CASE Respond
  BY <1>0, <1>8, RespondKeepsInv DEF Respond, BeginningInv
<1>9. CASE CallAgain
  BY <1>9 DEF CallAgain, BeginningInv, ExecutionInv, AnsweredInv
<1>10. CASE Push \/ UNCHANGED vars
  BY <1>0, <1>10 DEF Push, BeginningInv, ExecutionInv, AnsweredInv, Validated, Entered, Has, Frozen,
                   Distinct, Claims
<1>11. CASE Lose
  BY <1>0, <1>11 DEF Lose, BeginningInv, ExecutionInv, AnsweredInv
<1> QED
  BY <1>1, <1>2, <1>3, <1>4, <1>5, <1>6, <1>7, <1>8, <1>9, <1>10, <1>11 DEF Next, File

\* The invariant holds in every reachable state.
THEOREM Inductive == Spec => []IInv
<1>1. Init => IInv
  BY InitTypes DEF Init, IInv, BeginningInv, ExecutionInv, AnsweredInv
<1> QED
  BY <1>1, StepIInv, PTL DEF Spec

\* Every variable has its type, whatever the modules declare and Crossplane asks.
THEOREM TypeCorrect == Spec => []TypeOK
BY Inductive, PTL DEF IInv

-----------------------------------------------------------------------------
(***************************************************************************)
(* The answers that are applied                                            *)
(***************************************************************************)
\* An answer that is applied comes from an execution of every file, or is critical.
LEMMA StableAnswer ==
  ASSUME IInv, Stable, ~report.criticalError
  PROVE  ~insufficient /\ \A x \in DOMAIN outcome : Validated(x) /\ Entered(x)
<1>1. ExecutionInv /\ AnsweredInv /\ pc = "answered" /\ result.request = requested
  BY DEF IInv, Stable
<1> QED
  BY <1>1 DEF ExecutionInv, AnsweredInv

\* What a field can evaluate to.
LEMMA FieldEvaluates ==
  ASSUME IInv, pc = "answered", ~report.criticalError, NEW x \in DOMAIN outcome
  PROVE  /\ x.type = "resource" => outcome[x] \in {"ok", "error", "deferred", "self"}
         /\ x.type = "output" => outcome[x] \in {"ok", "error"}
<1>1. outcome[x] \in Evaluations(x)
  BY DEF IInv, ExecutionInv
<1> QED
  BY <1>1 DEF Evaluations

\* An execution that lacked a resource is never applied (executor.go:183-189): it
\* asks for more than it was given, so that Crossplane calls again or gives up.
THEOREM IncompleteExecutionsWait == Spec => []IncompleteIsNotApplied
<1>1. IInv => IncompleteIsNotApplied
  BY StableAnswer DEF IncompleteIsNotApplied, IInv, AnsweredInv, Stable
<1> QED
  BY <1>1, Inductive, PTL

\* Files that claim one resource never come to an answer that changes anything
\* (executor.go:218-221), in whatever order they are executed.
THEOREM DuplicatesEnd == Spec => []DuplicatesAreFatal
<1>1. IInv => DuplicatesAreFatal
  <2> SUFFICES ASSUME IInv, Stable, ~fatal PROVE DuplicatesAreFatal
    BY DEF DuplicatesAreFatal
  <2>1. ExecutionInv /\ pc = "answered" /\ ~report.criticalError /\ todo = {}
    BY DEF IInv, AnsweredInv, Stable
  <2>2. ~insufficient
    BY <2>1, StableAnswer
  <2> QED
    BY <2>1, <2>2 DEF ExecutionInv, Distinct, DuplicatesAreFatal
<1> QED
  BY <1>1, Inductive, PTL

\* No order of files and no failure deletes what exists and is still declared,
\* but for deferred resources of a file that is not the last (executor.go:196).
THEOREM DeclaredIsKept == Spec => []KeepsDeclared
<1>1. IInv => KeepsDeclared
  <2> SUFFICES ASSUME IInv, Stable, NEW i \in observed, i \in Declared("resource")
               PROVE  i \in Desired(result) \/ i \in Forgotten
    BY DEF KeepsDeclared
  <2>1. AnsweredInv /\ pc = "answered" /\ i \in Ids
    BY TypeParts DEF IInv, Stable, WorldType
  <2>2. CASE fatal
    BY <2>1, <2>2 DEF AnsweredInv, Frozen, Desired
  <2>3. CASE ~fatal
    <3>1. ~report.criticalError
      BY <2>1, <2>3 DEF AnsweredInv
    <3>2. PICK x \in DOMAIN outcome : x.type = "resource" /\ x.id = i
      BY DEF Declared
    <3>3. Entered(x) /\ outcome[x] \in {"ok", "error", "deferred", "self"}
      BY <2>1, <3>1, <3>2, StableAnswer, FieldEvaluates
    <3>4. CASE outcome[x] = "deferred"
      BY <2>1, <3>2, <3>4 DEF AnsweredInv, Forgotten
    <3>5. CASE outcome[x] # "deferred"
      BY <2>3, <3>2, <3>3, <3>5 DEF Entered, Has
    <3> QED
      BY <3>4, <3>5
  <2> QED
    BY <2>2, <2>3
<1> QED
  BY <1>1, Inductive, PTL

\* A request or an input that fails, or an input that Jsonnet finds invalid, in any
\* file and round, freezes what exists in the answer applied (function.go:98).
THEOREM BrokenIsFrozen == Spec => []BrokenChangesNothing
<1>1. IInv => BrokenChangesNothing
  <2> SUFFICES ASSUME IInv, Stable, NEW x \in DOMAIN outcome, Broken(x)
               PROVE  result.desired = Frozen
    BY DEF BrokenChangesNothing
  <2>1. AnsweredInv /\ pc = "answered"
    BY DEF IInv, Stable
  <2>2. ~report.criticalError => Validated(x) /\ Entered(x)
    BY StableAnswer
  <2>3. fatal
    BY <2>1, <2>2 DEF AnsweredInv, Broken, Validated, Entered, Has
  <2> QED
    BY <2>1, <2>3 DEF AnsweredInv
<1> QED
  BY <1>1, Inductive, PTL

\* A published output that is still declared survives the failure of its expression
\* (executor.go:262-282), whatever file it is in.
THEOREM PublishedOutputsStay == Spec => []OutputsStay
<1>1. IInv => OutputsStay
  <2> SUFFICES ASSUME IInv, Stable, ~fatal, NEW i \in published, i \in Declared("output")
               PROVE  i \in result.outputs
    BY DEF OutputsStay
  <2>1. pc = "answered" /\ ~report.criticalError
    BY DEF IInv, AnsweredInv, Stable
  <2>2. PICK x \in DOMAIN outcome : x.type = "output" /\ x.id = i
    BY DEF Declared
  <2>3. Entered(x) /\ outcome[x] \in {"ok", "error"}
    BY <2>1, <2>2, StableAnswer, FieldEvaluates
  <2> QED
    BY <2>2, <2>3 DEF Entered, Has
<1> QED
  BY <1>1, Inductive, PTL

\* Where the status says that there are no errors, all that the module declares is
\* desired and published, but for what Exec forgot (function.go:210).
THEOREM HealthTellsTheTruth == Spec => []HealthyIsComplete
<1>1. IInv => HealthyIsComplete
  <2> SUFFICES ASSUME IInv, Stable, ~HasErrors
               PROVE  /\ Declared("resource") \subseteq Desired(result) \cup Forgotten
                      /\ Declared("output") \subseteq result.outputs
    BY DEF HealthyIsComplete
  <2>1. pc = "answered" /\ ~report.criticalError /\ ~fatal
    BY DEF IInv, AnsweredInv, Stable, HasErrors
  <2>2. ASSUME NEW x \in DOMAIN outcome, x.type = "resource"
        PROVE  x.id \in Desired(result) \cup Forgotten
    BY <2>1, <2>2, StableAnswer, FieldEvaluates DEF HasErrors, Entered, Has, Forgotten
  <2>3. ASSUME NEW x \in DOMAIN outcome, x.type = "output"
        PROVE  x.id \in result.outputs
    BY <2>1, <2>3, StableAnswer, FieldEvaluates DEF HasErrors, Entered, Has
  <2> QED
    BY <2>2, <2>3 DEF Declared
<1> QED
  BY <1>1, Inductive, PTL

-----------------------------------------------------------------------------
(***************************************************************************)
(* The report                                                              *)
(***************************************************************************)
\* The items of a report, by type.
LEMMA ReportItems ==
  ASSUME IInv, pc = "answered", NEW i \in Ids
  PROVE  /\ report["resource"][i] = ResourceItems(result)[i]
         /\ report["request"][i] = Items(result.request, result.requestErrors)[i]
         /\ report["output"][i] = Items(result.outputs, result.outputsErrors)[i]
         /\ report["input"][i] = Items(result.inputs, result.inputsErrors)[i]
<1>1. report = NewReport(result, report.criticalError)
  BY DEF IInv, AnsweredInv
<1> QED
  BY <1>1 DEF NewReport

\* An error wins over what is kept, what is kept over what is deferred.
LEMMA ItemOf ==
  ASSUME NEW i \in Ids
  PROVE  /\ \A ok, errors :
              /\ i \in errors => Items(ok, errors)[i] = "ERROR"
              /\ i \notin errors /\ i \in ok => Items(ok, errors)[i] = "OK"
              /\ i \notin errors /\ i \notin ok => Items(ok, errors)[i] = "none"
         /\ \A r :
              /\ i \in r.desiredErrors => ResourceItems(r)[i] = "ERROR"
              /\ i \notin r.desiredErrors /\ i \in Desired(r) => ResourceItems(r)[i] = "OK"
              /\ i \notin r.desiredErrors /\ i \notin Desired(r) =>
                   ResourceItems(r)[i] = IF i \in r.deferred THEN "DEFERRED" ELSE "none"
BY DEF Items, ResourceItems

\* A field that fails is reported.
LEMMA ErrorsAreReported ==
  ASSUME IInv, Stable, ~report.criticalError,
         NEW x \in DOMAIN outcome, outcome[x] = "error", Read(x)
  PROVE  Reported(x) = "ERROR" \/ (x.type = "output" /\ x.id \in published)
<1>1. Validated(x) /\ Entered(x) /\ pc = "answered"
  BY StableAnswer DEF Stable
<1>2. x.id \in Ids /\ x.type \in Types
  BY TypeParts, FieldType DEF IInv
<1>3. CASE x.type = "resource"
  BY <1>1, <1>2, <1>3, ReportItems, ItemOf DEF Entered, Has, Reported
<1>4. CASE x.type = "request"
  BY <1>1, <1>2, <1>4, ReportItems, ItemOf DEF Entered, Has, Reported
<1>5. CASE x.type = "output"
  BY <1>1, <1>2, <1>5, ReportItems, ItemOf DEF Entered, Has, Reported
<1>6. CASE x.type = "input"
  BY <1>1, <1>2, <1>6, ReportItems, ItemOf DEF Validated, Has, Reported, Read
<1> QED
  BY <1>2, <1>3, <1>4, <1>5, <1>6 DEF Types

\* A field that is deferred is reported as what it is: there, or awaited.
LEMMA DeferredAreReported ==
  ASSUME IInv, Stable, ~report.criticalError,
         NEW x \in DOMAIN outcome, outcome[x] = "deferred", Alone(x), x.id \notin Forgotten
  PROVE  Reported(x) = IF x.id \in observed THEN "OK" ELSE "DEFERRED"
<1>1. ExecutionInv /\ AnsweredInv /\ pc = "answered"
  BY DEF IInv, Stable
<1>2. x.id \in Ids /\ x.type \in Types /\ outcome[x] \in Evaluations(x)
  BY <1>1, TypeParts, FieldType DEF IInv, ExecutionInv
<1>3. x.type = "resource"
  BY <1>2 DEF Evaluations, Types
<1>4. x.id \in result.deferred
  BY DEF Forgotten
<1>5. x.id \notin result.desiredErrors
  BY <1>1, <1>3 DEF ExecutionInv, Alone, Has
<1>6. x.id \in observed <=> x.id \in Desired(result)
  BY <1>1, <1>3, <1>4 DEF ExecutionInv, AnsweredInv, Alone, Has
<1>7. Reported(x) = ResourceItems(result)[x.id]
  BY <1>1, <1>2, <1>3, ReportItems DEF Reported
<1> QED
  BY <1>2, <1>4, <1>5, <1>6, <1>7, ItemOf

\* A status without errors has neither errors nor deferred resources in its report.
LEMMA HealthyReport ==
  ASSUME IInv, Stable, ~HasErrors, NEW type \in Types, NEW i \in Ids
  PROVE  report[type][i] \in {"none", "OK"}
<1>1. AnsweredInv /\ pc = "answered"
  BY DEF IInv, Stable
<1>2. /\ result.inputsErrors = {} /\ result.requestErrors = {}
      /\ result.deferred = {} /\ result.desiredErrors = {} /\ result.outputsErrors = {}
  BY <1>1 DEF AnsweredInv, HasErrors
<1> QED
  BY <1>1, <1>2, ReportItems, ItemOf DEF Types

\* The items of a report overwrite each other (report.go:93), and still none of what
\* failed or waits is lost in the answer that is applied.
THEOREM ReportIsHonest == Spec => []ReportHidesNothing
<1>1. IInv => ReportHidesNothing
  <2> SUFFICES ASSUME IInv, Stable, ~report.criticalError
               PROVE  ReportHidesNothing
    BY DEF ReportHidesNothing
  <2> QED
    BY ErrorsAreReported, DeferredAreReported, HealthyReport DEF ReportHidesNothing
<1> QED
  BY <1>1, Inductive, PTL
=============================================================================
