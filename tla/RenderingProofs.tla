--------------------------- MODULE RenderingProofs ---------------------------
(***************************************************************************)
(* What is sent back is clean, takes no observed field away and is ready   *)
(* on what was observed, for any resources, fields and versions of the     *)
(* module.  Clean depends on whether a manifest has metadata: what exists  *)
(* has, and connection details are only those of what exists (ExistInv).   *)
(***************************************************************************)
EXTENDS Rendering, TLAPS

Details == Conditions \cup {"connectionDetails"}
Manifests == [fields : SUBSET Fields, metadata : SUBSET Metadata, status : SUBSET Details]

TypeInv ==
  /\ module \in Versions
  /\ cluster \in [Ids -> Manifests] /\ observed \in [Ids -> Manifests]
  /\ desired \in [Ids -> Manifests]
  /\ applied \in [Ids -> SUBSET Fields]
  /\ pc \in {"idle", "called", "answered"}

\* An answer holds for the module whatever the call has observed, but for what
\* the module sets to null; this and the module stay until it is applied.
Given(i) == i \in DOMAIN module =>
              observed[i].fields \ module[i].nulls \subseteq desired[i].fields

\* Something that exists has metadata of the server, and nothing else has
\* connection details, in the cluster as in the call under way.
ExistInv ==
  /\ \A i \in Ids : cluster[i] # NoManifest => "server" \in cluster[i].metadata
  /\ \A i \in Ids : observed[i] # NoManifest => "server" \in observed[i].metadata
  /\ details \subseteq Exists(cluster) /\ passed \subseteq Exists(observed)

IInv == /\ TypeInv /\ ExistInv
        /\ ManifestsAreClean
        /\ pc = "answered" => \A i \in Ids : Given(i)

-----------------------------------------------------------------------------
(***************************************************************************)
(* Lemmas about the operators                                              *)
(***************************************************************************)
\* A cleaned manifest has the fields of the original, and is clean if that has
\* metadata.
LEMMA CleanIsClean ==
  ASSUME NEW m \in Manifests
  PROVE  /\ Clean(m) \in Manifests /\ Clean(m).fields = m.fields
         /\ Clean(m).metadata \cap {"server", "crossplane.io/"} = {}
         /\ Clean(m).status # {} => m.metadata = {} /\ m.status # {}
<1>1. CASE m.metadata = {}
  BY <1>1 DEF Clean, Manifests
<1>2. CASE m.metadata # {}
  BY <1>2 DEF Clean, Manifests
<1> QED
  BY <1>1, <1>2

\* The entries of a version are those of its ids.
LEMMA ModuleEntries ==
  ASSUME TypeInv, NEW i \in DOMAIN module
  PROVE  /\ i \in Ids /\ module[i].fields \subseteq Fields
         /\ module[i].metadata \in {"given", "none", "null"}
  BY RenderingAssumption DEF RenderingAssumption, TypeInv, Entries

\* The observed manifest with connection details differs in its status only, and
\* there are none in a manifest without metadata: it was not there.
LEMMA InjectedKeepsFields ==
  ASSUME TypeInv, NEW i \in Ids
  PROVE  /\ Injected[i] \in Manifests /\ Injected[i].fields = observed[i].fields
         /\ ExistInv /\ Injected[i].metadata = {} => Injected[i].status = {}
<1>1. observed[i] \in Manifests
  BY DEF TypeInv
<1>2. CASE i \in passed
  <2>1. Injected[i] = [observed[i] EXCEPT !.status = @ \cup {"connectionDetails"}]
    BY <1>2 DEF Injected
  <2>2. ExistInv => "server" \in observed[i].metadata
    BY <1>2 DEF ExistInv, Exists
  <2> QED
    BY <1>1, <2>1, <2>2 DEF Manifests, Details
<1>3. CASE i \notin passed
  BY <1>1, <1>3 DEF Injected, ExistInv, NoManifest
<1> QED
  BY <1>2, <1>3

\* The library's merge keeps what is observed and not set to null.
LEMMA ManifestKeepsFields ==
  ASSUME TypeInv, NEW i \in DOMAIN module
  PROVE  /\ Manifest(i) \in Manifests
         /\ observed[i].fields \ module[i].nulls \subseteq Manifest(i).fields
         /\ ExistInv /\ Manifest(i).metadata = {} /\ Manifest(i).status # {}
              => module[i].metadata = "null"
<1>1. /\ i \in Ids /\ module[i].fields \subseteq Fields
      /\ module[i].metadata \in {"given", "none", "null"}
  BY ModuleEntries
<1>2. /\ Injected[i] \in Manifests /\ Injected[i].fields = observed[i].fields
      /\ ExistInv /\ Injected[i].metadata = {} => Injected[i].status = {}
  BY <1>1, InjectedKeepsFields
<1>3. PICK metadata :
        Manifest(i) = [fields |-> (Injected[i].fields \ module[i].nulls) \cup module[i].fields,
                       metadata |-> metadata, status |-> Injected[i].status]
  BY DEF Manifest
<1>4. /\ Manifest(i).metadata \subseteq Metadata
      /\ Manifest(i).metadata = {} => module[i].metadata = "null" \/ Injected[i].metadata = {}
  <2>1. CASE module[i].metadata = "given"
    BY <1>2, <2>1 DEF Manifest, Manifests, Metadata
  <2>2. CASE module[i].metadata = "none"
    BY <1>2, <2>2 DEF Manifest, Manifests
  <2>3. CASE module[i].metadata = "null"
    BY <2>3 DEF Manifest
  <2> QED
    BY <1>1, <2>1, <2>2, <2>3
<1> HIDE DEF Manifest
<1>5. Manifest(i) \in Manifests
  BY <1>1, <1>2, <1>3, <1>4 DEF Manifests
<1> QED
  BY <1>2, <1>3, <1>4, <1>5

\* So does what Exec puts in its result, whichever fields have failed.
LEMMA ResultKeepsFields ==
  ASSUME TypeInv, NEW failed, NEW i \in Ids
  PROVE  /\ Result(failed)[i] \in Manifests
         /\ i \in DOMAIN module =>
              observed[i].fields \ module[i].nulls \subseteq Result(failed)[i].fields
         /\ ExistInv /\ Result(failed)[i].metadata = {} /\ Result(failed)[i].status # {}
              => i \in DOMAIN module /\ module[i].metadata = "null"
<1>1. CASE i \notin DOMAIN module
  BY <1>1 DEF Result, NoManifest, Manifests
<1>2. CASE i \in DOMAIN module /\ (i \in failed \/ Deferred(i))
  <2>1. Result(failed)[i] = Injected[i]
    BY <1>2 DEF Result
  <2> QED
    BY <2>1, InjectedKeepsFields
<1>3. CASE i \in DOMAIN module /\ ~(i \in failed \/ Deferred(i))
  <2>1. Result(failed)[i] = Manifest(i)
    BY <1>3 DEF Result
  <2> QED
    BY <1>3, <2>1, ManifestKeepsFields
<1> QED
  BY <1>1, <1>2, <1>3

-----------------------------------------------------------------------------
(***************************************************************************)
(* The invariant                                                           *)
(***************************************************************************)
\* The initial states satisfy it.
LEMMA InitIInv == Init => IInv
<1> SUFFICES ASSUME Init PROVE IInv
  OBVIOUS
<1>1. Nothing \in [Ids -> Manifests]
  BY DEF Nothing, NoManifest, Manifests
<1>2. TypeInv
  BY <1>1 DEF Init, TypeInv
<1>3. ExistInv
  BY DEF Init, ExistInv, Nothing
<1> QED
  BY <1>2, <1>3 DEF Init, IInv, ManifestsAreClean

\* The answer of a call, whatever fails in it, satisfies it.
LEMMA RunFunctionStep == IInv /\ RunFunction => IInv'
<1> SUFFICES ASSUME IInv, RunFunction PROVE IInv'
  OBVIOUS
<1>1. /\ TypeInv /\ ExistInv
      /\ UNCHANGED <<module, cluster, details, applied, observed, passed>> /\ pc' = "answered"
  BY DEF IInv, RunFunction, world
<1>2. \A i \in Ids :
        /\ desired'[i] \in Manifests
        /\ desired'[i].metadata \cap {"server", "crossplane.io/"} = {}
        /\ desired'[i].status # {} => i \in DOMAIN module /\ module[i].metadata = "null"
        /\ i \in DOMAIN module =>
             observed[i].fields \ module[i].nulls \subseteq desired'[i].fields
  <2> TAKE i \in Ids
  <2>1. CASE \E failed : desired' = Cleaned(failed)
    <3>1. PICK failed : desired' = Cleaned(failed)
      BY <2>1
    <3>2. desired'[i] = Clean(Result(failed)[i])
      BY <3>1 DEF Cleaned
    <3> QED
      BY <1>1, <3>2, ResultKeepsFields, CleanIsClean
  <2>2. CASE desired' = [j \in Ids |-> Clean(observed[j])]
    <3>1. desired'[i] = Clean(observed[i]) /\ observed[i] \in Manifests
      BY <1>1, <2>2 DEF TypeInv
    <3>2. observed[i].metadata = {} => observed[i].status = {}
      BY <1>1 DEF ExistInv, NoManifest
    <3> QED
      BY <3>1, <3>2, CleanIsClean
  <2> QED
    BY <2>1, <2>2 DEF RunFunction, Evaluate, KeepObserved
<1>3. desired' \in [Ids -> Manifests]
  <2>1. DOMAIN desired' = Ids /\ desired' = [i \in Ids |-> desired'[i]]
    BY DEF RunFunction, Evaluate, KeepObserved, Cleaned
  <2> QED
    BY <1>2, <2>1
<1>4. TypeInv' /\ ExistInv'
  BY <1>1, <1>3 DEF TypeInv, ExistInv
<1> QED
  BY <1>1, <1>2, <1>4 DEF IInv, ManifestsAreClean, Given

\* Server-side apply keeps the type of a manifest, and the fields it is given.
LEMMA AppliedKeepsFields ==
  ASSUME TypeInv, NEW i \in Ids
  PROVE  /\ Applied(i) \in Manifests /\ desired[i].fields \subseteq Applied(i).fields
         /\ "server" \in Applied(i).metadata
<1>1. cluster[i] \in Manifests /\ desired[i] \in Manifests
  BY DEF TypeInv
<1> QED
  BY <1>1 DEF Applied, Manifests, Metadata

\* Applying an answer ends the call.
LEMMA ApplyStep == IInv /\ Apply => IInv'
<1> SUFFICES ASSUME IInv, Apply PROVE IInv'
  OBVIOUS
<1>1. TypeInv
  BY DEF IInv
<1>2. \A i \in Ids : NoManifest \in Manifests /\ Applied(i) \in Manifests
  BY <1>1, AppliedKeepsFields DEF NoManifest, Manifests
<1>3. cluster' \in [Ids -> Manifests]
  BY <1>2 DEF Apply
<1>4. observed' \in [Ids -> Manifests] /\ desired' \in [Ids -> Manifests]
  BY <1>2 DEF Apply, Nothing
<1>5. applied' \in [Ids -> SUBSET Fields]
  BY <1>1 DEF Apply, TypeInv, Manifests
<1>6. pc' = "idle" /\ module' = module
  BY DEF Apply
<1>7. ExistInv'
  <2>0. \A i \in Ids : "server" \in Applied(i).metadata
    BY <1>1, AppliedKeepsFields
  <2>1. \A i \in Ids : Applied(i) # NoManifest /\ "server" \in Applied(i).metadata
    <3>1. NoManifest.metadata = {}
      BY DEF NoManifest
    <3> QED
      BY <2>0, <3>1
  <2>2. /\ cluster' = [i \in Ids |-> IF i \in Exists(desired) THEN Applied(i) ELSE NoManifest]
        /\ details' = details \cap Exists(desired)
        /\ observed' = Nothing /\ passed' = {}
    BY DEF Apply
  <2> QED
    BY <2>1, <2>2 DEF ExistInv, Exists, Nothing
<1> QED
  BY <1>1, <1>3, <1>4, <1>5, <1>6, <1>7 DEF IInv, TypeInv, ManifestsAreClean

\* Controllers change what is in the cluster, not the answer under way.
LEMMA ControlStep == ASSUME NEW i \in Ids PROVE IInv /\ Control(i) => IInv'
<1> SUFFICES ASSUME IInv, Control(i) PROVE IInv'
  OBVIOUS
<1>1. /\ TypeInv /\ ExistInv
      /\ UNCHANGED <<module, applied, observed, passed, pc, desired>>
  BY DEF IInv, Control, call
<1>2. /\ cluster[i] \in Manifests
      /\ cluster[i] # NoManifest /\ "server" \in cluster[i].metadata
  BY <1>1 DEF TypeInv, ExistInv, Control, Exists
<1>3. cluster' \in [Ids -> Manifests]
  <2>1. CASE \E s \in SUBSET Conditions : cluster' = [cluster EXCEPT ![i].status = s]
    <3>1. PICK s \in SUBSET Conditions : cluster' = [cluster EXCEPT ![i].status = s]
      BY <2>1
    <3>2. [cluster[i] EXCEPT !.status = s] \in Manifests
      BY <1>2, <3>1, s \subseteq Details DEF Manifests, Details
    <3> QED
      BY <1>1, <3>1, <3>2 DEF TypeInv
  <2>2. CASE cluster' = cluster
    BY <1>1, <2>2 DEF TypeInv
  <2>3. CASE \E f \in Fields : cluster' = [cluster EXCEPT ![i].fields =
                                             IF f \in @ THEN @ \ {f} ELSE @ \cup {f}]
    BY <1>1, <1>2, <2>3 DEF TypeInv, Manifests
  <2>4. CASE cluster' = [cluster EXCEPT ![i].metadata = @ \cup {"finalizers"}]
    BY <1>1, <1>2, <2>4 DEF TypeInv, Manifests, Metadata
  <2> QED
    BY <2>1, <2>2, <2>3, <2>4 DEF Control
<1>4. TypeInv'
  BY <1>1, <1>3 DEF TypeInv
<1>5. ExistInv'
  <2>1. /\ \A j \in Ids : j # i => cluster'[j] = cluster[j]
        /\ "server" \in cluster'[i].metadata
        /\ details' = details \/ details' = details \cup {i}
    BY <1>1, <1>2 DEF Control, TypeInv, Manifests
  <2>2. cluster'[i] # NoManifest
    BY <2>1 DEF NoManifest
  <2> QED
    BY <1>1, <2>1, <2>2 DEF ExistInv, Exists
<1> QED
  BY <1>1, <1>4, <1>5 DEF IInv, ManifestsAreClean, Given

\* Every step preserves the invariant.
LEMMA StepIInv == IInv /\ [Next]_vars => IInv'
<1> SUFFICES ASSUME IInv, [Next]_vars PROVE IInv'
  OBVIOUS
<1>1. CASE Call
  BY <1>1 DEF Call, world, IInv, TypeInv, ExistInv, ManifestsAreClean
<1>2. CASE RunFunction
  BY <1>2, RunFunctionStep
<1>3. CASE Apply
  BY <1>3, ApplyStep
<1>4. ASSUME NEW i \in Ids, Control(i) PROVE IInv'
  BY <1>4, ControlStep
<1>5. CASE Push
  BY <1>5 DEF Push, world, call, IInv, TypeInv, ExistInv, ManifestsAreClean
<1>6. CASE UNCHANGED vars
  BY <1>6 DEF vars, world, call, IInv, TypeInv, ExistInv, ManifestsAreClean, Given
<1> QED
  BY <1>1, <1>2, <1>3, <1>4, <1>5, <1>6 DEF Next

\* Answers are clean and complete with respect to what they have observed.
THEOREM Inductive == Spec => []IInv
  BY InitIInv, StepIInv, PTL DEF Spec

-----------------------------------------------------------------------------
\* Server metadata is never sent back as desired, and status with the connection
\* details written into it only where the module has set the metadata to null
\* (function.go:121-161), whatever fails.
THEOREM AnswersAreClean == Spec => []ManifestsAreClean
<1>1. IInv => ManifestsAreClean
  BY DEF IInv
<1> QED
  BY <1>1, Inductive, PTL

\* Applying an answer takes no field away that its call has observed, unless the
\* module sets it to null (lib.jsonnet:52).
THEOREM ObservedFieldsStay == Spec => FieldsStay
<1>1. ASSUME IInv, [Next]_vars, pc = "answered", pc' = "idle",
             NEW i \in Exists(cluster) \cap Exists(cluster') \cap DOMAIN module
      PROVE  (cluster[i].fields \cap observed[i].fields) \ module[i].nulls
               \subseteq cluster'[i].fields
  <2>1. Apply
    BY <1>1 DEF Next, Call, RunFunction, Control, Push, vars, call
  <2>2. i \in Ids /\ TypeInv /\ Given(i)
    BY <1>1 DEF Exists, IInv
  <2>3. cluster'[i] = Applied(i)
    BY <1>1, <2>1, <2>2 DEF Apply, Exists
  <2> QED
    BY <2>2, <2>3, AppliedKeepsFields DEF Given
<1>2. IInv /\ [Next]_vars =>
        [pc = "answered" /\ pc' = "idle" =>
           \A i \in Exists(cluster) \cap Exists(cluster') \cap DOMAIN module :
             (cluster[i].fields \cap observed[i].fields) \ module[i].nulls
               \subseteq cluster'[i].fields]_vars
  BY <1>1
<1> QED
  BY <1>2, Inductive, PTL DEF Spec, FieldsStay

-----------------------------------------------------------------------------
(***************************************************************************)
(* Readiness                                                               *)
(***************************************************************************)
\* Connection details are no condition.
LEMMA InjectedConditions ==
  ASSUME TypeInv, NEW i \in Ids
  PROVE  ConditionsTrue(i) <=> Conditions \subseteq observed[i].status
<1>1. observed[i] \in Manifests
  BY DEF TypeInv
<1>2. CASE i \in passed
  <2>1. Injected[i] = [observed[i] EXCEPT !.status = @ \cup {"connectionDetails"}]
    BY <1>2 DEF Injected
  <2> QED
    BY <1>1, <2>1 DEF Manifests, Details, ConditionsTrue, Conditions
<1>3. CASE i \notin passed
  BY <1>3 DEF Injected, ConditionsTrue
<1> QED
  BY <1>2, <1>3

\* Exec says that a resource is ready for one of three reasons.
LEMMA ReadyHasReason ==
  ASSUME TypeInv, NEW failed, NEW i \in Ids, Ready(failed)[i] = "True"
  PROVE  /\ i \in DOMAIN module /\ ~Deferred(i)
         /\ Conditions \subseteq observed[i].status \/ i \in ProviderConfigs
                                                    \/ module[i].ready = "True"
<1>1. CASE i \notin DOMAIN module \ failed
  BY <1>1 DEF Ready
<1>2. CASE i \in DOMAIN module \ failed /\ Deferred(i)
  BY <1>2 DEF Ready
<1>3. CASE i \in DOMAIN module \ failed /\ ~Deferred(i) /\ i \notin ProviderConfigs
  <2>1. Ready(failed)[i] = IF module[i].ready # "null" THEN module[i].ready
                           ELSE IF ConditionsTrue(i) THEN "True" ELSE "False"
    BY <1>3 DEF Ready
  <2> QED
    BY <1>3, <2>1, InjectedConditions
<1> QED
  BY <1>1, <1>2, <1>3

\* The answer of a call says so of what it was passed; until it is applied, neither
\* changes.
LEMMA StepReady == IInv /\ ReadyIsObserved /\ [Next]_vars => ReadyIsObserved'
<1> SUFFICES ASSUME IInv, ReadyIsObserved, [Next]_vars PROVE ReadyIsObserved'
  OBVIOUS
<1>1. CASE RunFunction
  <2>1. TypeInv /\ UNCHANGED <<module, observed, passed>>
    BY <1>1 DEF IInv, RunFunction
  <2>2. CASE \E failed : ready' = Ready(failed)
    BY <2>1, <2>2, ReadyHasReason DEF ReadyIsObserved, Deferred, ConditionsTrue, Injected
  <2>3. CASE ready' = [i \in Ids |-> "Unspecified"]
    BY <2>3 DEF ReadyIsObserved
  <2> QED
    BY <1>1, <2>2, <2>3 DEF RunFunction, Evaluate, KeepObserved
<1>2. CASE Call \/ Apply \/ Push
  BY <1>2 DEF Call, Apply, Push, call, ReadyIsObserved
<1>3. CASE (\E i \in Ids : Control(i)) \/ UNCHANGED vars
  <2>1. UNCHANGED <<module, observed, passed, pc, ready>>
    BY <1>3 DEF Control, call, vars
  <2> QED
    BY <2>1 DEF ReadyIsObserved, Deferred, ConditionsTrue, Injected
<1> QED
  BY <1>1, <1>2, <1>3 DEF Next

\* A resource is said to be ready only on what its call was passed, or because its
\* module or its kind says so (executor.go:224-232), whatever was kept before.
THEOREM ReadinessIsObserved == Spec => []ReadyIsObserved
<1>1. Init => ReadyIsObserved
  BY DEF Init, ReadyIsObserved
<1> QED
  BY <1>1, StepReady, Inductive, PTL DEF Spec
=============================================================================
