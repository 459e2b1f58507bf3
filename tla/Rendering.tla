------------------------------ MODULE Rendering ------------------------------
(***************************************************************************)
(* The manifests of composed resources: how resource() of the library      *)
(* (lib.jsonnet) builds one from what is observed and what the module      *)
(* says, how Exec adds what it keeps and what is ready (pkg/executor), how *)
(* RunFunction cleans the result (pkg/crossplane/function.go), and what    *)
(* becomes of the resources when Crossplane applies it, again and again,   *)
(* while their controllers and the module change them.                     *)
(*                                                                         *)
(* A manifest is the set of its fields, of its metadata and of what is in  *)
(* its status; values are left out, and an empty set of metadata is a      *)
(* manifest that has none.  Files, requests, outputs and fatal errors are  *)
(* those of RunFunction.tla.                                               *)
(***************************************************************************)
EXTENDS Naturals

CONSTANTS
  Ids,              \* composed resources
  Fields,           \* fields of a manifest outside metadata and status
  Versions,         \* versions of the module: functions from some ids to entries
  ProviderConfigs,  \* ids of kind ProviderConfig, kubernetes.crossplane.io/v1alpha1
  MaxPushes,        \* bound on the changes of the module
  MaxChanges        \* bound on the changes others make to resources

\* dependOn: what the resource depends on, as ids or as resource objects.
\* metadata: the object of the module has metadata, none, or sets it to null.
NoDependency == [by |-> "none", on |-> {}]
Dependencies == {NoDependency} \cup [by : {"id", "object"}, on : SUBSET Ids]
Entries == [fields : SUBSET Fields, nulls : SUBSET Fields, dependOn : Dependencies,
            ready : {"null", "True", "False"}, metadata : {"given", "none", "null"}]

ASSUME RenderingAssumption ==
  /\ \A v \in Versions : DOMAIN v \subseteq Ids /\ \A i \in DOMAIN v : v[i] \in Entries
  /\ ProviderConfigs \subseteq Ids
  /\ MaxPushes \in Nat /\ MaxChanges \in Nat

VARIABLES
  module,    \* version of the module
  cluster,   \* manifest of each composed resource
  details,   \* resources with connection details
  applied,   \* fields Crossplane has applied and owns, for each resource
  observed,  \* the manifests passed in the call under way
  passed,    \* resources whose connection details are passed in it
  pc,        \* where the reconciliation is
  desired,   \* desired composed resources of the answer
  ready,     \* and their readiness
  pushes, changes

world == <<cluster, details, applied>>
call == <<observed, passed, pc, desired, ready>>
vars == <<module, world, call, pushes, changes>>

-----------------------------------------------------------------------------
\* "server": managedFields, creationTimestamp, generation, ownerReferences,
\* resourceVersion, uid.  "crossplane.io/": labels and annotations with that prefix.
Metadata == {"name", "label", "server", "crossplane.io/", "finalizers"}
Conditions == {"Ready", "Synced"}
NoManifest == [fields |-> {}, metadata |-> {}, status |-> {}]
Exists(manifests) == {i \in Ids : manifests[i] # NoManifest}
Nothing == [i \in Ids |-> NoManifest]

-----------------------------------------------------------------------------
(***************************************************************************)
(* NewExecutor: connection details become part of the observed status      *)
(***************************************************************************)
Injected == [i \in Ids |-> IF i \in passed
                             THEN [observed[i] EXCEPT !.status = @ \cup {"connectionDetails"}]
                             ELSE observed[i]]

-----------------------------------------------------------------------------
(***************************************************************************)
(* resource(id, obj, dependOn, ready) of the library                       *)
(***************************************************************************)
\* Faulty variant: Synced is not looked at.
ConditionReady(i) == "Ready" \in Injected[i].status

ConditionsTrue(i) == Conditions \subseteq Injected[i].status

\* Faulty variant: the module's object alone.
PlainManifest(i) ==
  [fields |-> module[i].fields, metadata |-> {"name", "label"}, status |-> {}]

\* std.mergePatch of the observed manifest with the module's: everything that
\* is observed is kept, except what the module sets to null, metadata included.
Manifest(i) ==
  [fields |-> (Injected[i].fields \ module[i].nulls) \cup module[i].fields,
   metadata |-> CASE module[i].metadata = "given" -> Injected[i].metadata \cup {"name", "label"}
                  [] module[i].metadata = "none" -> Injected[i].metadata
                  [] module[i].metadata = "null" -> {},
   status |-> Injected[i].status]

\* isReady(dependOn), where all of nothing is ready.
Deferred(i) == /\ module[i].dependOn.by = "id"
               /\ \A d \in module[i].dependOn.on : ConditionsTrue(d)

\* conditionsTrue of an object: std.get wants a string for the name of a field.
Unusable(i) == module[i].dependOn.by = "object"

-----------------------------------------------------------------------------
(***************************************************************************)
(* Exec and RunFunction for the resources whose evaluation fails           *)
(***************************************************************************)
\* Resources that fail or are deferred keep their observed manifest.
Result(failed) ==
  [i \in Ids |-> CASE i \notin DOMAIN module -> NoManifest
                   [] i \in DOMAIN module /\ (i \in failed \/ Deferred(i)) -> Injected[i]
                   [] OTHER -> Manifest(i)]

\* Kept manifests have no readiness: the composite resource waits for them.
Ready(failed) ==
  [i \in Ids |->
     CASE i \notin DOMAIN module \ failed -> "Unspecified"
       [] i \in DOMAIN module \ failed /\ Deferred(i) -> "Unspecified"
       [] i \in (DOMAIN module \ failed) \cap ProviderConfigs /\ ~Deferred(i) -> "True"
       [] OTHER -> IF module[i].ready # "null" THEN module[i].ready
                   ELSE IF ConditionsTrue(i) THEN "True" ELSE "False"]

\* A manifest without metadata is skipped, its status included.  The finalizers
\* are asserted to be a map, but are a list: they stay.
Clean(m) ==
  IF m.metadata = {} THEN m
  ELSE [m EXCEPT !.metadata = @ \ {"server", "crossplane.io/"}, !.status = {}]

\* Faulty variant: only what the module has rendered is cleaned.
CleanedRendered(failed) ==
  [i \in Ids |-> IF i \in failed THEN Result(failed)[i] ELSE Clean(Result(failed)[i])]

\* All that is desired is cleaned, the kept manifests included.
Cleaned(failed) == [i \in Ids |-> Clean(Result(failed)[i])]

Call ==
  /\ pc = "idle" /\ pc' = "called"
  /\ observed' = cluster /\ passed' = details
  /\ UNCHANGED <<module, world, desired, ready, pushes, changes>>

\* The module is evaluated; expressions of its own fail for the resources in more.
Evaluate(more) ==
  LET failed == more \cup {i \in DOMAIN module : Unusable(i)}
  IN desired' = Cleaned(failed) /\ ready' = Ready(failed)

\* A critical error keeps every observed manifest.
KeepObserved == /\ desired' = [i \in Ids |-> Clean(observed[i])]
                /\ ready' = [i \in Ids |-> "Unspecified"]

RunFunction ==
  /\ pc = "called" /\ pc' = "answered"
  /\ (\E more \in SUBSET DOMAIN module : Evaluate(more)) \/ KeepObserved
  /\ UNCHANGED <<module, world, observed, passed, pushes, changes>>

-----------------------------------------------------------------------------
(***************************************************************************)
(* Crossplane, the controllers of the resources, the module (external)     *)
(***************************************************************************)
\* Server-side apply: fields applied before and absent now are removed, fields
\* of others stay; the server and Crossplane add their metadata.
Applied(i) ==
  [fields |-> (cluster[i].fields \ applied[i]) \cup desired[i].fields,
   metadata |-> cluster[i].metadata \cup desired[i].metadata
                  \cup {"name", "server", "crossplane.io/"},
   status |-> cluster[i].status]

Apply ==
  /\ pc = "answered" /\ pc' = "idle"
  /\ cluster' = [i \in Ids |-> IF i \in Exists(desired) THEN Applied(i) ELSE NoManifest]
  /\ details' = details \cap Exists(desired)
  /\ applied' = [i \in Ids |-> desired[i].fields]
  /\ observed' = Nothing /\ passed' = {} /\ desired' = Nothing
  /\ ready' = [i \in Ids |-> "Unspecified"]
  /\ UNCHANGED <<module, pushes, changes>>

\* A controller reports conditions, publishes connection details, adds or
\* removes a field or its finalizer.
Control(i) ==
  /\ i \in Exists(cluster) /\ changes < MaxChanges /\ changes' = changes + 1
  /\ \/ /\ \E s \in SUBSET Conditions \ {cluster[i].status} :
             cluster' = [cluster EXCEPT ![i].status = s]
        /\ UNCHANGED details
     \/ details' = details \cup {i} /\ UNCHANGED cluster
     \/ /\ \E f \in Fields : cluster' = [cluster EXCEPT ![i].fields =
                                           IF f \in @ THEN @ \ {f} ELSE @ \cup {f}]
        /\ UNCHANGED details
     \/ /\ cluster' = [cluster EXCEPT ![i].metadata = @ \cup {"finalizers"}]
        /\ UNCHANGED details
  /\ UNCHANGED <<module, applied, call, pushes>>

Push ==
  /\ pc = "idle" /\ pushes < MaxPushes /\ pushes' = pushes + 1
  /\ module' \in Versions \ {module}
  /\ UNCHANGED <<world, call, changes>>

Init ==
  /\ module \in Versions
  /\ cluster = Nothing /\ details = {} /\ applied = [i \in Ids |-> {}]
  /\ observed = Nothing /\ passed = {} /\ pc = "idle"
  /\ desired = Nothing /\ ready = [i \in Ids |-> "Unspecified"]
  /\ pushes = 0 /\ changes = 0

Next == \/ Call \/ RunFunction \/ Apply
        \/ \E i \in Ids : Control(i)
        \/ Push

Spec == Init /\ [][Next]_vars

-----------------------------------------------------------------------------
(***************************************************************************)
(* Properties                                                              *)
(***************************************************************************)
\* Whatever a manifest is made from, the module's object merged into what was
\* observed, a copy kept because of an error or a dependency: the server's metadata
\* is never sent back as desired.  Nor is the status with the connection details,
\* which Exec has written into it for the module to read, unless the module sets
\* the metadata to null: such a manifest is not cleaned.
ManifestsAreClean ==
  pc = "answered" =>
    \A i \in Ids :
      /\ desired[i].metadata \cap {"server", "crossplane.io/"} = {}
      /\ desired[i].status # {} => i \in DOMAIN module /\ module[i].metadata = "null"

\* A resource is said to be ready only if the call that says so was passed its
\* conditions Ready and Synced, or its module or its kind decides; never on the
\* strength of a manifest that was kept, or of an earlier call.
ReadyIsObserved ==
  pc = "answered" =>
    \A i \in Ids : ready[i] = "True" =>
      /\ i \in DOMAIN module /\ ~Deferred(i)
      /\ Conditions \subseteq observed[i].status \/ i \in ProviderConfigs
                                                 \/ module[i].ready = "True"

\* Applying an answer never takes away a field that the call has observed, also
\* not one that an earlier version of the module had and this one has dropped:
\* mergePatch gives it back as desired, only null removes it.
FieldsStay ==
  [][pc = "answered" /\ pc' = "idle" =>
       \A i \in Exists(cluster) \cap Exists(cluster') \cap DOMAIN module :
         (cluster[i].fields \cap observed[i].fields) \ module[i].nulls
           \subseteq cluster'[i].fields]_vars

-----------------------------------------------------------------------------
(***************************************************************************)
(* What the library says and does not do                                   *)
(***************************************************************************)
\* isReady takes "one resource or array of resources", as its assertion says
\* (lib.jsonnet:22): a resource that names what it depends on in that way is
\* desired like one that names ids, in every evaluation in which nothing of the
\* module fails and those resources do not make it wait.
DependOnTakesResources ==
  [][Evaluate({}) /\ pc = "called" =>
       \A i \in DOMAIN module :
         /\ module[i].dependOn.by = "object"
         /\ \E d \in module[i].dependOn.on : ~ConditionsTrue(d)
         => i \in Exists(desired')]_vars
=============================================================================
