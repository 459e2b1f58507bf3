------------------------- MODULE RepoManagerProofs -------------------------
(***************************************************************************)
(* The safety properties of RepoManager, for any modules, revisions,       *)
(* handlers, capacity of the channels and bounds.  What worker() is at     *)
(* (WorkerInv), its tables (TablesInv), the Repos that run (InstancesInv)  *)
(* and the calls (CallsInv) are inductive together with the types; that    *)
(* Repos never meet in a directory, that evaluations are in the current    *)
(* one, and the refinement of Registry follow from them.  AccountingProofs  *)
(* adds the balance of uses.                                               *)
(***************************************************************************)
EXTENDS RepoManager, FiniteSetTheorems, SequenceTheorems, TLAPS

USE DEF cluster, informer, channels, tables, instances, bounds, vars

\* What worker() is doing with target is true of the tables: the maps change
\* under its hands in no other goroutine.
WorkerInv ==
  /\ worker = "creating" => repos[target] = NoRepo
  /\ worker \in {"destroying", "removing", "stuck"} =>
       repos[target] # NoRepo /\ uses[target] = 1
  /\ worker = "removing" => Repo(target) \notin running

\* A revision has a use exactly when it has a Repo.
TablesInv == \A h \in Hashes : repos[h] = NoRepo <=> uses[h] = 0

\* Only Repos of the map run, and all of them but the one that is being removed;
\* an initialised one runs, and has its clone.
InstancesInv ==
  /\ \A r \in running : repos[r[1]] # NoRepo /\ r = Repo(r[1])
  /\ \A h \in Hashes : repos[h] # NoRepo =>
       Repo(h) \in running \/ (worker = "removing" /\ target = h)
  /\ initialized \subseteq running
  /\ \A r \in initialized : r[1] \in cloned

\* A call is about a revision, and evaluates in a Repo that is initialised.
CallsInv ==
  \A c \in Callers : /\ calls[c].at # "idle" => calls[c].repo[1] \in Hashes
                     /\ calls[c].at = "evaluating" => calls[c].repo \in initialized

IInv == TypeOK /\ WorkerInv /\ TablesInv /\ InstancesInv /\ CallsInv

-----------------------------------------------------------------------------
(***************************************************************************)
(* Types, in parts: each action disturbs one or two of them                *)
(***************************************************************************)
Messages == [to : {"ConfigUpdates", "ConfigDeletes"}, hash : Hashes]
Calls == [at : {"idle", "reading", "holding", "evaluating"}, repo : MaybeHash \X Nat]
Workers == {"select", "creating", "destroying", "removing", "stuck"}

SendingType == sending \in Seq(Messages)
UpdatesType == updates \in Seq(Hashes) /\ Len(updates) <= Capacity
DeletesType == deletes \in Seq(Hashes) /\ Len(deletes) <= Capacity
WorkerType == worker \in Workers /\ target \in MaybeHash /\ (worker # "select" => target \in Hashes)
TablesType == /\ repos \in [Hashes -> Nat] /\ uses \in [Hashes -> Nat]
              /\ made \in [Hashes -> Nat] /\ dropped \in [Hashes -> Nat]
InstancesType == running \subseteq RepoIds /\ initialized \subseteq RepoIds /\ cloned \subseteq Hashes
CallsType == calls \in [Callers -> Calls]
ClusterType == /\ modules \in [Modules -> MaybeHash] /\ known \in [Modules -> MaybeHash]
               /\ changes \in 0..MaxChanges
BoundsType == faults \in 0..MaxFaults /\ restarts \in 0..MaxRestarts

\* The parts make up the type invariant.
LEMMA TypeParts ==
  TypeOK <=> /\ SendingType /\ UpdatesType /\ DeletesType /\ WorkerType /\ TablesType
             /\ InstancesType /\ CallsType /\ ClusterType /\ BoundsType
BY DEF TypeOK, SendingType, UpdatesType, DeletesType, WorkerType, TablesType,
       InstancesType, CallsType, ClusterType, BoundsType, Messages, Calls, Workers

\* A new message is of the type of the channel.
LEMMA AppendType ==
  ASSUME NEW S, NEW s \in Seq(S), NEW x \in S
  PROVE  Append(s, x) \in Seq(S) /\ Len(Append(s, x)) = Len(s) + 1
OBVIOUS

\* The informer's handlers send revisions, the old one before the new one.
LEMMA EventType ==
  ASSUME NEW old \in MaybeHash, NEW new \in MaybeHash
  PROVE  Event(old, new) \in Seq(Messages)
<1>1. \A h \in Hashes : <<Delete(h)>> \in Seq(Messages) /\ <<Add(h)>> \in Seq(Messages)
  BY DEF Messages, Add, Delete
<1>2. /\ old # NoHash => <<Delete(old)>> \in Seq(Messages)
      /\ new # NoHash => <<Add(new)>> \in Seq(Messages)
  BY <1>1 DEF MaybeHash
<1> QED
  BY <1>2, ConcatProperties, EmptySeq DEF Event

\* What worker() takes from a channel is a revision, what is left fits in.
LEMMA TakeType ==
  ASSUME NEW s \in Seq(Hashes), Len(s) <= Capacity, s # <<>>
  PROVE  Head(s) \in Hashes /\ Tail(s) \in Seq(Hashes) /\ Len(Tail(s)) <= Capacity
<1>1. Head(s) \in Hashes /\ Tail(s) \in Seq(Hashes) /\ Len(Tail(s)) = Len(s) - 1
  BY HeadTailProperties
<1>2. Len(s) \in Nat
  BY LenProperties
<1> QED
  BY <1>1, <1>2, RepoManagerAssumption

\* The informer's messages and the two channels.
LEMMA SendType ==
  ASSUME SendingType, UpdatesType, DeletesType, Send
  PROVE  SendingType' /\ UpdatesType' /\ DeletesType'
<1>1. Head(sending) \in Messages /\ sending' \in Seq(Messages)
  BY HeadTailProperties DEF Send, SendingType
<1>2. Head(sending).hash \in Hashes
  BY <1>1 DEF Messages
<1>3. CASE Len(updates) < Capacity /\ updates' = Append(updates, Head(sending).hash)
           /\ UNCHANGED deletes
  <2>1. updates' \in Seq(Hashes) /\ Len(updates') = Len(updates) + 1
    BY <1>2, <1>3, AppendType DEF UpdatesType
  <2>2. Len(updates) \in Nat
    BY LenProperties DEF UpdatesType
  <2> QED
    BY <1>1, <1>3, <2>1, <2>2, RepoManagerAssumption DEF SendingType, UpdatesType, DeletesType
<1>4. CASE Len(deletes) < Capacity /\ deletes' = Append(deletes, Head(sending).hash)
           /\ UNCHANGED updates
  <2>1. deletes' \in Seq(Hashes) /\ Len(deletes') = Len(deletes) + 1
    BY <1>2, <1>4, AppendType DEF DeletesType
  <2>2. Len(deletes) \in Nat
    BY LenProperties DEF DeletesType
  <2> QED
    BY <1>1, <1>4, <2>1, <2>2, RepoManagerAssumption DEF SendingType, UpdatesType, DeletesType
<1> QED
  BY <1>3, <1>4 DEF Send

\* A failing call stays within the bound on failing calls.
LEMMA FaultType ==
  ASSUME BoundsType, Fault \/ UNCHANGED faults, UNCHANGED restarts
  PROVE  BoundsType'
BY RepoManagerAssumption DEF Fault, BoundsType

\* Every step keeps every variable in its type.
LEMMA TypeStep == TypeOK /\ WorkerInv /\ CallsInv /\ [Next]_vars => TypeOK'
<1> SUFFICES ASSUME TypeOK, WorkerInv, CallsInv, [Next]_vars PROVE TypeOK'
  OBVIOUS
<1>0. /\ SendingType /\ UpdatesType /\ DeletesType /\ WorkerType /\ TablesType
      /\ InstancesType /\ CallsType /\ ClusterType /\ BoundsType
  BY TypeParts
<1> SUFFICES /\ SendingType' /\ UpdatesType' /\ DeletesType' /\ WorkerType' /\ TablesType'
             /\ InstancesType' /\ CallsType' /\ ClusterType' /\ BoundsType'
  BY DEF TypeOK, SendingType, UpdatesType, DeletesType, WorkerType, TablesType,
         InstancesType, CallsType, ClusterType, BoundsType, Messages, Calls, Workers
<1> DEFINE Flow == SendingType /\ UpdatesType /\ DeletesType
           Rest == WorkerType /\ TablesType /\ InstancesType /\ CallsType
           Limits == ClusterType /\ BoundsType
<1> SUFFICES Flow' /\ Rest' /\ Limits'
  OBVIOUS
<1> USE <1>0
<1>a. UNCHANGED <<sending, updates, deletes>> => Flow'
  BY DEF SendingType, UpdatesType, DeletesType
<1>b. UNCHANGED <<worker, target, repos, uses, made, dropped, running, initialized, cloned,
                  calls>> => Rest'
  BY DEF WorkerType, TablesType, InstancesType, CallsType
<1>c. UNCHANGED <<modules, known, changes, faults, restarts>> => Limits'
  BY DEF ClusterType, BoundsType
<1>d. UNCHANGED <<modules, known, changes>> => ClusterType'
  BY DEF ClusterType
<1> HIDE DEF Flow, Rest, Limits
<1>1. ASSUME NEW m \in Modules, ChangeModule(m) PROVE Flow' /\ Rest' /\ Limits'
  <2>1. Limits'
    BY <1>1, RepoManagerAssumption DEF ChangeModule, Limits, ClusterType, BoundsType
  <2> QED
    BY <1>1, <2>1, <1>a, <1>b DEF ChangeModule
<1>2. ASSUME NEW m \in Modules, Deliver(m) PROVE Flow' /\ Rest' /\ Limits'
  <2>1. Limits'
    BY <1>2 DEF Deliver, Limits, ClusterType, BoundsType
  <2>2. sending' \in Seq(Messages)
    BY <1>2, EventType DEF Deliver, ClusterType
  <2>3. Flow'
    BY <1>2, <2>2 DEF Deliver, Flow, SendingType, UpdatesType, DeletesType
  <2> QED
    BY <1>2, <2>1, <2>3, <1>b DEF Deliver
<1>3. CASE Send
  <2>1. Flow'
    BY <1>3, SendType DEF Flow
  <2> QED
    BY <1>3, <2>1, <1>b, <1>c DEF Send
<1>4. CASE TakeUpdate
  <2>1. updates' = Tail(updates) /\ updates # <<>> /\ UNCHANGED <<sending, deletes>>
    BY <1>4 DEF TakeUpdate, CountUse, BeginCreate
  <2>2. Head(updates) \in Hashes /\ Flow'
    BY <2>1, TakeType DEF Flow, SendingType, UpdatesType, DeletesType
  <2>3. CASE CountUse
    <3>1. Rest'
      BY <2>2, <2>3 DEF CountUse, Rest, WorkerType, TablesType, InstancesType, CallsType
    <3> QED
      BY <2>2, <2>3, <3>1, <1>c DEF CountUse
  <2>4. CASE BeginCreate
    <3>1. Rest'
      BY <2>2, <2>4 DEF BeginCreate, Rest, WorkerType, Workers, MaybeHash, TablesType,
                        InstancesType, CallsType
    <3> QED
      BY <2>2, <2>4, <3>1, <1>c DEF BeginCreate
  <2> QED
    BY <1>4, <2>3, <2>4 DEF TakeUpdate
<1>5. CASE TakeDelete
  <2>1. deletes' = Tail(deletes) /\ deletes # <<>> /\ UNCHANGED <<sending, updates>>
    BY <1>5 DEF TakeDelete, DropDelete, UncountUse, BeginDestroy
  <2>2. Head(deletes) \in Hashes /\ Flow'
    BY <2>1, TakeType DEF Flow, SendingType, UpdatesType, DeletesType
  <2>3. CASE DropDelete
    <3>1. Rest'
      BY <2>2, <2>3 DEF DropDelete, Rest, WorkerType, TablesType, InstancesType, CallsType
    <3> QED
      BY <2>2, <2>3, <3>1, <1>c DEF DropDelete
  <2>4. CASE UncountUse
    <3>1. uses[Head(deletes)] - 1 \in Nat
      BY <2>2, <2>4 DEF UncountUse, TablesType
    <3>2. Rest'
      BY <2>2, <2>4, <3>1 DEF UncountUse, Rest, WorkerType, TablesType, InstancesType, CallsType
    <3> QED
      BY <2>2, <2>4, <3>2, <1>c DEF UncountUse
  <2>5. CASE BeginDestroy
    <3>1. Rest'
      BY <2>2, <2>5 DEF BeginDestroy, Rest, WorkerType, Workers, MaybeHash, TablesType,
                        InstancesType, CallsType
    <3> QED
      BY <2>2, <2>5, <3>1, <1>c DEF BeginDestroy
  <2> QED
    BY <1>5, <2>3, <2>4, <2>5 DEF TakeDelete
<1>6. CASE Create
  <2>1. Rest'
    BY <1>6 DEF Create, Rest, WorkerType, Workers, TablesType, InstancesType, RepoIds, CallsType
  <2> QED
    BY <1>6, <2>1, <1>a, <1>c DEF Create
<1>7. CASE Destroyed
  <2>1. Rest'
    BY <1>7 DEF Destroyed, Rest, WorkerType, Workers, TablesType, InstancesType, CallsType
  <2>2. Limits'
    BY <1>7, FaultType, <1>d DEF Destroyed, Limits
  <2> QED
    BY <1>7, <2>1, <2>2, <1>a DEF Destroyed
<1>8. CASE DestroyHangs
  <2>1. Rest'
    BY <1>8 DEF DestroyHangs, Rest, WorkerType, Workers, TablesType, InstancesType, CallsType
  <2> QED
    BY <1>8, <2>1, <1>a, <1>c DEF DestroyHangs
<1>9. CASE Remove
  <2>1. Rest'
    BY <1>9 DEF Remove, Rest, WorkerType, Workers, TablesType, NoRepo, InstancesType, CallsType
  <2> QED
    BY <1>9, <2>1, <1>a, <1>c DEF Remove
<1>10. ASSUME NEW r \in running, Clone(r) PROVE Flow' /\ Rest' /\ Limits'
  <2>1. r \in RepoIds /\ r[1] \in Hashes
    BY DEF InstancesType, RepoIds
  <2>2. Rest'
    BY <1>10, <2>1 DEF Clone, Rest, WorkerType, TablesType, InstancesType, CallsType
  <2>3. Limits'
    BY <1>10, FaultType, <1>d DEF Clone, Limits
  <2> QED
    BY <1>10, <2>2, <2>3, <1>a DEF Clone
<1>11. ASSUME NEW c \in Callers, GetRepo(c) \/ Call(c) PROVE Flow' /\ Rest' /\ Limits'
  <2>1. Idle \in Calls
    BY DEF Idle, Calls, MaybeHash, NoRepo
  <2>2. CallsType'
    <3>1. CASE GetRepo(c)
      BY <3>1 DEF GetRepo, CallsType, Calls, MaybeHash, NoRepo
    <3>2. CASE NotFound(c) \/ Refuse(c) \/ Return(c)
      BY <3>2, <2>1 DEF NotFound, Refuse, Return, CallsType
    <3>3. CASE Found(c)
      <4>1. calls[c].repo[1] \in Hashes
        BY <3>3 DEF Found, CallsInv
      <4>2. [at |-> "holding", repo |-> Repo(calls[c].repo[1])] \in Calls
        BY <4>1 DEF Calls, Repo, MaybeHash, TablesType
      <4> QED
        BY <3>3, <4>2 DEF Found, CallsType
    <3>4. CASE Evaluate(c)
      BY <3>4 DEF Evaluate, CallsType, Calls
    <3> QED
      BY <1>11, <3>1, <3>2, <3>3, <3>4 DEF Call
  <2>3. UNCHANGED <<cluster, informer, channels, worker, target, tables, instances, bounds>>
    BY <1>11 DEF GetRepo, Call, NotFound, Refuse, Return, Found, Evaluate
  <2>4. Rest'
    BY <2>2, <2>3 DEF Rest, WorkerType, TablesType, InstancesType
  <2> QED
    BY <2>3, <2>4, <1>a, <1>c
<1>12. CASE Restart
  <2>1. Flow'
    BY <1>12, EmptySeq, RepoManagerAssumption DEF Restart, Flow, SendingType, UpdatesType, DeletesType
  <2>2. Rest'
    BY <1>12 DEF Restart, Rest, WorkerType, Workers, MaybeHash, TablesType, NoRepo, InstancesType,
                 CallsType, Calls, Idle
  <2>3. Limits'
    BY <1>12, RepoManagerAssumption DEF Restart, Limits, ClusterType, MaybeHash, BoundsType
  <2> QED
    BY <2>1, <2>2, <2>3
<1>13. CASE UNCHANGED vars
  BY <1>13, <1>a, <1>b, <1>c
<1> QED
  BY <1>1, <1>2, <1>3, <1>4, <1>5, <1>6, <1>7, <1>8, <1>9, <1>10, <1>11, <1>12, <1>13
     DEF Next, Worker

-----------------------------------------------------------------------------
(***************************************************************************)
(* The invariant                                                           *)
(***************************************************************************)
\* The initial states satisfy it.
LEMMA InitIInv == Init => IInv
<1> SUFFICES ASSUME Init PROVE IInv
  OBVIOUS
<1>1. SendingType /\ UpdatesType /\ DeletesType
  BY EmptySeq, RepoManagerAssumption DEF Init, SendingType, UpdatesType, DeletesType
<1>2. WorkerType /\ TablesType /\ InstancesType /\ CallsType
  BY DEF Init, WorkerType, Workers, MaybeHash, TablesType, NoRepo, InstancesType, CallsType, Calls, Idle
<1>3. ClusterType /\ BoundsType
  BY RepoManagerAssumption DEF Init, ClusterType, MaybeHash, BoundsType
<1>4. WorkerInv /\ TablesInv /\ InstancesInv /\ CallsInv
  BY DEF Init, WorkerInv, TablesInv, InstancesInv, CallsInv, NoRepo, Idle
<1> QED
  BY <1>1, <1>2, <1>3, <1>4, TypeParts DEF IInv

\* What is not about the tables, the Repos and the calls does not disturb it.
LEMMA OthersKeepInvs ==
  ASSUME WorkerInv, TablesInv, InstancesInv, CallsInv,
         UNCHANGED <<worker, target, repos, uses, running, initialized, cloned, calls>>
  PROVE  (WorkerInv /\ TablesInv /\ InstancesInv /\ CallsInv)'
BY DEF WorkerInv, TablesInv, InstancesInv, CallsInv, Repo

\* A step of worker() keeps tables, Repos and calls in agreement.
LEMMA WorkerKeepsInvs ==
  ASSUME IInv, Worker
  PROVE  (WorkerInv /\ TablesInv /\ InstancesInv /\ CallsInv)'
<1>0. /\ UpdatesType /\ DeletesType /\ WorkerType /\ TablesType /\ InstancesType /\ CallsType
      /\ WorkerInv /\ TablesInv /\ InstancesInv /\ CallsInv
  BY TypeParts DEF IInv
<1> USE <1>0 DEF NoRepo, Repo
<1>1. /\ updates # <<>> => Head(updates) \in Hashes
      /\ deletes # <<>> => Head(deletes) \in Hashes
  BY TakeType DEF UpdatesType, DeletesType
<1>2. CASE CountUse
  <2>1. TablesInv'
    BY <1>1, <1>2 DEF CountUse, TablesInv, TablesType
  <2>2. WorkerInv' /\ InstancesInv' /\ CallsInv'
    BY <1>2 DEF CountUse, WorkerInv, InstancesInv, CallsInv
  <2> QED
    BY <2>1, <2>2
<1>3. CASE BeginCreate
  BY <1>3 DEF BeginCreate, WorkerInv, TablesInv, InstancesInv, CallsInv
<1>4. CASE DropDelete
  BY <1>4, OthersKeepInvs DEF DropDelete
<1>5. CASE UncountUse
  <2>1. TablesInv'
    BY <1>1, <1>5 DEF UncountUse, TablesInv, TablesType
  <2>2. WorkerInv' /\ InstancesInv' /\ CallsInv'
    BY <1>5 DEF UncountUse, WorkerInv, InstancesInv, CallsInv
  <2> QED
    BY <2>1, <2>2
<1>6. CASE BeginDestroy
  <2>1. repos[target'] # 0 /\ uses[target'] = 1
    <3>1. target' \in Hashes /\ repos[target'] # 0 /\ uses[target'] <= 1
      BY <1>1, <1>6 DEF BeginDestroy
    <3>2. uses[target'] \in Nat /\ uses[target'] # 0
      BY <3>1 DEF TablesInv, TablesType
    <3> QED
      BY <3>1, <3>2
  <2>2. WorkerInv' /\ TablesInv' /\ CallsInv'
    BY <1>6, <2>1 DEF BeginDestroy, WorkerInv, TablesInv, CallsInv
  <2>3. InstancesInv'
    BY <1>6 DEF BeginDestroy, InstancesInv
  <2> QED
    BY <2>2, <2>3
<1>7. CASE Create
  <2>1. target \in Hashes /\ repos[target] = 0
    BY <1>7 DEF Create, WorkerType, WorkerInv
  <2>2. \A h \in Hashes : repos'[h] = (IF h = target THEN made[target] + 1 ELSE repos[h])
                          /\ uses'[h] = (IF h = target THEN 1 ELSE uses[h])
    BY <1>7, <2>1 DEF Create, TablesType
  <2>3. made[target] + 1 # 0
    BY <2>1 DEF TablesType
  <2>4. TablesInv'
    BY <2>2, <2>3 DEF TablesInv
  <2>5. \A r \in running : r[1] \in Hashes /\ r[1] # target
    BY <2>1 DEF InstancesInv, InstancesType, RepoIds
  <2>6. InstancesInv'
    BY <1>7, <2>1, <2>2, <2>3, <2>5 DEF Create, InstancesInv
  <2>7. WorkerInv' /\ CallsInv'
    BY <1>7 DEF Create, WorkerInv, CallsInv
  <2> QED
    BY <2>4, <2>6, <2>7
<1>8. CASE Destroyed
  <2>1. target \in Hashes /\ repos[target] # 0 /\ uses[target] = 1
    BY <1>8 DEF Destroyed, WorkerType, WorkerInv
  <2>2. InstancesInv'
    BY <1>8, <2>1 DEF Destroyed, InstancesInv, InstancesType, RepoIds
  <2>3. CallsInv'
    BY <1>8 DEF Destroyed, CallsInv, NobodyEvaluates
  <2>4. WorkerInv' /\ TablesInv'
    BY <1>8, <2>1 DEF Destroyed, WorkerInv, TablesInv
  <2> QED
    BY <2>2, <2>3, <2>4
<1>9. CASE DestroyHangs
  BY <1>9 DEF DestroyHangs, WorkerInv, TablesInv, InstancesInv, CallsInv
<1>10. CASE Remove
  <2>1. target \in Hashes /\ Repo(target) \notin running
    BY <1>10 DEF Remove, WorkerType, WorkerInv
  <2>2. \A h \in Hashes : repos'[h] = (IF h = target THEN 0 ELSE repos[h])
                          /\ uses'[h] = (IF h = target THEN 0 ELSE uses[h])
    BY <1>10, <2>1 DEF Remove, TablesType
  <2>3. \A r \in running : r[1] \in Hashes /\ r[1] # target
    BY <2>1 DEF InstancesInv, InstancesType, RepoIds
  <2>4. InstancesInv'
    BY <1>10, <2>1, <2>2, <2>3 DEF Remove, InstancesInv
  <2>5. WorkerInv' /\ TablesInv' /\ CallsInv'
    BY <1>10, <2>2 DEF Remove, WorkerInv, TablesInv, CallsInv
  <2> QED
    BY <2>4, <2>5
<1> QED
  BY <1>2, <1>3, <1>4, <1>5, <1>6, <1>7, <1>8, <1>9, <1>10 DEF Worker, TakeUpdate, TakeDelete

\* Every step preserves the invariant.
LEMMA StepIInv == IInv /\ [Next]_vars => IInv'
<1> SUFFICES ASSUME IInv, [Next]_vars PROVE IInv'
  OBVIOUS
<1>0. WorkerInv /\ TablesInv /\ InstancesInv /\ CallsInv /\ InstancesType /\ CallsType
  BY TypeParts DEF IInv
<1>1. TypeOK'
  BY TypeStep DEF IInv
<1> SUFFICES (WorkerInv /\ TablesInv /\ InstancesInv /\ CallsInv)'
  BY <1>1 DEF IInv
<1>2. CASE (\E m \in Modules : ChangeModule(m) \/ Deliver(m)) \/ Send \/ UNCHANGED vars
  BY <1>0, <1>2, OthersKeepInvs DEF ChangeModule, Deliver, Send
<1>3. CASE Worker
  BY <1>3, WorkerKeepsInvs
<1>4. ASSUME NEW r \in running, Clone(r)
      PROVE  (WorkerInv /\ TablesInv /\ InstancesInv /\ CallsInv)'
  <2>1. running' = running /\ initialized' \subseteq initialized \cup {r}
        /\ initialized \subseteq initialized' /\ cloned' = cloned \cup {r[1]}
    BY <1>4 DEF Clone
  <2> QED
    BY <1>0, <1>4, <2>1 DEF Clone, WorkerInv, TablesInv, InstancesInv, CallsInv, Repo
<1>5. ASSUME NEW c \in Callers, GetRepo(c) \/ Call(c)
      PROVE  (WorkerInv /\ TablesInv /\ InstancesInv /\ CallsInv)'
  <2>1. UNCHANGED <<cluster, informer, channels, worker, target, tables, instances, bounds>>
    BY <1>5 DEF GetRepo, Call, NotFound, Refuse, Return, Found, Evaluate
  <2>2. \A d \in Callers \ {c} : calls'[d] = calls[d]
    BY <1>0, <1>5 DEF GetRepo, Call, NotFound, Refuse, Return, Found, Evaluate, CallsType
  <2>3. /\ calls'[c].at # "idle" => calls'[c].repo[1] \in Hashes
        /\ calls'[c].at = "evaluating" => calls'[c].repo \in initialized
    <3>1. CASE GetRepo(c)
      BY <1>0, <3>1 DEF GetRepo, CallsType
    <3>2. CASE NotFound(c) \/ Refuse(c) \/ Return(c)
      BY <1>0, <3>2 DEF NotFound, Refuse, Return, CallsType, Idle
    <3>3. CASE Found(c)
      BY <1>0, <3>3 DEF Found, CallsType, CallsInv, Repo
    <3>4. CASE Evaluate(c)
      BY <1>0, <3>4 DEF Evaluate, CallsType, Calls, CallsInv
    <3> QED
      BY <1>5, <3>1, <3>2, <3>3, <3>4 DEF Call
  <2> QED
    BY <1>0, <2>1, <2>2, <2>3 DEF WorkerInv, TablesInv, InstancesInv, CallsInv, Repo
<1>6. CASE Restart
  BY <1>6 DEF Restart, WorkerInv, TablesInv, InstancesInv, CallsInv, NoRepo, Idle
<1> QED
  BY <1>2, <1>3, <1>4, <1>5, <1>6 DEF Next

\* Tables, Repos, directories and calls agree, whatever the order of messages and
\* calls, and whatever fails.
THEOREM Inductive == Spec => []IInv
  BY InitIInv, StepIInv, PTL DEF Spec

\* Every variable keeps its type.
THEOREM TypeCorrect == Spec => []TypeOK
<1>1. IInv => TypeOK
  BY DEF IInv
<1> QED
  BY <1>1, Inductive, PTL

\* The goroutine of a Repo has ended before the next one for its directory is
\* started (repoManager.go:86, repo.go:431).
THEOREM DirectoriesAreNotShared == Spec => []OneRepoPerDirectory
<1>1. IInv => OneRepoPerDirectory
  BY DEF IInv, InstancesInv, OneRepoPerDirectory
<1> QED
  BY <1>1, Inductive, PTL

\* A Repo that a handler has looked up earlier evaluates only while it is the
\* one in the map, runs, and has its clone (repoManager.go:121, repo.go:447).
THEOREM EvaluationsAreCurrent == Spec => []EvaluatesTheCurrentRepo
<1>1. IInv => EvaluatesTheCurrentRepo
  BY DEF IInv, CallsInv, InstancesInv, EvaluatesTheCurrentRepo
<1> QED
  BY <1>1, Inductive, PTL

-----------------------------------------------------------------------------
(***************************************************************************)
(* Refinement of Registry                                                  *)
(***************************************************************************)
\* Nothing changes there when no Repo starts, ends or is prepared, and no
\* evaluation begins or ends.
LEMMA OthersStutter ==
  ASSUME UNCHANGED <<repos, made, running, initialized, calls>>
  PROVE  UNCHANGED Abstract!vars
BY DEF Abstract!vars, Serving, Ready, Evaluating, Repo

\* Only what evaluates counts of a call.
LEMMA CallStutters ==
  ASSUME NEW c \in Callers, InstancesType, CallsType,
         UNCHANGED <<repos, made, running, initialized>>,
         \A d \in Callers \ {c} : calls'[d] = calls[d],
         calls[c].at # "evaluating", calls'[c].at # "evaluating"
  PROVE  UNCHANGED Abstract!vars
<1>1. \A d \in Callers : Evaluating'[d] = Evaluating[d]
  BY DEF Evaluating
<1>2. Evaluating' = Evaluating
  BY <1>1 DEF Evaluating
<1> QED
  BY <1>2 DEF Abstract!vars, Serving, Ready, Repo

\* A revision without a Repo in the map has no Repo of any number.
LEMMA NoneRuns ==
  ASSUME InstancesType, InstancesInv, NEW h \in Hashes, repos[h] = NoRepo \/ Repo(h) \notin running
  PROVE  \A r \in running \cup initialized : r[1] \in Hashes /\ r[1] # h
BY DEF InstancesType, InstancesInv, RepoIds

\* NewRepo: the first Repo of a revision, or the next one.
LEMMA CreateServes == IInv /\ Create => Abstract!Serve(target)
<1> SUFFICES ASSUME IInv, Create PROVE Abstract!Serve(target)
  OBVIOUS
<1>1. TablesType /\ InstancesType /\ InstancesInv
  BY TypeParts DEF IInv
<1>2. target \in Hashes /\ repos[target] = NoRepo
  BY TypeParts DEF IInv, Create, WorkerType, WorkerInv
<1>3. \A r \in running \cup initialized : r[1] \in Hashes /\ r[1] # target
  BY <1>1, <1>2, NoneRuns
<1>4. \A h \in Hashes : repos'[h] = IF h = target THEN made[target] + 1 ELSE repos[h]
  BY <1>1, <1>2 DEF Create, TablesType
<1>5. Serving[target] = 0
  BY <1>2 DEF Serving, NoRepo
<1>6. made' = [made EXCEPT ![target] = @ + 1]
  BY DEF Create
<1>7. \A h \in Hashes : Serving'[h] = IF h = target THEN made[target] + 1 ELSE Serving[h]
  BY <1>2, <1>4 DEF Create, Serving, Repo
<1>8. Serving' = [Serving EXCEPT ![target] = made[target] + 1]
  BY <1>2, <1>7 DEF Serving
<1>9. Ready' = Ready
  BY <1>3, <1>4 DEF Create, Ready, Repo
<1>10. Evaluating' = Evaluating
  BY DEF Create, Evaluating
<1> QED
  BY <1>5, <1>6, <1>8, <1>9, <1>10 DEF Abstract!Serve

\* Destroy: the goroutine has ended, and nobody evaluates.
LEMMA DestroyedGivesUp == IInv /\ Destroyed => Abstract!GiveUp(target)
<1> SUFFICES ASSUME IInv, Destroyed PROVE Abstract!GiveUp(target)
  OBVIOUS
<1>1. InstancesType /\ InstancesInv
  BY TypeParts DEF IInv
<1>2. target \in Hashes /\ repos[target] # NoRepo /\ Repo(target) \in running
  BY TypeParts DEF IInv, Destroyed, WorkerType, WorkerInv, InstancesInv
<1>3. Serving[target] = repos[target] /\ Serving[target] # 0
  BY <1>2 DEF Serving, NoRepo
<1>4. \A c \in Callers : <<target, Serving[target]>> \notin Evaluating[c]
  BY <1>3 DEF Destroyed, NobodyEvaluates, Evaluating, Repo
<1>5. \A h \in Hashes : Serving'[h] = IF h = target THEN 0 ELSE Serving[h]
  BY <1>2 DEF Destroyed, Serving, Repo, NoRepo
<1>6. Serving' = [Serving EXCEPT ![target] = 0]
  BY <1>2, <1>5 DEF Serving
<1>7. Ready' = Ready \ {target}
  BY <1>2 DEF Destroyed, Ready, Repo
<1>8. made' = made /\ Evaluating' = Evaluating
  BY DEF Destroyed, Evaluating
<1> QED
  BY <1>3, <1>4, <1>6, <1>7, <1>8 DEF Abstract!GiveUp

\* Taking a Repo that has ended out of the map is no step of Registry.
LEMMA RemoveStutters == IInv /\ Remove => UNCHANGED Abstract!vars
<1> SUFFICES ASSUME IInv, Remove PROVE UNCHANGED Abstract!vars
  OBVIOUS
<1>1. TablesType /\ InstancesType /\ InstancesInv
  BY TypeParts DEF IInv
<1>2. target \in Hashes /\ Repo(target) \notin running
  BY TypeParts DEF IInv, Remove, WorkerType, WorkerInv
<1>3. \A r \in running \cup initialized : r[1] \in Hashes /\ r[1] # target
  BY <1>1, <1>2, NoneRuns
<1>4. \A h \in Hashes : repos'[h] = IF h = target THEN NoRepo ELSE repos[h]
  BY <1>1, <1>2 DEF Remove, TablesType
<1>5. \A h \in Hashes : Serving'[h] = Serving[h]
  BY <1>3, <1>4 DEF Remove, Serving, Repo
<1>6. Serving' = Serving
  BY <1>5 DEF Serving
<1>7. Ready' = Ready
  BY <1>3, <1>4 DEF Remove, Ready, Repo
<1> QED
  BY <1>6, <1>7 DEF Remove, Evaluating, Abstract!vars

\* init() of a Repo prepares its revision, or fails and leaves no trace here.
LEMMA ClonePrepares ==
  ASSUME IInv, NEW r \in running, Clone(r)
  PROVE  Abstract!Prepared(r[1]) \/ UNCHANGED Abstract!vars
<1>1. r[1] \in Hashes /\ r = Repo(r[1]) /\ repos[r[1]] # NoRepo
  BY TypeParts DEF IInv, InstancesType, InstancesInv, RepoIds
<1>2. Serving' = Serving /\ Evaluating' = Evaluating /\ made' = made
  BY DEF Clone, Serving, Evaluating, Repo
<1>3. CASE initialized' = initialized \cup {r}
  <2>1. Serving[r[1]] # 0
    BY <1>1 DEF Serving, NoRepo
  <2>2. r[1] \notin Ready
    BY <1>1 DEF Clone, Ready
  <2>3. Ready' = Ready \cup {r[1]}
    BY <1>1, <1>3 DEF Clone, Ready, Repo
  <2> QED
    BY <1>2, <2>1, <2>2, <2>3 DEF Abstract!Prepared
<1>4. CASE initialized' = initialized
  BY <1>2, <1>4 DEF Clone, Ready, Repo, Abstract!vars
<1> QED
  BY <1>3, <1>4 DEF Clone

\* A call begins to evaluate in the Repo that serves its revision.
LEMMA EvaluateBegins ==
  ASSUME IInv, NEW c \in Callers, Evaluate(c)
  PROVE  Abstract!Begin(c, calls[c].repo[1])
<1>1. InstancesInv /\ CallsInv /\ CallsType
  BY TypeParts DEF IInv
<1> DEFINE h == calls[c].repo[1]
<1>2. h \in Hashes /\ calls[c].repo \in initialized /\ calls[c].repo \in running
  BY <1>1 DEF Evaluate, CallsInv, InstancesInv
<1>3. calls[c].repo = Repo(h)
  BY <1>1, <1>2 DEF InstancesInv
<1>4. h \in Ready /\ Serving[h] = repos[h]
  BY <1>2, <1>3 DEF Ready, Serving
<1>5. Evaluating[c] = {}
  BY DEF Evaluate, Evaluating
<1>6. \A d \in Callers : Evaluating'[d] = IF d = c THEN {<<h, Serving[h]>>} ELSE Evaluating[d]
  BY <1>1, <1>3, <1>4 DEF Evaluate, Evaluating, CallsType, Calls, Repo
<1>7. Evaluating' = [Evaluating EXCEPT ![c] = {<<h, Serving[h]>>}]
  BY <1>6 DEF Evaluating
<1>8. Serving' = Serving /\ Ready' = Ready /\ made' = made
  BY DEF Evaluate, Serving, Ready, Repo
<1> QED
  BY <1>4, <1>5, <1>7, <1>8 DEF Abstract!Begin

\* It ends when it has returned.
LEMMA ReturnEnds ==
  ASSUME IInv, NEW c \in Callers, Return(c)
  PROVE  Abstract!End(c)
<1>1. CallsType
  BY TypeParts DEF IInv
<1>2. Evaluating[c] # {}
  BY DEF Return, Evaluating
<1>3. \A d \in Callers : Evaluating'[d] = IF d = c THEN {} ELSE Evaluating[d]
  BY <1>1 DEF Return, Evaluating, CallsType, Idle
<1>4. Evaluating' = [Evaluating EXCEPT ![c] = {}]
  BY <1>3 DEF Evaluating
<1>5. Serving' = Serving /\ Ready' = Ready /\ made' = made
  BY DEF Return, Serving, Ready, Repo
<1> QED
  BY <1>2, <1>4, <1>5 DEF Abstract!End

\* Every step of the repository server is one of Registry, or changes nothing there.
LEMMA RefinementStep == IInv /\ [Next]_vars => [Abstract!Next]_(Abstract!vars)
<1> SUFFICES ASSUME IInv, [Next]_vars PROVE Abstract!Next \/ UNCHANGED Abstract!vars
  OBVIOUS
<1>0. InstancesType /\ CallsType /\ WorkerType
  BY TypeParts DEF IInv
<1>1. CASE (\E m \in Modules : ChangeModule(m) \/ Deliver(m)) \/ Send \/ UNCHANGED vars
  BY <1>1, OthersStutter DEF ChangeModule, Deliver, Send
<1>2. CASE TakeUpdate \/ TakeDelete \/ DestroyHangs
  BY <1>2, OthersStutter DEF TakeUpdate, CountUse, BeginCreate, TakeDelete, DropDelete, UncountUse,
                             BeginDestroy, DestroyHangs
<1>3. CASE Create
  <2>1. target \in Hashes
    BY <1>0, <1>3 DEF Create, WorkerType
  <2> QED
    BY <1>3, <2>1, CreateServes DEF Abstract!Next
<1>4. CASE Destroyed
  <2>1. target \in Hashes
    BY <1>0, <1>4 DEF Destroyed, WorkerType
  <2> QED
    BY <1>4, <2>1, DestroyedGivesUp DEF Abstract!Next
<1>5. CASE Remove
  BY <1>5, RemoveStutters
<1>6. ASSUME NEW r \in running, Clone(r) PROVE Abstract!Next \/ UNCHANGED Abstract!vars
  <2>1. r[1] \in Hashes
    BY <1>0 DEF InstancesType, RepoIds
  <2> QED
    BY <1>6, <2>1, ClonePrepares DEF Abstract!Next
<1>7. ASSUME NEW c \in Callers, GetRepo(c) \/ NotFound(c) \/ Found(c) \/ Refuse(c)
      PROVE  UNCHANGED Abstract!vars
  <2>1. calls[c].at # "evaluating" /\ calls'[c].at # "evaluating"
    BY <1>0, <1>7 DEF GetRepo, NotFound, Found, Refuse, CallsType, Idle
  <2>2. \A d \in Callers \ {c} : calls'[d] = calls[d]
    BY <1>0, <1>7 DEF GetRepo, NotFound, Found, Refuse, CallsType
  <2>3. UNCHANGED <<repos, made, running, initialized>>
    BY <1>7 DEF GetRepo, NotFound, Found, Refuse
  <2> QED
    BY <1>0, <2>1, <2>2, <2>3, CallStutters
<1>8. ASSUME NEW c \in Callers, Evaluate(c) PROVE Abstract!Next
  <2>1. calls[c].repo[1] \in Hashes
    BY <1>8 DEF IInv, CallsInv, Evaluate
  <2> QED
    BY <1>8, <2>1, EvaluateBegins DEF Abstract!Next
<1>9. ASSUME NEW c \in Callers, Return(c) PROVE Abstract!Next
  BY <1>9, ReturnEnds DEF Abstract!Next
<1>10. CASE Restart
  <2>1. Serving' = [h \in Hashes |-> 0] /\ made' = [h \in Hashes |-> 0] /\ Ready' = {}
    BY <1>10 DEF Restart, Serving, Ready, NoRepo
  <2>2. Evaluating' = [c \in Callers |-> {}]
    BY <1>10 DEF Restart, Evaluating, Idle
  <2> QED
    BY <2>1, <2>2 DEF Abstract!Restart, Abstract!Init, Abstract!Next
<1> QED
  BY <1>1, <1>2, <1>3, <1>4, <1>5, <1>6, <1>7, <1>8, <1>9, <1>10 DEF Next, Worker, Call

\* For those who evaluate, the manager of Repos with its channels, its goroutine and
\* its restarts is a Registry: one Repo at a time for each revision, none given up
\* under an evaluation, none that comes back (repoManager.go:56-95).
THEOREM RepoManagerImplementsRegistry == Spec => ImplementsRegistry
<1>1. Init => Abstract!Init
  BY DEF Init, Abstract!Init, Serving, Ready, Evaluating, NoRepo, Idle
<1> QED
  BY <1>1, RefinementStep, Inductive, PTL DEF Spec, ImplementsRegistry, Abstract!Spec
=============================================================================
