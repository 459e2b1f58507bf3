-------------------------- MODULE AccountingProofs --------------------------
(***************************************************************************)
(* The balance of uses of RepoManager, for any modules, revisions,         *)
(* capacity of the channels and bounds: what is counted in a sequence      *)
(* changes by one when a message is sent or taken, what is counted in the  *)
(* store of the informer when it hears of a module.                        *)
(***************************************************************************)
EXTENDS RepoManagerProofs, FunctionTheorems

USE DEF cluster, informer, channels, tables, instances, bounds, vars

-----------------------------------------------------------------------------
(***************************************************************************)
(* Counting                                                                *)
(***************************************************************************)
Places(s, x) == {i \in 1..Len(s) : s[i] = x}
Same(a, b) == IF a = b THEN 1 ELSE 0

\* Counts are numbers.
LEMMA CountType ==
  ASSUME NEW S, NEW s \in Seq(S), NEW x
  PROVE  IsFiniteSet(Places(s, x)) /\ Count(s, x) = Cardinality(Places(s, x)) /\ Count(s, x) \in Nat
<1>1. Len(s) \in Nat
  BY LenProperties
<1>2. IsFiniteSet(1..Len(s))
  BY <1>1, FS_Interval
<1>3. IsFiniteSet(Places(s, x))
  BY <1>2, FS_Subset DEF Places
<1> QED
  BY <1>3, FS_CardinalityType DEF Places, Count

\* There is nothing in an empty channel.
LEMMA CountEmpty == \A x : Count(<<>>, x) = 0
<1> TAKE x
<1>1. {i \in 1..Len(<<>>) : <<>>[i] = x} = {}
  OBVIOUS
<1> QED
  BY <1>1, FS_EmptySet DEF Count

\* A message sent is one more.
LEMMA CountAppend ==
  ASSUME NEW S, NEW s \in Seq(S), NEW y \in S, NEW x
  PROVE  Count(Append(s, y), x) = Count(s, x) + Same(y, x)
<1>1. Append(s, y) \in Seq(S) /\ Len(Append(s, y)) = Len(s) + 1 /\ Len(s) \in Nat
  BY AppendType, LenProperties
<1>2. \A i \in 1..(Len(s) + 1) : Append(s, y)[i] = IF i = Len(s) + 1 THEN y ELSE s[i]
  OBVIOUS
<1>3. IsFiniteSet(Places(s, x)) /\ Count(s, x) = Cardinality(Places(s, x)) /\ Count(s, x) \in Nat
  BY CountType
<1>4. Count(Append(s, y), x) = Cardinality(Places(Append(s, y), x))
  BY <1>1, CountType
<1>5. CASE y = x
  <2>1. Places(Append(s, y), x) = Places(s, x) \cup {Len(s) + 1}
    BY <1>1, <1>2, <1>5 DEF Places
  <2>2. Len(s) + 1 \notin Places(s, x)
    BY <1>1 DEF Places
  <2> QED
    BY <1>3, <1>4, <1>5, <2>1, <2>2, FS_AddElement DEF Same
<1>6. CASE y # x
  <2>1. Places(Append(s, y), x) = Places(s, x)
    BY <1>1, <1>2, <1>6 DEF Places
  <2> QED
    BY <1>3, <1>4, <1>6, <2>1 DEF Same
<1> QED
  BY <1>5, <1>6

\* A message taken is one less.
LEMMA CountTail ==
  ASSUME NEW S, NEW s \in Seq(S), s # <<>>, NEW x
  PROVE  Count(s, x) = Count(Tail(s), x) + Same(Head(s), x)
<1> DEFINE t == Tail(s)
           U == {i \in 2..Len(s) : s[i] = x}
           f == [i \in Places(t, x) |-> i + 1]
<1>1. /\ t \in Seq(S) /\ Len(t) = Len(s) - 1 /\ Len(t) \in Nat /\ Len(s) \in Nat
      /\ \A i \in 1..Len(t) : t[i] = s[i + 1]
      /\ Head(s) = s[1]
  BY HeadTailProperties, LenProperties
<1>2. /\ IsFiniteSet(Places(t, x)) /\ Count(t, x) = Cardinality(Places(t, x))
      /\ Count(t, x) \in Nat /\ Count(s, x) = Cardinality(Places(s, x))
  BY <1>1, CountType
<1> HIDE DEF t
<1>3. f \in Bijection(Places(t, x), U)
  <2>1. f \in [Places(t, x) -> U]
    BY <1>1 DEF Places
  <2>2. \A i, j \in Places(t, x) : f[i] = f[j] => i = j
    BY <1>1 DEF Places
  <2>3. \A k \in U : k - 1 \in Places(t, x) /\ f[k - 1] = k
    BY <1>1 DEF Places
  <2> QED
    BY <2>1, <2>2, <2>3, Fun_IsBij
<1>4. IsFiniteSet(U) /\ Cardinality(U) = Count(t, x)
  BY <1>2, <1>3, FS_Bijection DEF ExistsBijection
<1>5. 1 \notin U
  OBVIOUS
<1>6. CASE s[1] = x
  <2>1. Places(s, x) = U \cup {1}
    BY <1>1, <1>6 DEF Places
  <2> QED
    BY <1>1, <1>2, <1>4, <1>5, <1>6, <2>1, FS_AddElement DEF Same, t
<1>7. CASE s[1] # x
  <2>1. Places(s, x) = U
    BY <1>1, <1>7 DEF Places
  <2> QED
    BY <1>1, <1>2, <1>4, <1>7, <2>1 DEF Same, t
<1> QED
  BY <1>6, <1>7

\* The informer's handlers announce one use less of the old revision and one more
\* of the new one (main.go:35-70).
LEMMA CountEvent ==
  ASSUME NEW old \in MaybeHash, NEW new \in MaybeHash, NEW h \in Hashes
  PROVE  /\ Count(Event(old, new), Add(h)) = Same(new, h)
         /\ Count(Event(old, new), Delete(h)) = Same(old, h)
<1>1. h # NoHash /\ <<>> \in Seq(Messages)
  BY RepoManagerAssumption
<1>2. ASSUME NEW y \in Messages, NEW z
      PROVE  <<y>> \in Seq(Messages) /\ Count(<<y>>, z) = Same(y, z)
  <2>1. <<y>> \in Seq(Messages) /\ Len(<<y>>) = 1 /\ <<y>>[1] = y
    OBVIOUS
  <2>2. {i \in 1..Len(<<y>>) : <<y>>[i] = z} = IF y = z THEN {1} ELSE {}
    BY <2>1
  <2> QED
    BY <2>1, <2>2, FS_EmptySet, FS_Singleton DEF Count, Same
<1>3. /\ old # NoHash => Delete(old) \in Messages
      /\ new # NoHash => Add(new) \in Messages
  BY DEF MaybeHash, Messages, Delete, Add
<1>4. \A k : /\ Add(k) = Add(h) <=> k = h
             /\ Delete(k) = Delete(h) <=> k = h
             /\ Add(k) # Delete(h) /\ Delete(k) # Add(h)
  BY DEF Add, Delete
<1>5. CASE old = NoHash /\ new = NoHash
  <2>1. Event(old, new) = <<>>
    BY <1>5, <1>1, ConcatEmptySeq DEF Event
  <2> QED
    BY <1>1, <1>5, <2>1, CountEmpty DEF Same
<1>6. CASE old # NoHash /\ new = NoHash
  <2>1. Event(old, new) = <<Delete(old)>>
    BY <1>6, <1>2, <1>3, ConcatEmptySeq DEF Event
  <2> QED
    BY <1>1, <1>2, <1>3, <1>4, <1>6, <2>1 DEF Same
<1>7. CASE old = NoHash /\ new # NoHash
  <2>1. Event(old, new) = <<Add(new)>>
    BY <1>7, <1>2, <1>3, ConcatEmptySeq DEF Event
  <2> QED
    BY <1>1, <1>2, <1>3, <1>4, <1>7, <2>1 DEF Same
<1>8. CASE old # NoHash /\ new # NoHash
  <2>1. Event(old, new) = Append(<<Delete(old)>>, Add(new))
    BY <1>8 DEF Event
  <2> DEFINE d == <<Delete(old)>>
  <2>2. /\ Count(Append(d, Add(new)), Add(h)) = Count(d, Add(h)) + Same(Add(new), Add(h))
        /\ Count(Append(d, Add(new)), Delete(h)) = Count(d, Delete(h)) + Same(Add(new), Delete(h))
    <3>1. d \in Seq(Messages)
      BY <1>2, <1>3, <1>8
    <3> HIDE DEF d
    <3> QED
      BY <1>3, <1>8, <3>1, CountAppend
  <2>3. /\ Count(d, Add(h)) = Same(Delete(old), Add(h))
        /\ Count(d, Delete(h)) = Same(Delete(old), Delete(h))
    BY <1>2, <1>3, <1>8
  <2>4. /\ Same(Delete(old), Add(h)) = 0 /\ Same(Delete(old), Delete(h)) = Same(old, h)
        /\ Same(Add(new), Delete(h)) = 0 /\ Same(Add(new), Add(h)) = Same(new, h)
    BY <1>4 DEF Same
  <2>5. Same(old, h) \in Nat /\ Same(new, h) \in Nat
    BY DEF Same
  <2> HIDE DEF d, Same
  <2>6. Event(old, new) = Append(d, Add(new))
    BY <2>1 DEF d
  <2> QED
    BY <2>2, <2>3, <2>4, <2>5, <2>6
<1> QED
  BY <1>5, <1>6, <1>7, <1>8

\* The informer hears that a module uses another revision.
LEMMA CountUsers ==
  ASSUME NEW m \in Modules, known \in [Modules -> MaybeHash], modules[m] # known[m],
         known' = [known EXCEPT ![m] = modules[m]], NEW h
  PROVE  Users(h)' + Same(known[m], h) = Users(h) + Same(modules[m], h)
<1> DEFINE S == {n \in Modules : known[n] = h}
           T == {n \in Modules : known'[n] = h}
<1>1. Users(h) = Cardinality(S) /\ Users(h)' = Cardinality(T)
  BY DEF Users
<1>2. IsFiniteSet(S) /\ Cardinality(S) \in Nat
  BY FS_Subset, FS_CardinalityType, RepoManagerAssumption
<1>3. CASE known[m] = h
  <2>1. T = S \ {m} /\ m \in S
    BY <1>3
  <2>2. Cardinality(T) = Cardinality(S) - 1
    BY <1>2, <2>1, FS_RemoveElement
  <2> QED
    BY <1>1, <1>2, <1>3, <2>2 DEF Same
<1>4. CASE modules[m] = h
  <2>1. T = S \cup {m} /\ m \notin S
    BY <1>4
  <2>2. Cardinality(T) = Cardinality(S) + 1
    BY <1>2, <2>1, FS_AddElement
  <2> QED
    BY <1>1, <1>2, <1>4, <2>2 DEF Same
<1>5. CASE known[m] # h /\ modules[m] # h
  <2>1. T = S
    BY <1>5
  <2> QED
    BY <1>1, <1>2, <1>5, <2>1 DEF Same
<1> QED
  BY <1>3, <1>4, <1>5

-----------------------------------------------------------------------------
(***************************************************************************)
(* The balance                                                             *)
(***************************************************************************)
Creating(h) == IF worker = "creating" /\ target = h THEN 1 ELSE 0
Ending(h) == IF worker \in {"destroying", "removing", "stuck"} /\ target = h THEN 1 ELSE 0

Balanced(h) ==
  uses[h] + Count(sending, Add(h)) + Count(updates, h) + Creating(h) =
    Users(h) + Count(sending, Delete(h)) + Count(deletes, h) + Ending(h) + dropped[h]

\* What is counted are numbers.
LEMMA Numbers ==
  ASSUME TypeOK, NEW h \in Hashes
  PROVE  /\ uses[h] \in Nat /\ dropped[h] \in Nat /\ Users(h) \in Nat
         /\ Count(sending, Add(h)) \in Nat /\ Count(sending, Delete(h)) \in Nat
         /\ Count(updates, h) \in Nat /\ Count(deletes, h) \in Nat
<1>1. SendingType /\ UpdatesType /\ DeletesType /\ TablesType
  BY TypeParts
<1>2. Users(h) \in Nat
  BY FS_Subset, FS_CardinalityType, RepoManagerAssumption DEF Users
<1> QED
  BY <1>1, <1>2, CountType DEF SendingType, UpdatesType, DeletesType, TablesType

\* Accounting is the balance of every revision.
LEMMA AccountingIsBalance == TypeOK => (Accounting <=> \A h \in Hashes : Balanced(h))
<1> SUFFICES ASSUME TypeOK, NEW h \in Hashes
             PROVE  uses[h] + PendingAdds(h) = Users(h) + PendingDeletes(h) + dropped[h]
                      <=> Balanced(h)
  BY DEF Accounting
<1>1. PendingAdds(h) = Count(sending, Add(h)) + Count(updates, h) + Creating(h)
  BY DEF PendingAdds, Same, Creating
<1>2. PendingDeletes(h) = Count(sending, Delete(h)) + Count(deletes, h) + Ending(h)
  BY DEF PendingDeletes, Same, Ending
<1>3. Creating(h) \in Nat /\ Ending(h) \in Nat
  BY DEF Creating, Ending
<1> QED
  BY <1>1, <1>2, <1>3, Numbers DEF Balanced

\* Nothing is counted in the other steps.
LEMMA OthersKeepBalance ==
  ASSUME NEW h \in Hashes, Balanced(h),
         UNCHANGED <<known, sending, updates, deletes, worker, target, uses, dropped>>
  PROVE  Balanced(h)'
BY DEF Balanced, Creating, Ending, Users

\* The informer announces what it enters in its store.
LEMMA DeliverKeepsBalance ==
  ASSUME TypeOK, TypeOK', NEW h \in Hashes, Balanced(h), NEW m \in Modules, Deliver(m)
  PROVE  Balanced(h)'
<1>1. known[m] \in MaybeHash /\ modules[m] \in MaybeHash /\ known \in [Modules -> MaybeHash]
  BY TypeParts DEF ClusterType
<1>2. /\ Count(sending, Add(h)) = 0 /\ Count(sending, Delete(h)) = 0
      /\ Count(sending', Add(h)) = Same(modules[m], h)
      /\ Count(sending', Delete(h)) = Same(known[m], h)
  BY <1>1, CountEmpty, CountEvent DEF Deliver
<1>3. Users(h)' + Same(known[m], h) = Users(h) + Same(modules[m], h)
  <2>1. known' = [known EXCEPT ![m] = modules[m]] /\ modules[m] # known[m]
    BY DEF Deliver
  <2> QED
    BY <1>1, <2>1, CountUsers
<1>4. UNCHANGED <<updates, deletes, uses, dropped>>
      /\ Creating(h)' = Creating(h) /\ Ending(h)' = Ending(h)
  BY DEF Deliver, Creating, Ending
<1>5. Users(h)' \in Nat
  BY FS_Subset, FS_CardinalityType, RepoManagerAssumption DEF Users
<1>6. Same(known[m], h) \in Nat /\ Same(modules[m], h) \in Nat
      /\ Creating(h) \in Nat /\ Ending(h) \in Nat
  BY DEF Same, Creating, Ending
<1> QED
  BY <1>2, <1>3, <1>4, <1>5, <1>6, Numbers DEF Balanced

\* A send moves a message from the handler to its channel.
LEMMA SendKeepsBalance ==
  ASSUME TypeOK, NEW h \in Hashes, Balanced(h), Send
  PROVE  Balanced(h)'
<1> DEFINE y == Head(sending)
<1>1. SendingType /\ UpdatesType /\ DeletesType
  BY TypeParts
<1>2. y \in Messages /\ y.hash \in Hashes /\ Tail(sending) \in Seq(Messages)
  <2>1. sending \in Seq(Messages) /\ sending # <<>>
    BY <1>1 DEF Send, SendingType
  <2>2. y \in Messages /\ Tail(sending) \in Seq(Messages)
    BY <2>1, HeadTailProperties
  <2> HIDE DEF y
  <2> QED
    BY <2>2 DEF Messages
<1>3. /\ Count(sending, Add(h)) = Count(sending', Add(h)) + Same(y, Add(h))
      /\ Count(sending, Delete(h)) = Count(sending', Delete(h)) + Same(y, Delete(h))
  BY <1>1, CountTail DEF Send, SendingType
<1>4. Count(sending', Add(h)) \in Nat /\ Count(sending', Delete(h)) \in Nat
  BY <1>2, CountType DEF Send
<1>5. UNCHANGED <<uses, dropped>> /\ Users(h)' = Users(h)
      /\ Creating(h)' = Creating(h) /\ Ending(h)' = Ending(h)
  BY DEF Send, Creating, Ending, Users
<1>6. Creating(h) \in Nat /\ Ending(h) \in Nat
  BY DEF Creating, Ending
<1>7. CASE y.to = "ConfigUpdates" /\ updates' = Append(updates, y.hash) /\ UNCHANGED deletes
  <2>1. Count(updates', h) = Count(updates, h) + Same(y.hash, h)
    BY <1>1, <1>2, <1>7, CountAppend DEF UpdatesType
  <2>2. Same(y, Add(h)) = Same(y.hash, h) /\ Same(y, Delete(h)) = 0 /\ Same(y.hash, h) \in Nat
    BY <1>2, <1>7 DEF Same, Add, Delete, Messages
  <2> HIDE DEF y
  <2> QED
    BY <1>3, <1>4, <1>5, <1>6, <1>7, <2>1, <2>2, Numbers DEF Balanced
<1>8. CASE y.to = "ConfigDeletes" /\ deletes' = Append(deletes, y.hash) /\ UNCHANGED updates
  <2>1. Count(deletes', h) = Count(deletes, h) + Same(y.hash, h)
    BY <1>1, <1>2, <1>8, CountAppend DEF DeletesType
  <2>2. Same(y, Delete(h)) = Same(y.hash, h) /\ Same(y, Add(h)) = 0 /\ Same(y.hash, h) \in Nat
    BY <1>2, <1>8 DEF Same, Add, Delete, Messages
  <2> HIDE DEF y
  <2> QED
    BY <1>3, <1>4, <1>5, <1>6, <1>8, <2>1, <2>2, Numbers DEF Balanced
<1> QED
  BY <1>7, <1>8 DEF Send

\* worker() enters in its tables what it takes from a channel, or drops a delete.
LEMMA WorkerKeepsBalance ==
  ASSUME IInv, TypeOK', NEW h \in Hashes, Balanced(h), Worker
  PROVE  Balanced(h)'
<1>1. /\ TypeOK /\ UpdatesType /\ DeletesType /\ WorkerType /\ TablesType
      /\ WorkerInv /\ TablesInv
  BY TypeParts DEF IInv
<1>2. /\ updates # <<>> => Head(updates) \in Hashes /\ Tail(updates) \in Seq(Hashes)
      /\ deletes # <<>> => Head(deletes) \in Hashes /\ Tail(deletes) \in Seq(Hashes)
  BY <1>1, TakeType DEF UpdatesType, DeletesType
<1>3. /\ updates # <<>> => Count(updates, h) = Count(Tail(updates), h) + Same(Head(updates), h)
      /\ deletes # <<>> => Count(deletes, h) = Count(Tail(deletes), h) + Same(Head(deletes), h)
  BY <1>1, CountTail DEF UpdatesType, DeletesType
<1>4. UNCHANGED <<known, sending>> /\ Users(h)' = Users(h)
  BY DEF Worker, TakeUpdate, CountUse, BeginCreate, TakeDelete, DropDelete, UncountUse,
         BeginDestroy, Create, Destroyed, DestroyHangs, Remove, Users
<1>5. /\ uses'[h] \in Nat /\ dropped'[h] \in Nat
      /\ Count(updates', h) \in Nat /\ Count(deletes', h) \in Nat
  BY CountType DEF TypeOK
<1>6. \A a, b : Same(a, b) \in Nat
  BY DEF Same
<1> DEFINE Before == uses[h] + Count(updates, h) + Creating(h)
           After == uses'[h] + Count(updates', h) + Creating(h)'
           Ended == dropped[h] + Count(deletes, h) + Ending(h)
           EndedAfter == dropped'[h] + Count(deletes', h) + Ending(h)'
<1>7. ASSUME After + Ended = Before + EndedAfter PROVE Balanced(h)'
  <2>1. Creating(h) \in Nat /\ Ending(h) \in Nat
        /\ Creating(h)' \in Nat /\ Ending(h)' \in Nat
    BY DEF Creating, Ending
  <2>2. Count(sending', Add(h)) = Count(sending, Add(h))
        /\ Count(sending', Delete(h)) = Count(sending, Delete(h))
    BY <1>4
  <2>3. /\ uses[h] \in Nat /\ dropped[h] \in Nat /\ Users(h) \in Nat
        /\ Count(sending, Add(h)) \in Nat /\ Count(sending, Delete(h)) \in Nat
        /\ Count(updates, h) \in Nat /\ Count(deletes, h) \in Nat
    BY <1>1, Numbers
  <2> HIDE DEF Same, Creating, Ending
  <2> QED
    BY <1>4, <1>5, <1>7, <2>1, <2>2, <2>3 DEF Balanced
<1> SUFFICES After + Ended = Before + EndedAfter
  BY <1>7
<1>8. /\ uses[h] \in Nat /\ dropped[h] \in Nat
      /\ Count(updates, h) \in Nat /\ Count(deletes, h) \in Nat
      /\ Creating(h) \in Nat /\ Ending(h) \in Nat /\ Creating(h)' \in Nat /\ Ending(h)' \in Nat
  BY <1>1, Numbers DEF Creating, Ending
<1> HIDE DEF Same
<1> USE <1>5, <1>6, <1>8
<1>9. CASE CountUse
  <2>1. uses'[h] = uses[h] + Same(Head(updates), h)
    <3>1. Head(updates) \in Hashes /\ uses' = [uses EXCEPT ![Head(updates)] = @ + 1]
      BY <1>2, <1>9 DEF CountUse
    <3> QED
      BY <1>1, <3>1 DEF TablesType, Same
  <2>2. Count(updates, h) = Count(updates', h) + Same(Head(updates), h)
    BY <1>3, <1>9 DEF CountUse
  <2>3. UNCHANGED <<deletes, worker, target, dropped>> /\ Creating(h)' = Creating(h) /\ Ending(h)' = Ending(h)
    BY <1>9 DEF CountUse, Creating, Ending
  <2> QED
    BY <2>1, <2>2, <2>3
<1>10. CASE BeginCreate
  <2>1. Creating(h)' = Same(Head(updates), h) /\ Creating(h) = 0
        /\ Ending(h)' = 0 /\ Ending(h) = 0
    BY <1>10 DEF BeginCreate, Creating, Ending, Same
  <2>2. Count(updates, h) = Count(updates', h) + Same(Head(updates), h)
    BY <1>3, <1>10 DEF BeginCreate
  <2>3. UNCHANGED <<deletes, uses, dropped>>
    BY <1>10 DEF BeginCreate
  <2> QED
    BY <2>1, <2>2, <2>3
<1>11. CASE DropDelete
  <2>1. dropped'[h] = dropped[h] + Same(Head(deletes), h)
    <3>1. Head(deletes) \in Hashes /\ dropped' = [dropped EXCEPT ![Head(deletes)] = @ + 1]
      BY <1>2, <1>11 DEF DropDelete
    <3> QED
      BY <1>1, <3>1 DEF TablesType, Same
  <2>2. Count(deletes, h) = Count(deletes', h) + Same(Head(deletes), h)
    BY <1>3, <1>11 DEF DropDelete
  <2>3. UNCHANGED <<updates, worker, target, uses>> /\ Creating(h)' = Creating(h) /\ Ending(h)' = Ending(h)
    BY <1>11 DEF DropDelete, Creating, Ending
  <2> QED
    BY <2>1, <2>2, <2>3
<1>12. CASE UncountUse
  <2>1. uses[h] = uses'[h] + Same(Head(deletes), h)
    <3>1. Head(deletes) \in Hashes /\ uses' = [uses EXCEPT ![Head(deletes)] = @ - 1]
      BY <1>2, <1>12 DEF UncountUse
    <3> QED
      BY <1>1, <3>1 DEF TablesType, Same
  <2>2. Count(deletes, h) = Count(deletes', h) + Same(Head(deletes), h)
    BY <1>3, <1>12 DEF UncountUse
  <2>3. UNCHANGED <<updates, worker, target, dropped>> /\ Creating(h)' = Creating(h) /\ Ending(h)' = Ending(h)
    BY <1>12 DEF UncountUse, Creating, Ending
  <2> QED
    BY <2>1, <2>2, <2>3
<1>13. CASE BeginDestroy
  <2>1. Ending(h)' = Same(Head(deletes), h) /\ Ending(h) = 0
        /\ Creating(h)' = 0 /\ Creating(h) = 0
    BY <1>13 DEF BeginDestroy, Creating, Ending, Same
  <2>2. Count(deletes, h) = Count(deletes', h) + Same(Head(deletes), h)
    BY <1>3, <1>13 DEF BeginDestroy
  <2>3. UNCHANGED <<updates, uses, dropped>>
    BY <1>13 DEF BeginDestroy
  <2> QED
    BY <2>1, <2>2, <2>3
<1>14. CASE Create
  <2>1. target \in Hashes /\ uses[target] = 0 /\ uses' = [uses EXCEPT ![target] = 1]
    BY <1>1, <1>14 DEF Create, WorkerType, WorkerInv, TablesInv
  <2>2. uses'[h] = uses[h] + Same(target, h)
    BY <1>1, <2>1 DEF TablesType, Same
  <2>3. Creating(h) = Same(target, h) /\ Creating(h)' = 0 /\ Ending(h) = 0 /\ Ending(h)' = 0
    BY <1>14 DEF Create, Creating, Ending, Same
  <2>4. UNCHANGED <<updates, deletes, dropped>>
    BY <1>14 DEF Create
  <2> QED
    BY <2>2, <2>3, <2>4
<1>15. CASE Destroyed \/ DestroyHangs
  <2>1. UNCHANGED <<updates, deletes, uses, dropped>> /\ Creating(h)' = Creating(h) /\ Ending(h)' = Ending(h)
    BY <1>15 DEF Destroyed, DestroyHangs, Creating, Ending
  <2> QED
    BY <2>1
<1>16. CASE Remove
  <2>1. target \in Hashes /\ uses[target] = 1 /\ uses' = [uses EXCEPT ![target] = 0]
    BY <1>1, <1>16 DEF Remove, WorkerType, WorkerInv
  <2>2. uses[h] = uses'[h] + Same(target, h)
    BY <1>1, <2>1 DEF TablesType, Same
  <2>3. Ending(h) = Same(target, h) /\ Ending(h)' = 0 /\ Creating(h) = 0 /\ Creating(h)' = 0
    BY <1>16 DEF Remove, Creating, Ending, Same
  <2>4. UNCHANGED <<updates, deletes, dropped>>
    BY <1>16 DEF Remove
  <2> QED
    BY <2>2, <2>3, <2>4
<1> QED
  BY <1>9, <1>10, <1>11, <1>12, <1>13, <1>14, <1>15, <1>16 DEF Worker, TakeUpdate, TakeDelete

\* In the beginning, and in a new process, nothing is counted.
LEMMA InitAccounting == Init => Accounting
<1> SUFFICES ASSUME Init, NEW h \in Hashes PROVE Balanced(h)
  BY AccountingIsBalance, InitIInv DEF IInv
<1>1. {m \in Modules : known[m] = h} = {}
  BY RepoManagerAssumption DEF Init
<1>2. Users(h) = 0
  BY <1>1, FS_EmptySet DEF Users
<1> QED
  BY <1>2, CountEmpty DEF Init, Balanced, Creating, Ending, Same

\* Every step keeps the balance.
LEMMA StepAccounting == IInv /\ IInv' /\ Accounting /\ [Next]_vars => Accounting'
<1> SUFFICES ASSUME IInv, IInv', Accounting, [Next]_vars PROVE Accounting'
  OBVIOUS
<1>1. TypeOK /\ TypeOK' /\ \A h \in Hashes : Balanced(h)
  BY AccountingIsBalance DEF IInv
<1>2. ASSUME NEW h \in Hashes PROVE Balanced(h)'
  <2>1. ASSUME NEW m \in Modules, ChangeModule(m) PROVE Balanced(h)'
    BY <1>1, <2>1, OthersKeepBalance DEF ChangeModule
  <2>2. ASSUME NEW m \in Modules, Deliver(m) PROVE Balanced(h)'
    BY <1>1, <2>2, DeliverKeepsBalance
  <2>3. CASE Send
    BY <1>1, <2>3, SendKeepsBalance
  <2>4. CASE Worker
    BY <1>1, <2>4, WorkerKeepsBalance
  <2>5. ASSUME NEW r \in running, Clone(r) PROVE Balanced(h)'
    BY <1>1, <2>5, OthersKeepBalance DEF Clone
  <2>6. ASSUME NEW c \in Callers, GetRepo(c) \/ Call(c) PROVE Balanced(h)'
    BY <1>1, <2>6, OthersKeepBalance DEF GetRepo, Call, NotFound, Found, Refuse, Evaluate, Return
  <2>7. CASE Restart
    <3>1. {m \in Modules : known'[m] = h} = {}
      BY <2>7, RepoManagerAssumption DEF Restart
    <3>2. Users(h)' = 0
      BY <3>1, FS_EmptySet DEF Users
    <3> QED
      BY <2>7, <3>2, CountEmpty DEF Restart, Balanced, Creating, Ending, Same
  <2>8. CASE UNCHANGED vars
    BY <1>1, <2>8, OthersKeepBalance
  <2> QED
    BY <2>1, <2>2, <2>3, <2>4, <2>5, <2>6, <2>7, <2>8 DEF Next
<1>3. (\A h \in Hashes : Balanced(h))'
  BY <1>2
<1>4. (TypeOK => (Accounting <=> \A h \in Hashes : Balanced(h)))'
  BY AccountingIsBalance, PTL
<1> QED
  BY <1>1, <1>3, <1>4

\* The two channels lose nothing of what the informer says (main.go:35-70,
\* repoManager.go:56-95): at every moment the uses counted and announced are the
\* modules that use the revision, and the deletes that were dropped.
THEOREM UsesAreAccounted == Spec => []Accounting
BY Inductive, InitAccounting, StepAccounting, PTL DEF Spec

\* With nothing pending, a revision that a module uses has a Repo, and that Repo runs.
LEMMA BalanceServes == IInv /\ Accounting => ServedWhenQuiet
<1> SUFFICES ASSUME IInv, Accounting, Quiet, NEW m \in Modules, known[m] # NoHash
             PROVE  repos[known[m]] # NoRepo /\ Repo(known[m]) \in running
  BY DEF ServedWhenQuiet
<1> DEFINE h == known[m]
<1>1. TypeOK /\ TablesInv /\ InstancesInv /\ h \in Hashes
  BY TypeParts DEF IInv, ClusterType, MaybeHash
<1>2. Balanced(h)
  BY <1>1, AccountingIsBalance
<1>3. /\ Count(sending, Add(h)) = 0 /\ Count(sending, Delete(h)) = 0
      /\ Count(updates, h) = 0 /\ Count(deletes, h) = 0
      /\ Creating(h) = 0 /\ Ending(h) = 0
  BY CountEmpty DEF Quiet, Creating, Ending
<1>4. Users(h) # 0
  <2>1. m \in {n \in Modules : known[n] = h} /\ IsFiniteSet({n \in Modules : known[n] = h})
    BY FS_Subset, RepoManagerAssumption
  <2> QED
    BY <2>1, FS_EmptySet DEF Users
<1>5. uses[h] # 0
  <2>1. uses[h] \in Nat /\ dropped[h] \in Nat /\ Users(h) \in Nat
    BY <1>1, Numbers
  <2> HIDE DEF h
  <2> QED
    BY <1>2, <1>3, <1>4, <2>1 DEF Balanced
<1>6. repos[h] # NoRepo
  BY <1>1, <1>5 DEF TablesInv
<1> QED
  BY <1>1, <1>6 DEF InstancesInv, Quiet

\* However the two channels were read, a module known to the informer has a running
\* Repo once everything is dealt with: an early delete costs a use, never a Repo.
THEOREM KnownModulesAreServed == Spec => []ServedWhenQuiet
BY Inductive, UsesAreAccounted, BalanceServes, PTL
=============================================================================
