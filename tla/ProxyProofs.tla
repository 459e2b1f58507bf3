----------------------------- MODULE ProxyProofs -----------------------------
(***************************************************************************)
(* The races of the proxy function end, for any handlers and servers.      *)
(***************************************************************************)
EXTENDS Proxy, TLAPS

Pcs == {"idle", "check", "make", "lookup", "dial", "store", "call"}

\* What the step of a settled server rests on: a map that is nil holds no
\* connection, so that no handler finds it nil while a server is settled, which
\* in turn needs that nobody writes to the map before it is made.
IInv ==
  /\ made \in BOOLEAN /\ aborts \in Nat
  /\ table \in [Servers -> Nat] /\ opened \in [Servers -> Nat]
  /\ pc \in [Handlers -> Pcs]
  /\ server \in [Handlers -> Servers \cup {NoServer}]
  /\ conn \in [Handlers -> Nat]
  /\ \A h \in Handlers : pc[h] # "idle" => server[h] \in Servers
  /\ made = FALSE => table = NoTable
  /\ \A h \in Handlers : pc[h] \in {"lookup", "dial", "store"} => made = TRUE

\* The initial states satisfy the invariant.
LEMMA InitIInv == Init => IInv
<1> SUFFICES ASSUME Init PROVE IInv
  OBVIOUS
<1>1. made \in BOOLEAN /\ aborts \in Nat /\ table = NoTable
  BY DEF Init
<1>2. table \in [Servers -> Nat] /\ opened \in [Servers -> Nat]
  BY DEF Init, NoTable
<1>3. /\ pc \in [Handlers -> Pcs] /\ \A h \in Handlers : pc[h] = "idle"
  BY DEF Init, Pcs
<1>4. /\ server \in [Handlers -> Servers \cup {NoServer}] /\ conn \in [Handlers -> Nat]
  BY DEF Init
<1> QED
  BY <1>1, <1>2, <1>3, <1>4 DEF IInv

\* Every step of the code preserves it.
LEMMA StepIInv == IInv /\ [Next]_vars => IInv'
<1> SUFFICES ASSUME IInv, [Next]_vars PROVE IInv'
  OBVIOUS
<1> USE ProxyAssumption DEF IInv, Pcs
<1>1. ASSUME NEW h \in Handlers, RunFunction(h) PROVE IInv'
  BY <1>1 DEF RunFunction, connections
<1>2. ASSUME NEW h \in Handlers, Check(h) PROVE IInv'
  BY <1>2 DEF Check, connections
<1>3. ASSUME NEW h \in Handlers, Make(h) PROVE IInv'
  BY <1>3 DEF Make, NoTable
<1>4. ASSUME NEW h \in Handlers, Lookup(h) PROVE IInv'
  BY <1>4 DEF Lookup, connections
<1>5. ASSUME NEW h \in Handlers, Dial(h) PROVE IInv'
  BY <1>5 DEF Dial, Returned
<1>6. ASSUME NEW h \in Handlers, Store(h) PROVE IInv'
  BY <1>6 DEF Store
<1>7. ASSUME NEW h \in Handlers, Return(h) PROVE IInv'
  BY <1>7 DEF Return, Returned, connections
<1>8. CASE Abort
  <2>1. made' \in BOOLEAN /\ table' = NoTable
    BY <1>8 DEF Abort
  <2>2. aborts' \in Nat
    BY <1>8 DEF Abort
  <2>3. \A h \in Handlers : pc'[h] = "idle"
    BY <1>8 DEF Abort
  <2>4. table' \in [Servers -> Nat] /\ opened' \in [Servers -> Nat]
    BY <1>8 DEF Abort, NoTable
  <2>5. pc' \in [Handlers -> Pcs] /\ conn' \in [Handlers -> Nat]
    BY <1>8 DEF Abort
  <2>6. server' \in [Handlers -> Servers \cup {NoServer}]
    BY <1>8 DEF Abort
  <2> QED
    BY <2>1, <2>2, <2>3, <2>4, <2>5, <2>6
<1>9. CASE UNCHANGED vars
  BY <1>9 DEF vars, handlers, connections
<1> QED
  BY <1>1, <1>2, <1>3, <1>4, <1>5, <1>6, <1>7, <1>8, <1>9 DEF Next, Handler

\* A nil map is found only while no server is settled (proxy-function.go:32).
THEOREM Inductive == Spec => []IInv
  BY InitIInv, StepIInv, PTL DEF Spec

-----------------------------------------------------------------------------
\* What no handler's step does to a server that is settled.
Kept(s) == Settled(s)' /\ table'[s] = table[s] /\ opened'[s] = opened[s]

\* A settled server is kept by every step but the end of the process.
LEMMA SettledStep ==
  ASSUME IInv, [Next]_vars, NEW s \in Servers, Settled(s)
  PROVE  Kept(s) \/ aborts' # aborts
<1> USE DEF IInv, Kept, Settled
<1>1. made = TRUE
  BY DEF NoTable
<1>2. ASSUME NEW h \in Handlers, RunFunction(h) PROVE Kept(s)
  BY <1>2 DEF RunFunction, connections
<1>3. ASSUME NEW h \in Handlers, Check(h) PROVE Kept(s)
  BY <1>1, <1>3 DEF Check, connections
<1>4. ASSUME NEW h \in Handlers, Make(h) PROVE Kept(s)
  BY <1>4 DEF Make
<1>5. ASSUME NEW h \in Handlers, Lookup(h) PROVE Kept(s)
  BY <1>5 DEF Lookup, connections
<1>6. ASSUME NEW h \in Handlers, Dial(h) PROVE Kept(s)
  BY <1>6 DEF Dial, Returned
<1>7. ASSUME NEW h \in Handlers, Store(h) PROVE Kept(s)
  BY <1>7 DEF Store
<1>8. ASSUME NEW h \in Handlers, Return(h) PROVE Kept(s)
  BY <1>8 DEF Return, Returned, connections
<1>9. CASE Abort
  BY <1>9 DEF Abort
<1>10. CASE UNCHANGED vars
  BY <1>10 DEF vars, handlers, connections
<1> QED
  BY <1>2, <1>3, <1>4, <1>5, <1>6, <1>7, <1>8, <1>9, <1>10 DEF Next, Handler

\* Once the races on the map have settled, all calls to a server share its one
\* connection until the process ends (proxy-function.go:32-43), for any number of
\* handlers and servers.
THEOREM SettledStays == Spec => SettledIsKept
<1>1. IInv /\ [Next]_vars =>
        [\A s \in Servers : Settled(s) =>
           \/ Settled(s)' /\ table'[s] = table[s] /\ opened'[s] = opened[s]
           \/ aborts' # aborts]_vars
  BY SettledStep DEF Kept
<1> QED
  BY <1>1, Inductive, PTL DEF Spec, SettledIsKept
=============================================================================
