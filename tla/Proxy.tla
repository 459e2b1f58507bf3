-------------------------------- MODULE Proxy --------------------------------
(***************************************************************************)
(* The proxy function (pkg/crossplane/proxy-function.go): gRPC handlers    *)
(* that relay a call to the repository server named in spec.repoServer,    *)
(* over one connection for each server.  The connections are in a map that *)
(* the first call makes; handlers read and write it without a lock.  Two   *)
(* accesses of which one is a write may abort the process: the runtime     *)
(* checks for it, but is not sure to notice.                               *)
(***************************************************************************)
EXTENDS Naturals

CONSTANTS
  Handlers,    \* concurrent calls of RunFunction
  Servers,     \* addresses of repository servers
  NoServer,    \* a handler without a call
  MaxAborts    \* bound on the ends of the process

ASSUME ProxyAssumption == NoServer \notin Servers /\ MaxAborts \in Nat

VARIABLES
  made,     \* f.connections is not nil
  table,    \* its connections: the number of one for each server, 0 for none
  opened,   \* connections opened to each server since the process began
  pc,       \* program counter of each handler
  server,   \* the server its call is for
  conn,     \* the connection it has dialled or found
  aborts

handlers == <<pc, server, conn>>
connections == <<made, table, opened>>
vars == <<handlers, connections, aborts>>

NoTable == [s \in Servers |-> 0]

-----------------------------------------------------------------------------
RunFunction(h) ==
  /\ pc[h] = "idle"
  /\ \E s \in Servers : server' = [server EXCEPT ![h] = s]
  /\ pc' = [pc EXCEPT ![h] = "check"]
  /\ UNCHANGED <<conn, connections, aborts>>

\* f.connections == nil
Check(h) ==
  /\ pc[h] = "check"
  /\ pc' = [pc EXCEPT ![h] = IF made THEN "lookup" ELSE "make"]
  /\ UNCHANGED <<server, conn, connections, aborts>>

\* The map another handler has made meanwhile is lost with what is in it.
Make(h) ==
  /\ pc[h] = "make"
  /\ pc' = [pc EXCEPT ![h] = "lookup"]
  /\ made' = TRUE /\ table' = NoTable
  /\ UNCHANGED <<server, conn, opened, aborts>>

\* Faulty variant: the connection in the map is not used.
LookupAlwaysDials(h) ==
  /\ pc[h] = "lookup"
  /\ pc' = [pc EXCEPT ![h] = "dial"]
  /\ UNCHANGED <<server, conn, connections, aborts>>

Lookup(h) ==
  /\ pc[h] = "lookup"
  /\ pc' = [pc EXCEPT ![h] = IF table[server[h]] = 0 THEN "dial" ELSE "call"]
  /\ conn' = [conn EXCEPT ![h] = table[server[h]]]
  /\ UNCHANGED <<server, connections, aborts>>

Returned(h) ==
  /\ pc' = [pc EXCEPT ![h] = "idle"]
  /\ conn' = [conn EXCEPT ![h] = 0]
  /\ server' = [server EXCEPT ![h] = NoServer]

\* grpc.Dial does not wait for the server; it fails for an address it cannot parse.
Dial(h) ==
  /\ pc[h] = "dial"
  /\ \/ /\ pc' = [pc EXCEPT ![h] = "store"]
        /\ opened' = [opened EXCEPT ![server[h]] = @ + 1]
        /\ conn' = [conn EXCEPT ![h] = opened[server[h]] + 1]
        /\ UNCHANGED server
     \/ Returned(h) /\ UNCHANGED opened
  /\ UNCHANGED <<made, table, aborts>>

Store(h) ==
  /\ pc[h] = "store"
  /\ pc' = [pc EXCEPT ![h] = "call"]
  /\ table' = [table EXCEPT ![server[h]] = conn[h]]
  /\ UNCHANGED <<server, conn, made, opened, aborts>>

\* The answer of the server, or the error of the call, is the answer of this one.
\* A connection is neither closed nor taken out of the map.
Return(h) ==
  /\ pc[h] = "call"
  /\ Returned(h)
  /\ UNCHANGED <<connections, aborts>>

\* "concurrent map read and map write", "concurrent map writes": the process
\* ends with every call in it, and is started again.
Racing(h, g) == h # g /\ pc[h] = "store" /\ pc[g] \in {"lookup", "store"}

Abort ==
  /\ \E h, g \in Handlers : Racing(h, g)
  /\ aborts < MaxAborts /\ aborts' = aborts + 1
  /\ made' = FALSE /\ table' = NoTable /\ opened' = NoTable
  /\ pc' = [h \in Handlers |-> "idle"]
  /\ server' = [h \in Handlers |-> NoServer] /\ conn' = [h \in Handlers |-> 0]

Init ==
  /\ made = FALSE /\ table = NoTable /\ opened = NoTable
  /\ pc = [h \in Handlers |-> "idle"]
  /\ server = [h \in Handlers |-> NoServer] /\ conn = [h \in Handlers |-> 0]
  /\ aborts = 0

Handler(h) == \/ RunFunction(h) \/ Check(h) \/ Make(h) \/ Lookup(h)
              \/ Dial(h) \/ Store(h) \/ Return(h)

Next == Abort \/ \E h \in Handlers : Handler(h)

Spec == Init /\ [][Next]_vars

-----------------------------------------------------------------------------
(***************************************************************************)
(* A server is settled when its connection is in the map and no handler is *)
(* on its way to replace the map or to store another connection.           *)
(***************************************************************************)
Settled(s) ==
  /\ table[s] # 0
  /\ \A h \in Handlers : /\ pc[h] # "make"
                          /\ ~(server[h] = s /\ pc[h] \in {"dial", "store"})

\* The races of the first calls (proxy-function.go:32, :35, :42) are over once
\* they have settled: from then on all calls to a server, however they interleave
\* with calls to other servers, share its one connection and open no other, until
\* the process ends.
SettledIsKept ==
  [][\A s \in Servers : Settled(s) =>
       \/ Settled(s)' /\ table'[s] = table[s] /\ opened'[s] = opened[s]
       \/ aborts' # aborts]_vars
=============================================================================
