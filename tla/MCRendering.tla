----------------------------- MODULE MCRendering -----------------------------
(***************************************************************************)
(* Small instances of Rendering: a resource "a", a resource "b" that      *)
(* depends on it or not, and a ProviderConfig "p".                         *)
(***************************************************************************)
EXTENDS Rendering

Entry(fields, nulls, dependOn, isReady) ==
  [fields |-> fields, nulls |-> nulls, dependOn |-> dependOn, ready |-> isReady,
   metadata |-> "given"]
By(by, on) == [by |-> by, on |-> on]

A(fields, nulls) == Entry(fields, nulls, NoDependency, "null")

Without(metadata, entry) == [entry EXCEPT !.metadata = metadata]

\* b after a by id and by object, after nothing; a that drops a field, or sets it to
\* null, or says that it is ready and has its metadata removed; p without metadata.
MCVersions ==
  { [a |-> A({"f", "g"}, {}), b |-> Entry({"f"}, {}, By("id", {"a"}), "null")],
    [a |-> A({"f"}, {}), b |-> Entry({"f"}, {}, By("object", {"a"}), "null")],
    [a |-> A({"f"}, {"g"}), b |-> Entry({"f"}, {}, By("id", {}), "null")],
    [a |-> Without("null", Entry({"f"}, {}, NoDependency, "True")),
     p |-> Without("none", A({"f"}, {}))] }
=============================================================================
