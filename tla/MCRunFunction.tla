---------------------------- MODULE MCRunFunction ----------------------------
(***************************************************************************)
(* Modules of at most two files for RunFunction.  Ids are model values;    *)
(* "r1" and "r2" are resources, "q1" and "q2" requests, "o1" an output     *)
(* and "i1" an input.                                                      *)
(***************************************************************************)
EXTENDS RunFunction

Field(file, name, type, id) == [file |-> file, name |-> name, type |-> type, id |-> id]

\* A request, a resource and an output in each of two files, an input in one.
TwoFiles == { Field("a", "n1", "resource", "r1"), Field("a", "n2", "request", "q1"),
              Field("b", "n1", "resource", "r2"), Field("b", "n2", "request", "q2"),
              Field("b", "n3", "output", "o1") }

\* The module grown by an input, and shrunk to one file.
WithInput == { Field("a", "n1", "resource", "r1"), Field("a", "n4", "input", "i1"),
               Field("b", "n3", "output", "o1"), Field("b", "n1", "resource", "r2") }
OneFile == { Field("a", "n1", "resource", "r1"), Field("a", "n3", "output", "o1") }

\* Both files, or one file twice, declare the same resource.
AcrossFiles == { Field("a", "n1", "resource", "r1"), Field("b", "n1", "resource", "r1"),
                 Field("b", "n2", "request", "q1") }
SameFile == { Field("a", "n1", "resource", "r1"), Field("a", "n5", "resource", "r1") }

\* The same in CUE, of one file and of two.
OneCueFile == { Field("c", "n1", "resource", "r1"), Field("c", "n2", "request", "q1"),
                Field("c", "n4", "input", "i1") }
TwoCueFiles == OneCueFile \cup {Field("d", "n1", "resource", "r2")}

MCCueVersions == {OneCueFile, TwoCueFiles}
MCVersions == {TwoFiles, WithInput, OneFile, AcrossFiles, SameFile} \cup MCCueVersions
MCFields == UNION MCVersions
=============================================================================
