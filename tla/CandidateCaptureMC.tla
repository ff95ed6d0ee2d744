-------------------------- MODULE CandidateCaptureMC --------------------------
(***************************************************************************)
(* An instance of CandidateCapture: three tracked paths, the second one a  *)
(* submodule, the third a query file; texts of three sizes, an editing user. *)
(***************************************************************************)
EXTENDS CandidateCapture

E(mode, text) == [mode |-> mode, text |-> text]
MCBytes == [none |-> 0, small |-> 1, medium |-> 2, large |-> 4]
MCFirst == <<E("file", "small"), E("gitlink", "small"), Absent>>
MCBase == <<E("file", "medium"), E("file", "small"), Absent>>
MCWrites == {Absent, E("file", "medium"), E("link", "small"), E("exec", "large"), E("gitlink", "small")}
=============================================================================
