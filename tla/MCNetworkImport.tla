---------------------------- MODULE MCNetworkImport ----------------------------
(***************************************************************************)
(* Two networks that call each other, and one of the user's in a group that *)
(* depends on nothing.  One of the two has a class in a file, the other one *)
(* in the directory of this file, and includes a fragment that is not among *)
(* the shared ones.  A user may be in a new directory, in the project of an *)
(* author, or in that of a receiver with files and entries of its own.      *)
(***************************************************************************)
EXTENDS NetworkImport

NetMC == {"main", "sub", "basic/solo", "solo"}
FragmentMC == {"shared", "fragment"}
PythonMC == {"tool", "init", "helper"}
PackageMC == {"package"}
UrlMC == {"u1", "u2"}

SharedMC == {"shared"}
LibraryMC == {"main", "sub", "shared", "fragment", "tool", "init", "helper", "package"}
LibraryUrlsMC == {"u1"}

RefsMC == [n \in NetMC |-> CASE n = "main" -> {"sub"} [] n = "sub" -> {"main"} [] OTHER -> {}]
IncludesMC ==
  [n \in NetMC |-> CASE n = "main" -> {"shared"} [] n = "sub" -> {"fragment"} [] OTHER -> {}]
UsesMC ==
  [n \in NetMC |-> CASE n = "main" -> {"tool"} [] n = "sub" -> {"package"} [] OTHER -> {}]
TreeMC == [p \in PackageMC |-> PythonMC]
InitsMC == [f \in PythonMC |-> IF f = "tool" THEN {"init"} ELSE {}]
ServersMC == [n \in NetMC |-> IF n = "sub" THEN {"u1"} ELSE {}]
BaseNameMC == [n \in NetMC |-> IF n = "basic/solo" THEN "solo" ELSE n]

Files(own) == [f \in File |-> IF f \in own THEN "own" ELSE "absent"]
Entries(on, off) ==
  [h \in NetMC \cup FragmentMC |-> IF h \in on THEN "on" ELSE IF h \in off THEN "off" ELSE "none"]
Urls(own) == [u \in UrlMC |-> IF u \in own THEN "own" ELSE "none"]

NewDirectory ==
  [disk |-> Files({}), manifest |-> Entries({}, {}), shape |-> "absent",
   servers |-> Urls({}), mcpShape |-> "absent"]
Author ==
  [disk |-> Files(LibraryMC \cup {"basic/solo"}),
   manifest |-> Entries({"main", "sub"}, {}), shape |-> "braced",
   servers |-> Urls({"u1"}), mcpShape |-> "braced"]
Receiver ==
  [disk |-> Files({"sub", "init", "package", "solo", "shared", "fragment"}),
   manifest |-> Entries({"solo"}, {"sub"}), shape |-> "braced",
   servers |-> Urls({"u2"}), mcpShape |-> "braced"]
BareReceiver == [Receiver EXCEPT !.mcpShape = "bare"]

ThreeProjects == {NewDirectory, Author, Receiver}
WithBare == {NewDirectory, Author, BareReceiver}

BracedFaults == {"analyze", "copy", "mcp", "kill"}
AllFaults == BracedFaults \cup {"torn"}
===============================================================================
