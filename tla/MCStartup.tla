------------------------------ MODULE MCStartup ------------------------------
(***************************************************************************)
(* Startup for TLC: the drills with L1 blocks of up to two settings and L2 *)
(* and L3 blocks of up to one check; with an L2 check the restore is a     *)
(* full copy, or a mount of a restic snapshot, and without one it is any,  *)
(* copying by default.                                                     *)
(***************************************************************************)
EXTENDS Startup

\* A block of the file has no key twice.
Blocks(keys) ==
  {{}} \cup {b \in {{s, t} : s, t \in Settings(keys)} : \A s, t \in b : s.key = t.key => s = t}

OneCheck == {{}} \cup {{s} : s \in Settings(L2Kinds \cup L3Kinds)}

Whole(m, s) == [mode |-> m, scope |-> s, sample |-> "unset", include |-> FALSE]

MCDrills ==
  [level : {"l1"}, type : Types, block : Blocks(RepoKeys \cup DumpKeys)]
  \cup [level : {"l2"}, type : Types, block : OneCheck, restore : {Whole("copy", "full")}]
  \cup [level : {"l2"}, type : {"restic"}, block : OneCheck, restore : {Whole("mount", "")}]
  \cup [level : {"l2"}, type : Types, block : {{}}, restore : {r \in Restores : r.mode # "copy"}]
  \cup [level : {"l3"}, type : Types, block : OneCheck, complete : BOOLEAN, extract : BOOLEAN]
=============================================================================
