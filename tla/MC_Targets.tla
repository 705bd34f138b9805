------------------------------- MODULE MC_Targets -------------------------------
(* A workspace with the staged copy and input.xml, in which the importer    *)
(* makes a directory, which may be one that cannot be listed, and in it the *)
(* output file, which may be a link.                                        *)
EXTENDS Targets

MCName == {"files", "copy", "input", "directory", "out"}
MCUnder == [p \in MCName |-> CASE p = "copy" -> "files"
                               [] p = "out"  -> "directory"
                               [] OTHER      -> "root"]
MCKinds == [p \in MCName |-> CASE p = "directory" -> {"dir", "sealed"}
                               [] p = "out"       -> {"file", "link"}
                               [] OTHER           -> {}]
=============================================================================
