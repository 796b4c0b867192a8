--------------------------- MODULE MCPatchInspection ---------------------------
(***************************************************************************)
(* A file of the base, two new files and a forbidden one.  Every rule has  *)
(* a file that breaks only this rule.                                      *)
(***************************************************************************)
EXTENDS PatchInspection

Plain(t) == [mode |-> "100644", text |-> t]

MCPaths == {"code", "new", "note", "lock"}
MCBase == [p \in MCPaths |-> IF p = "code" THEN Plain("a") ELSE Absent]
MCCandidates ==
  [p \in MCPaths |->
     CASE p = "code" -> {Absent, Plain("a"), Plain("b"), [mode |-> "100755", text |-> "a"]}
       [] p = "new"  -> {Absent, Plain("b"), [mode |-> "120000", text |-> "a"]} \cup
                        {Plain(t) : t \in {"long", "wide", "binary", "secret", "invalid"}}
       [] OTHER      -> {Absent, Plain("a")}]

MCTexts == {"none", "a", "b", "long", "wide", "binary", "secret", "invalid"}
MCLines == [t \in MCTexts |-> CASE t = "none" -> 0 [] t = "binary" -> 9 [] t = "long" -> 4 [] OTHER -> 1]
MCBytes == [t \in MCTexts |-> CASE t = "none" -> 0 [] t = "wide" -> 4 [] OTHER -> 1]
===============================================================================
