---------------------------- MODULE MCEditHistory ----------------------------
(***************************************************************************)
(* Instances of EditHistory: files of one directory and of another, and    *)
(* texts of up to three lines of one letter.                               *)
(***************************************************************************)
EXTENDS EditHistory

DirOf == [p \in Paths |-> IF p \in TestPaths THEN "/repo/x" ELSE "/repo"]

OneLine == <<"b", NL>>
Inserted == <<"b", "a", NL, "b", NL>>
Blanked == <<"b", NL, NL>>
ManyTexts == {OneLine, Inserted, Blanked}

ManyTokens == {{<<"b">>}}
=============================================================================
