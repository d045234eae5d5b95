----------------------------- MODULE MCSession ------------------------------
(***************************************************************************)
(* Session on small instances.  The window of a request is its content and *)
(* its offset, so that a new content is a new context.                     *)
(***************************************************************************)
EXTENDS Session, TLC

MCWindows == Contents \X Offsets

MCKeys == Paths \X MCWindows

MCAround == [w \in Contents \X Offsets |-> w]

Symmetric == Permutations(Paths) \cup Permutations(Contents) \cup Permutations(Texts)
=============================================================================
