--------------------------- MODULE MCVSCodeClient ---------------------------
(***************************************************************************)
(* VSCodeClient on small instances.                                        *)
(***************************************************************************)
EXTENDS VSCodeClient
=============================================================================
