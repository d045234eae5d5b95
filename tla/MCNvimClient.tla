---------------------------- MODULE MCNvimClient ----------------------------
(***************************************************************************)
(* NvimClient with interchangeable buffers.                                *)
(***************************************************************************)
EXTENDS NvimClient, TLC

Symmetric == Permutations(Buffers)
=============================================================================
