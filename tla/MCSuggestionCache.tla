------------------------- MODULE MCSuggestionCache --------------------------
(***************************************************************************)
(* SuggestionCache on a small instance: three contexts against a limit of  *)
(* two entries, so that the oldest is evicted, and a clock that runs past  *)
(* the lifetime, so that entries expire before, between and after calls.   *)
(***************************************************************************)
EXTENDS SuggestionCache, TLC

Symmetric == Permutations(Keys) \cup Permutations(Texts)
=============================================================================
