-------------------------- MODULE SuggestionMemory --------------------------
(***************************************************************************)
(* What the two caches promise, apart from how they keep it: a memory that *)
(* may forget at any time but never invents, mixes up or brings back.      *)
(*                                                                         *)
(*   accepted[k]   the text a completion at key k is answered with, or     *)
(*                 NoText when none is known                               *)
(*   dismissed     the pairs of key and text that are not to be shown      *)
(***************************************************************************)
CONSTANTS Keys, Texts, NoText

VARIABLES accepted, dismissed

vars == <<accepted, dismissed>>

TypeOK ==
    /\ accepted \in [Keys -> Texts \cup {NoText}]
    /\ dismissed \subseteq Keys \X Texts

Init ==
    /\ accepted = [k \in Keys |-> NoText]
    /\ dismissed = {}

\* The texts of the keys outside ks are kept or forgotten, never changed.
OnlyForgets(ks) ==
    \A k \in Keys \ ks : accepted'[k] \in {accepted[k], NoText}

\* The user accepts a text: it is known from now on, others may be forgotten.
Accept(k, t) ==
    /\ accepted' \in [Keys -> Texts \cup {NoText}]
    /\ accepted'[k] = t
    /\ OnlyForgets({k})
    /\ UNCHANGED dismissed

\* The user dismisses a text: likewise.
Dismiss(k, t) ==
    /\ <<k, t>> \in dismissed'
    /\ dismissed' \subseteq dismissed \cup {<<k, t>>}
    /\ UNCHANGED accepted

\* Time passes, or a limit is reached.
Forget ==
    /\ accepted' \in [Keys -> Texts \cup {NoText}]
    /\ OnlyForgets({})
    /\ dismissed' \subseteq dismissed

Next ==
    \/ \E k \in Keys, t \in Texts : Accept(k, t) \/ Dismiss(k, t)
    \/ Forget

Spec == Init /\ [][Next]_vars
=============================================================================
