---------------------------- MODULE MCIdpSelect ----------------------------
(***************************************************************************)
(* Two pages, three providers and a cookie of two: histories overflow, a   *)
(* page holds a history another page has overwritten, and one of the feeds *)
(* lacks providers the cookie remembers.                                   *)
(***************************************************************************)
EXTENDS IdpSelect, TLC

CONSTANTS p1, p2, i1, i2, i3

MCPages == {p1, p2}
MCProviders == {i1, i2, i3}
MCFeeds == {MCProviders} \cup {{i} : i \in MCProviders}
NoPreferred == <<>>
Symmetry == Permutations(MCPages) \cup Permutations(MCProviders)
=============================================================================
