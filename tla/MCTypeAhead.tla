----------------------------- MODULE MCTypeAhead -----------------------------
(***************************************************************************)
(* Three providers and five texts: one for each number of matches from     *)
(* none to three, and the empty one, which matches every provider.         *)
(***************************************************************************)
EXTENDS TypeAhead

CONSTANTS i1, i2, i3

MCIdps == {i1, i2, i3}
MCTexts == {"", "a", "ab", "abc", "zz"}
MCCandidates ==
  [t \in MCTexts |->
     CASE t = "zz"        -> <<>>
       [] t = "abc"       -> <<i2>>
       [] t = "ab"        -> <<i2, i3>>
       [] t \in {"", "a"} -> <<i1, i2, i3>>]
MCNameOf == [i \in MCIdps |-> CASE i = i1 -> "a" [] i = i2 -> "abc" [] i = i3 -> "ab"]
=============================================================================
