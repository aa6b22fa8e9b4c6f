----------------------------- MODULE IdpHistory -----------------------------
(***************************************************************************)
(* What the discovery page promises of the remembered choices of identity  *)
(* provider, however many pages of one browser are open at once: a choice  *)
(* heads the history as soon as it is made, the history holds at most Cap  *)
(* providers, none twice and none that was never chosen, and a page that   *)
(* follows the history automatically goes to the choice made last.         *)
(*                                                                         *)
(* It does not promise which older choices survive: a page writes the      *)
(* history it read when it was drawn.                                      *)
(***************************************************************************)
EXTENDS Naturals, Sequences, Functions

CONSTANTS Idps, Nobody, Cap

VARIABLES
  recent,    \* the history, newest first
  chosen,    \* the providers ever chosen
  auto,      \* the user asked to be sent on without being asked
  sent       \* where the browser was last sent

vars == <<recent, chosen, auto, sent>>

Init == recent = <<>> /\ chosen = {} /\ auto = FALSE /\ sent = Nobody

Choose(i) ==
  /\ chosen' = chosen \cup {i}
  /\ sent' = i
  /\ Len(recent') \in 1..Cap
  /\ recent'[1] = i
  /\ Range(recent') \subseteq chosen'
  /\ IsInjective(recent')
  /\ UNCHANGED auto

Follow ==
  /\ auto /\ recent # <<>>
  /\ sent' = recent[1]
  /\ UNCHANGED <<recent, chosen, auto>>

SetAuto == auto' \in BOOLEAN /\ UNCHANGED <<recent, chosen, sent>>

Forget == recent' = <<>> /\ UNCHANGED <<chosen, auto, sent>>

Next == (\E i \in Idps : Choose(i)) \/ Follow \/ SetAuto \/ Forget

Spec == Init /\ [][Next]_vars
=============================================================================
