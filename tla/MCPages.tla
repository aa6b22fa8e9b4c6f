------------------------------- MODULE MCPages -------------------------------
(***************************************************************************)
(* Pages of the server for TLC: a page with a form and its scripts, the    *)
(* pages of the U2F login, and the page that passes a logout on.  The      *)
(* browser shows one of them, chosen at the start, while the others rest.  *)
(***************************************************************************)
EXTENDS FormScripts, PropagateLogout, U2fPages, TLC

CONSTANTS weak, good, better, signPage, registerPage

VARIABLE open    \* which page the browser shows

MCPasswords == {Empty, weak, good, better}
MCAccepted == {good, better}

\* zxcvbn has suggestions for the empty text too; a password the policy accepts
\* may still be weak.
MCSuggested == {Empty, weak, good}
MCCalls == {signPage, registerPage}
MCKind == signPage :> "sign" @@ registerPage :> "register"

\* The resting states; that of the logout page is its end.
FormRests ==
  page = "plain" /\ themed = FALSE /\ query = FALSE /\ hash = "none" /\ FormInit
U2fRests ==
  thePage = registerPage /\ platform = "other" /\ extVersion = "1.1" /\ PageInit
LogoutRests ==
  /\ scripts = Count /\ icons = Count /\ missed = {}
  /\ request = [i \in Entries |-> "called"]
  /\ icon = [i \in Entries |-> "received"]

BrowserInit ==
  \/ open = "form"   /\ FormInit  /\ U2fRests /\ LogoutRests
  \/ open = "u2f"    /\ FormRests /\ PageInit /\ LogoutRests
  \/ open = "logout" /\ FormRests /\ U2fRests /\ LogoutInit

allVars == <<open, formVars, pageVars, logoutVars>>

OnForm(A)   == open = "form" /\ A /\ UNCHANGED <<open, pageVars, logoutVars>>
OnU2f(A)    == open = "u2f" /\ A /\ UNCHANGED <<open, formVars, logoutVars>>
OnLogout(A) == open = "logout" /\ A /\ UNCHANGED <<open, formVars, pageVars>>

BrowserNext == OnForm(FormNext) \/ OnU2f(PageNext) \/ OnLogout(LogoutNext)

\* The fairness of PageFairSpec and of LogoutSpec.
BrowserSpec ==
  /\ BrowserInit /\ [][BrowserNext]_allVars
  /\ WF_allVars(OnU2f(TimerFiresOnPage))
  /\ WF_allVars(OnU2f(Acquire /\ LibraryStep))
  /\ WF_allVars(OnU2f(DrainOne /\ LibraryStep))
  /\ WF_allVars(OnU2f(Handle /\ LibraryStep))
  /\ WF_allVars(OnU2f(Answer /\ LibraryStep))
  /\ WF_allVars(OnLogout(ParseScript \/ ParseIcon))

\* The type invariants of the pages with a history of their own.
PagesTypeOK == FormTypeOK /\ LogoutTypeOK
==============================================================================
