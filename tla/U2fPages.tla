------------------------------ MODULE U2fPages ------------------------------
(***************************************************************************)
(* casU2fLoginView.html and casU2fRegistrationView.html on top of          *)
(* u2f-api.js: a page waits a second, makes its one call of the library,   *)
(* and sends the form with what the callback is given.  The page that      *)
(* signs sends errors too and leaves them to the server; the page that     *)
(* registers logs an error and stays as it is.                             *)
(*                                                                         *)
(* The steps of the library, the extension and its faults are those of     *)
(* U2fApi; the page's callback runs inside the step that answers the call. *)
(***************************************************************************)
EXTENDS U2fApi

ASSUME PageAssumption == \A c \in Calls : Kind[c] \in {"sign", "register"}

VARIABLES
  thePage,          \* the page, named by its only call
  timer,            \* the timer of the page: "set" or "fired"
  submitted         \* what the form was sent with, in order

pageVars == <<vars, thePage, timer, submitted>>

PageInit == Init /\ thePage \in Calls /\ timer = "set" /\ submitted = <<>>

\* What the page's callback does with the data it is given.
\* Slip: registering does not look at the errorCode.
CallbackAll(data) == submitted' = Append(submitted, data)

Callback(data) ==
  IF Kind[thePage] = "register" /\ data.body = "error"
    THEN UNCHANGED submitted
    ELSE submitted' = Append(submitted, data)

\* A step of the library that gives the page's call an answer, or none.
WithCallback ==
  IF replies' = replies THEN UNCHANGED submitted
  ELSE LET given == replies'[thePage] IN Callback(given[Len(given)])

\* setTimeout(..., 1000) of the page.
TimerFiresOnPage ==
  /\ timer = "set"
  /\ timer' = "fired"
  /\ Invoke(thePage)
  /\ WithCallback
  /\ UNCHANGED thePage

\* Everything else that happens to the library.
LibraryStep ==
  /\ ProbeAnswered \/ TimerFires \/ IframeLoaded \/ IframeReady \/ DrainOne
     \/ (\E r \in inbox : IgnoreResponse(r) \/ HandleAnswer(r) \/ HandleVersion(r))
     \/ (\E m \in outbox : ExtAnswer(m) \/ ExtRepeat(m) \/ ExtAnonymous(m))
     \/ Disconnect
  /\ WithCallback
  /\ UNCHANGED <<thePage, timer>>

PageNext == TimerFiresOnPage \/ LibraryStep

PageSpec == PageInit /\ [][PageNext]_pageVars

\* The library and the extension are as fair as in U2fApi, and the browser
\* runs the timer.
PageFairSpec ==
  /\ PageSpec
  /\ WF_pageVars(TimerFiresOnPage)
  /\ WF_pageVars(Acquire /\ LibraryStep)
  /\ WF_pageVars(DrainOne /\ LibraryStep)
  /\ WF_pageVars(Handle /\ LibraryStep)
  /\ WF_pageVars(Answer /\ LibraryStep)

(***************************************************************************)
(* Properties.                                                             *)
(***************************************************************************)
\* The form is sent at most once, with the answer to the page's own request
\* and not that to the version round trip, however often the extension
\* answers, and never with a registration that failed (both callbacks).
SubmitsOwnAnswerOnce ==
  /\ timer = "set" => submitted = <<>>
  /\ Len(submitted) <= 1
  /\ \A k \in DOMAIN submitted :
       /\ submitted[k].origin = Send(thePage)
       /\ submitted[k].body \in IF Kind[thePage] = "sign" THEN {"ok", "error"}
                                                          ELSE {"ok"}

\* The page that signs gets on: on a platform that listens and with an
\* extension that stays and numbers its answers, the form is sent in the end,
\* be the answer a result or an error (callback of casU2fLoginView.html).
SignPageGetsOn ==
  Kind[thePage] = "sign" => <>(submitted # <<>> \/ Excused)
=============================================================================
