----------------------------- MODULE FormScripts -----------------------------
(***************************************************************************)
(* A page with a form and the scripts it shares with the other pages:      *)
(* cas.js, which the theme names and scripts.html starts, the handlers the *)
(* login form brings itself, and passwordMeter.js on the pages that change *)
(* a password.  The user types, submits, stops, and comes back by the      *)
(* history; the scripts get ready whenever their files arrive.             *)
(*                                                                         *)
(* Kinds of pages: "login" has its own handlers and a form with an action, *)
(* "mfa" a form with an action, "plain" one without (interrupt, logout     *)
(* confirmation, terms of use), "password" a form that is not fm1.         *)
(***************************************************************************)
EXTENDS Integers, Sequences, SequencesExt

CONSTANTS
  Passwords,   \* what can be typed into the two fields of the password page
  Empty,       \* the empty text
  Accepted,    \* the passwords policyPattern matches
  Suggested,   \* those zxcvbn has suggestions for
  MaxSent      \* bound on the submissions of one document

ASSUME FormAssumption ==
  /\ Empty \in Passwords /\ Accepted \subseteq Passwords
  /\ Suggested \subseteq Passwords
  /\ MaxSent \in Nat

VARIABLES
  page,        \* the kind of page
  themed,      \* the theme's script has no resourceLoadedSuccessfully
  query, hash, \* the query and the kind of fragment of the page's address
  ready,       \* how many of the two ready callbacks have run
  shown,       \* "loading", "loaded" or "away"
  enabled,     \* the submit button is enabled
  action,      \* the action attribute of fm1, <<>> if it has none
  pw, cnf,     \* the values of the two password fields
  bar,         \* the password whose strength the progress bar shows
  msgs,        \* the messages that are shown
  closed,      \* the messages the user closed: they leave the document
  underWay,    \* a submission waits for its answer
  edited,      \* the fields were validated since the last submission
  stopped,     \* the user stopped the last submission
  sent         \* the submissions of the document, in order

location == <<page, themed, query, hash>>
fields == <<pw, cnf, bar, msgs, closed>>
formVars == <<location, ready, shown, enabled, action, fields, underWay, edited,
          stopped, sent>>

Pages == {"login", "mfa", "plain", "password"}

\* What is wrong with the password, and advice for a stronger one.
Messages == {"strength", "policy", "mismatch"}

\* A fragment can hold a question mark, as routes of single page applications
\* do, and a percent sign that decodeURIComponent refuses.
Hashes == {"none", "fine", "routed", "malformed"}

\* The action attribute of fm1 as the server sends it.
SentAction == IF page \in {"login", "mfa"} THEN <<"path">> ELSE <<>>

FormInit ==
  /\ page \in Pages /\ themed \in BOOLEAN
  /\ query \in BOOLEAN /\ hash \in Hashes
  /\ ready = (IF page = "login" THEN 0 ELSE 1) /\ shown = "loading"
  /\ enabled = (page # "password")
  /\ action = SentAction
  /\ pw = Empty /\ cnf = Empty /\ bar = Empty
  /\ msgs = {} /\ closed = {}
  /\ underWay = FALSE /\ edited = FALSE /\ stopped = FALSE
  /\ sent = <<>>

(***************************************************************************)
(* The scripts get ready.                                                  *)
(***************************************************************************)
\* The login form's own handlers; other pages have none.
OwnReady ==
  /\ ready = 0 /\ shown # "away"
  /\ ready' = 1
  /\ UNCHANGED <<location, shown, enabled, action, fields, underWay, edited,
                 stopped, sent>>

\* resourceLoadedSuccessfully; under the other two themes its name is not
\* defined and the call of it throws.
CasReady ==
  /\ ready = 1 /\ shown # "away" /\ ~themed
  /\ ready' = 2
  /\ UNCHANGED <<location, shown, enabled, action, fields, underWay, edited,
                 stopped, sent>>

\* The pageshow handler of the login form, which is there before any ready.
Pageshow == enabled' = (page = "login" \/ enabled)

\* Everything of the page is there, be a submission under way or not.
Load ==
  /\ shown = "loading"
  /\ shown' = "loaded"
  /\ Pageshow
  /\ UNCHANGED <<location, ready, action, fields, edited, underWay, stopped, sent>>

(***************************************************************************)
(* passwordMeter.js.                                                       *)
(***************************************************************************)
Violates(p) == p = Empty \/ p \notin Accepted
Mismatch(p, c) == p # Empty /\ p # c

\* A warning is a text, so that only the suggestions show the advice.
Advised(p) == p # Empty /\ p \in Suggested

\* Slip: a message that was closed is shown again.
MessagesAll(p, c) ==
  { m \in Messages :
      \/ m = "strength" /\ Advised(p)
      \/ m = "policy" /\ Violates(p)
      \/ m = "mismatch" /\ Mismatch(p, c) /\ c # Empty }

\* The messages of a pair of values, but for those that were closed.
MessagesOf(p, c) ==
  { m \in Messages \ closed :
      \/ m = "strength" /\ Advised(p)
      \/ m = "policy" /\ Violates(p)
      \/ m = "mismatch" /\ Mismatch(p, c) /\ c # Empty }

\* The bar, and by a listener each call adds, at each key from then on: it
\* rates the text of the field, which cannot have changed in between.
UpdateProgressBar(p) == bar' = p

\* Slip: only the field that changed is looked at.
ValidateOne(p, c) ==
  /\ enabled' = IF p # pw THEN ~Violates(p) ELSE ~Mismatch(p, c)
  /\ edited' = TRUE
  /\ UpdateProgressBar(p)
  /\ msgs' = MessagesOf(p, c)

\* Slip: the messages of the values before are not hidden first.
ValidateAdd(p, c) ==
  /\ enabled' = ~(Violates(p) \/ Mismatch(p, c))
  /\ edited' = TRUE
  /\ UpdateProgressBar(p)
  /\ msgs' = msgs \cup MessagesOf(p, c)

Validate(p, c) ==
  /\ enabled' = ~(Violates(p) \/ Mismatch(p, c))
  /\ edited' = TRUE
  /\ UpdateProgressBar(p)
  /\ msgs' = MessagesOf(p, c)

\* Typing into one of the two fields; validate listens once jqueryReady ran.
Type(p, c) ==
  /\ page = "password" /\ shown # "away"
  /\ (p = pw) # (c = cnf)
  /\ pw' = p /\ cnf' = c
  /\ IF ready = 2 THEN Validate(p, c)
                  ELSE UNCHANGED <<enabled, edited, bar, msgs>>
  /\ UNCHANGED <<location, ready, shown, action, closed, underWay, stopped, sent>>

\* The cross of a message: Bootstrap takes the element out of the document.
Close(m) ==
  /\ shown # "away" /\ m \in msgs
  /\ msgs' = msgs \ {m} /\ closed' = closed \cup {m}
  /\ UNCHANGED <<location, ready, shown, enabled, action, pw, cnf, bar,
                 underWay, edited, stopped, sent>>

(***************************************************************************)
(* Submitting.                                                             *)
(***************************************************************************)
Fragment == IF hash = "none" THEN <<>> ELSE <<"hash">>
Href == <<"path">> \o (IF query THEN <<"query">> ELSE <<>>) \o Fragment

\* What follows the first question mark of the address, with it: without a
\* query that may be a part of the fragment.
FromQuestion ==
  IF query THEN <<"query">> \o Fragment
  ELSE IF hash = "routed" THEN <<"route">> ELSE <<>>

\* Slip: the query is forgotten.
PreservedHash ==
  (IF action = <<>> THEN Href ELSE action) \o Fragment

\* preserveAnchorTagOnForm: the action fm1 has from then on.
Preserved ==
  (IF action = <<>> THEN Href ELSE action \o FromQuestion) \o Fragment

\* Whether a handler of the submit event throws: those after it do not run.
Throws == page # "password" /\ hash = "malformed"

\* Some handler disables the submit buttons: the login form's own, which runs
\* first, or preventFormResubmission, which runs last.
\* Slip: preventFormResubmission is never called.
DisablesOwn == page = "login" /\ ready >= 1
Disables ==
  \/ page = "login" /\ ready >= 1
  \/ ready = 2 /\ ~Throws

\* The user submits by the button or from a field; the browser refuses while
\* the button is disabled or a field is empty that is required.
Submit ==
  /\ shown # "away" /\ enabled /\ Len(sent) < MaxSent
  /\ page = "password" => pw # Empty /\ cnf # Empty
  /\ action' = IF ready = 2 /\ page # "password" /\ ~Throws
               THEN Preserved ELSE action
  /\ enabled' = ~Disables
  /\ sent' = Append(sent, [to |-> action', pw |-> pw, cnf |-> cnf, ready |-> ready,
                           over |-> underWay, edited |-> edited])
  /\ underWay' = TRUE /\ edited' = FALSE /\ stopped' = FALSE
  /\ UNCHANGED <<location, ready, shown, fields>>

\* The answer replaces the page.
AnswerArrives ==
  /\ underWay
  /\ underWay' = FALSE /\ shown' = "away"
  /\ UNCHANGED <<location, ready, enabled, action, fields, edited, stopped, sent>>

\* The user stops the submission and stays on the page.
Stop ==
  /\ underWay
  /\ underWay' = FALSE /\ stopped' = TRUE
  /\ UNCHANGED <<location, ready, shown, enabled, action, fields, edited, sent>>

\* The browser shows the document again as it was left.
\* Slip: the handler listens to load, which is not fired again.
BackUnseen ==
  /\ shown = "away"
  /\ shown' = "loaded" /\ stopped' = FALSE
  /\ UNCHANGED <<location, ready, enabled, edited, action, fields, underWay, sent>>

Back ==
  /\ shown = "away"
  /\ shown' = "loaded" /\ stopped' = FALSE
  /\ Pageshow
  /\ UNCHANGED <<location, ready, action, fields, edited, underWay, sent>>

\* The user loads the page again: a new document.
Reload ==
  /\ ready' = (IF page = "login" THEN 0 ELSE 1) /\ shown' = "loading"
  /\ enabled' = (page # "password")
  /\ action' = SentAction
  /\ pw' = Empty /\ cnf' = Empty /\ bar' = Empty
  /\ msgs' = {} /\ closed' = {}
  /\ underWay' = FALSE /\ edited' = FALSE /\ stopped' = FALSE
  /\ sent' = <<>>
  /\ UNCHANGED location

FormNext ==
  \/ OwnReady \/ CasReady \/ Load
  \/ \E p, c \in Passwords : Type(p, c)
  \/ \E m \in Messages : Close(m)
  \/ Submit \/ AnswerArrives \/ Stop \/ Back \/ Reload

FormSpec == FormInit /\ [][FormNext]_formVars

(***************************************************************************)
(* Properties.                                                             *)
(***************************************************************************)
\* The types of the variables; a message that was closed is never shown.
FormTypeOK ==
  /\ page \in Pages /\ themed \in BOOLEAN /\ query \in BOOLEAN /\ hash \in Hashes
  /\ ready \in 0..2 /\ shown \in {"loading", "loaded", "away"}
  /\ enabled \in BOOLEAN
  /\ action \in Seq({"path", "query", "hash", "route"})
  /\ pw \in Passwords /\ cnf \in Passwords
  /\ bar \in Passwords
  /\ closed \subseteq Messages /\ msgs \subseteq Messages \ closed
  /\ underWay \in BOOLEAN /\ edited \in BOOLEAN /\ stopped \in BOOLEAN
  /\ Len(sent) <= MaxSent

\* While a submission is under way no other one is made: but on the login
\* page, once, if the page finished loading in between, and on the password
\* page after an edit.  Both before the scripts are ready and with a fragment
\* that cannot be decoded, only the login page's own handler is there
\* (preventFormResubmission, loginform.html's handlers, validate).
OneAtATime ==
  \A i \in DOMAIN sent : sent[i].over =>
    CASE page = "login" ->
           /\ \/ sent[i - 1].ready = 0
              \/ \A j \in 1..(i - 1) : sent[j].over => sent[j - 1].ready = 0
      [] page = "password" -> sent[i].edited
      [] OTHER -> sent[i - 1].ready < 2 \/ hash = "malformed"

\* The password page submits a password only if it matches the policy and was
\* typed twice, whenever the scripts get ready and whatever is edited while a
\* submission is under way (the markup's disabled, validate).
OnlyAcceptedSent ==
  page = "password" =>
    \A i \in DOMAIN sent : sent[i].pw \in Accepted /\ sent[i].cnf = sent[i].pw

\* What the server takes for the query of the address a form is sent to.
IsHash(part) == part = "hash"
QueryOf(a) ==
  LET h == SelectInSeq(a, IsHash)
  IN  SubSeq(a, 2, IF h = 0 THEN Len(a) ELSE h - 1)

\* The scripted form of a page is sent with the query of the page, no more and
\* no less: every time if there is a fragment, which cuts off what was added
\* before, and the first time if there is none.  Not with a fragment that
\* cannot be decoded, and not with one that has a question mark when the page
\* has no query (preserveAnchorTagOnForm).
QueryKept ==
  \A i \in DOMAIN sent :
    /\ page # "password" /\ sent[i].ready = 2
    /\ hash # "malformed" /\ (query \/ hash # "routed")
    /\ hash # "none" \/ \A j \in 1..(i - 1) : sent[j].ready < 2
    => QueryOf(sent[i].to) = IF query THEN <<"query">> ELSE <<>>

\* The login page can be used whenever it is shown and nothing is under way,
\* on the way back from the answer too, unless the user stopped the
\* submission (loginform.html's pageshow handler).
LoginUsable ==
  page = "login" /\ shown = "loaded" /\ ~underWay /\ ~stopped => enabled

\* After an edit the messages on screen are true of the fields as they are now
\* and the bar rates what is typed.  Beside an enabled button only the advice
\* for a stronger password may stay; a disabled button has its reason on
\* screen, and a weak password its advice, unless the user closed that very
\* message for good.  That the password has yet to be repeated is the one
\* reason there is no message for (validate, UpdateProgressBar).
Explained ==
  LET reason == IF pw # Empty /\ pw \in Accepted THEN "mismatch" ELSE "policy"
  IN  page = "password" /\ edited =>
        /\ bar = pw
        /\ "policy" \in msgs => reason = "policy"
        /\ "mismatch" \in msgs => pw # cnf /\ cnf # Empty
        /\ "strength" \in msgs => pw \in Suggested
        /\ enabled => msgs \subseteq {"strength"}
        /\ ~enabled =>
             reason \in msgs \cup closed \/ (reason = "mismatch" /\ cnf = Empty)
        /\ pw # Empty /\ pw \in Suggested => "strength" \in msgs \cup closed
=============================================================================
