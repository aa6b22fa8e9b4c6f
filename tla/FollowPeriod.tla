----------------------------- MODULE FollowPeriod -----------------------------
(***************************************************************************)
(* How long the discovery page sends a browser on without asking: the      *)
(* radio buttons of C, the cookie that E sets or deletes for them, and     *)
(* the cookie of the history, which at sets for samlIdPCookieTTL days at   *)
(* every choice.  IdpSelect lets both cookies expire at any time; here     *)
(* they expire when they do, one browser with one page at a time.          *)
(*                                                                         *)
(* Time is counted in whole days, the unit of the configuration.           *)
(***************************************************************************)
EXTENDS Integers, Sequences

CONSTANTS
  autoFollowCookieTTLs,   \* days of each radio button but the first
  samlIdPCookieTTL,       \* days the history is kept
  Pauses,                 \* days that may pass between two visits
  LastDay                 \* bound on the clock

ASSUME FollowAssumption ==
  /\ autoFollowCookieTTLs \in Seq(Nat \ {0})
  /\ samlIdPCookieTTL \in Nat \ {0}
  /\ Pauses \subseteq Nat \ {0} /\ LastDay \in Nat

Buttons == 0..Len(autoFollowCookieTTLs)

VARIABLES
  today,         \* the date
  followUntil,   \* the day the auto-follow cookie expires, 0 if not set
  historyUntil,  \* the day the history expires, 0 if not set
  visit,         \* "closed", "shown", or "followed" when it sent the user on
  marked,        \* the radio button that is checked: 0 for never
  lastClick,     \* the button last clicked, and when (history variable)
  chosenOn       \* the day of the last choice, 0 for none (history variable)

followVars == <<today, followUntil, historyUntil, visit, marked, lastClick, chosenOn>>

FollowInit ==
  /\ today = 1 /\ followUntil = 0 /\ historyUntil = 0
  /\ visit = "closed" /\ marked = 0
  /\ lastClick = [button |-> 0, on |-> 0] /\ chosenOn = 0

InForce(until) == today < until

\* draw sends the user on if both cookies are there.
OpenPage ==
  /\ visit # "shown"
  /\ visit' = IF InForce(followUntil) /\ InForce(historyUntil)
             THEN "followed" ELSE "shown"
  /\ marked' = 0
  /\ UNCHANGED <<today, followUntil, historyUntil, lastClick, chosenOn>>

\* E: the first button deletes the cookie by an expiry in the past.
\* Slip: a longer period that is running is kept.
ExpiryLongest(b) ==
  IF b = 0 THEN 0
  ELSE IF today + autoFollowCookieTTLs[b] < followUntil THEN followUntil
  ELSE today + autoFollowCookieTTLs[b]
Expiry(b) == IF b = 0 THEN 0 ELSE today + autoFollowCookieTTLs[b]

\* A click on a radio button, which may be marked already.
Click(b) ==
  /\ visit = "shown"
  /\ followUntil' = Expiry(b)
  /\ marked' = b
  /\ lastClick' = [button |-> b, on |-> today]
  /\ UNCHANGED <<today, historyUntil, visit, chosenOn>>

\* at: the days the history is kept.  Slip: those of the first button.
LifeOfFirst == autoFollowCookieTTLs[1]
Life == samlIdPCookieTTL

\* A provider is chosen.
ChooseProvider ==
  /\ visit = "shown"
  /\ historyUntil' = today + Life
  /\ visit' = "closed" /\ chosenOn' = today
  /\ UNCHANGED <<today, followUntil, marked, lastClick>>

\* The user leaves without a choice.
LeavePage ==
  /\ visit = "shown"
  /\ visit' = "closed"
  /\ UNCHANGED <<today, followUntil, historyUntil, marked, lastClick, chosenOn>>

DaysPass(days) ==
  /\ visit # "shown" /\ today + days <= LastDay
  /\ today' = today + days
  /\ UNCHANGED <<followUntil, historyUntil, visit, marked, lastClick, chosenOn>>

FollowNext ==
  \/ OpenPage \/ ChooseProvider \/ LeavePage
  \/ \E b \in Buttons : Click(b)
  \/ \E days \in Pauses : DaysPass(days)

FollowSpec == FollowInit /\ [][FollowNext]_followVars

(***************************************************************************)
(* Properties.                                                             *)
(***************************************************************************)
AskedFor == lastClick.button # 0
Period == IF AskedFor THEN autoFollowCookieTTLs[lastClick.button] ELSE 0
Follows == OpenPage /\ visit' = "followed"

\* The types of the variables; without a period asked for there is no cookie.
FollowTypeOK ==
  /\ today \in 1..LastDay
  /\ followUntil \in Nat /\ historyUntil \in Nat
  /\ visit \in {"closed", "shown", "followed"}
  /\ marked \in Buttons /\ chosenOn \in 0..LastDay
  /\ lastClick \in [button : Buttons, on : 0..LastDay]
  /\ followUntil # 0 => AskedFor

\* Nobody is sent on without having asked for it, after the days last asked
\* for, or with a choice older than the history is kept: a later click on a
\* shorter period or on never counts, a visit or a choice prolongs nothing
\* (draw, E).
FollowsOnlyWhenAsked ==
  [][Follows => /\ AskedFor /\ today < lastClick.on + Period
                /\ chosenOn # 0 /\ today < chosenOn + samlIdPCookieTTL]_followVars

\* Whoever asked to be sent on and made a choice then or later is not asked
\* again before the period is over: the history outlives every period, however
\* late in it the choice is made (the configured periods, at).
NotAskedAgain ==
  [][OpenPage /\ AskedFor /\ chosenOn >= lastClick.on /\ today < lastClick.on + Period
       => visit' = "followed"]_followVars
===============================================================================
