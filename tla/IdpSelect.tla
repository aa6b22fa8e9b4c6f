------------------------------ MODULE IdpSelect ------------------------------
(***************************************************************************)
(* The identity provider discovery page (IdPSelectUI): the checks of the   *)
(* request, the automatic redirect, the loading of the feed, the preferred *)
(* buttons and the choice of a provider, with the two cookies they share.  *)
(* Pages are documents of one browser: tabs, or pages kept alive behind    *)
(* the "back" button, which go on with the history they read when drawn.   *)
(*                                                                         *)
(* The search box is in TypeAhead: here it contributes what it submits.    *)
(* Base64 and the URL encoding of the cookie are left out: it is a         *)
(* sequence of providers, oldest first, as the page writes it.             *)
(***************************************************************************)
EXTENDS Naturals, Sequences, SequencesExt

CONSTANTS
  Pages,         \* the documents of the browser
  Providers,     \* the entity ids of all identity providers
  Unknown,       \* what the lookup of an entity id not in the feed returns
  Feeds,         \* the feeds the server may answer with: subsets of Idps
  Hidden,        \* hiddenIdPs of the configuration
  Preferred,     \* preferredIdP of the configuration, a sequence
  MaxPreferred,  \* maxPreferredIdPs of the configuration
  Cap,           \* the number of providers written to the cookie (5)
  AutoFollow,    \* an autoFollowCookie is configured
  NoWriteCookie  \* noWriteCookie of the configuration

ASSUME IdpSelectAssumption ==
  /\ Unknown \notin Providers
  /\ Feeds \subseteq SUBSET Providers /\ Hidden \subseteq Providers
  /\ Preferred \in Seq(Providers)
  /\ MaxPreferred \in Nat /\ Cap \in Nat \ {0}
  /\ AutoFollow \in BOOLEAN /\ NoWriteCookie \in BOOLEAN

VARIABLES
  stored,    \* the _saml_idp cookie, oldest first; <<>> when there is none
  follow,    \* the auto-follow cookie is set
  status,    \* of each page: absent, stopped, loading, drawn or followed
  history,   \* of each page: P, the history it works with, newest first
  listed,    \* of each page: r, the providers of its feed that are not hidden
  slots,     \* of each page: the result of L, the preferred slots
  sentTo,    \* where the browser was last sent (history variable)
  everChosen \* the providers ever chosen (history variable)

vars == <<stored, follow, status, history, listed, slots, sentTo, everChosen>>
pageState == <<status, history, listed, slots>>

(***************************************************************************)
(* A request: with or without a query, and what the query holds.           *)
(***************************************************************************)
Requests ==
  [query : BOOLEAN, entityId : BOOLEAN, policy : BOOLEAN,
   return : {"none", "web", "other"}, passive : BOOLEAN]

\* Whether setup (m) lets drawing go on.  Without a query the parameters are
\* those of the CAS page, which are all accepted.  With one, an unknown policy
\* and a missing or non-web return address are refused with a message; an
\* entityID is a string, whose forEach is called and does not exist, and the
\* branch of isPassive reads a variable that does not exist: both throw.
Proceeds(req) ==
  req.query => /\ req.policy
               /\ ~req.entityId
               /\ req.return = "web"
               /\ ~req.passive

(***************************************************************************)
(* The history and its cookie.                                             *)
(***************************************************************************)
\* b: the cookie's entries, the last one first.
Read == Reverse(stored)

\* J: the entries of a history but i, in their order.
Others(past, i) ==
  LET kept[n \in 0..Len(past)] ==
        IF n = 0 THEN <<>>
        ELSE IF past[n] = i THEN kept[n - 1] ELSE Append(kept[n - 1], past[n])
  IN  kept[Len(past)]

\* The choice moves to the front, the others keep their order; the slip
\* pushes what it pops.
ToFrontTurned(past, i) == <<i>> \o Reverse(Others(past, i))
ToFront(past, i) == <<i>> \o Others(past, i)

\* at: at most Cap of the newest entries, written the oldest first; slips:
\* in the order of the array, and without the limit.
WrittenInOrder(past) == SubSeq(past, 1, IF Len(past) > Cap THEN Cap ELSE Len(past))
WrittenWhole(past) == Reverse(past)

Written(past) ==
  Reverse(SubSeq(past, 1, IF Len(past) > Cap THEN Cap ELSE Len(past)))

\* ad: the feed's entry of an entity id, or null.
Lookup(known, i) == IF i \in known THEN i ELSE Unknown

\* L: the configured providers, then those of the history that are not there
\* yet, until there are MaxPreferred; null counts as one entry.
Configured(known) ==
  [k \in 1..(IF Len(Preferred) > MaxPreferred THEN MaxPreferred ELSE Len(Preferred))
     |-> Lookup(known, Preferred[k])]

Pushed(row, entry) ==
  IF Len(row) < MaxPreferred /\ entry \notin Range(row) THEN Append(row, entry) ELSE row

Slots(past, known) ==
  LET row[n \in 0..Len(past)] ==
        IF n = 0 THEN Configured(known)
        ELSE Pushed(row[n - 1], Lookup(known, past[n]))
  IN  row[Len(past)]

\* The preferred buttons of a page: null slots are skipped.
Offered(p) == Range(slots[p]) \ {Unknown}

Init ==
  /\ stored = <<>> /\ follow = FALSE
  /\ status = [p \in Pages |-> "absent"]
  /\ history = [p \in Pages |-> <<>>]
  /\ listed = [p \in Pages |-> {}]
  /\ slots = [p \in Pages |-> <<>>]
  /\ sentTo = Unknown /\ everChosen = {}

\* What every way out of a document before it is drawn leaves.
Become(p, s) ==
  /\ status' = [status EXCEPT ![p] = s]
  /\ history' = [history EXCEPT ![p] = <<>>]
  /\ listed' = [listed EXCEPT ![p] = {}]
  /\ slots' = [slots EXCEPT ![p] = <<>>]

(***************************************************************************)
(* draw, up to the request for the feed, which blocks the page but not     *)
(* the other pages, and from the answer on.                                *)
(***************************************************************************)
SendsOn == AutoFollow /\ follow /\ Read # <<>>

Stop(p) ==
  /\ \E req \in Requests : ~Proceeds(req)
  /\ Become(p, "stopped")
  /\ UNCHANGED <<stored, follow, sentTo, everChosen>>

OpenAndFollow(p) ==
  /\ \E req \in Requests : Proceeds(req)
  /\ SendsOn
  /\ sentTo' = Read[1]
  /\ Become(p, "followed")
  /\ UNCHANGED <<stored, follow, everChosen>>

OpenAndLoad(p) ==
  /\ \E req \in Requests : Proceeds(req)
  /\ ~SendsOn
  /\ Become(p, "loading")
  /\ UNCHANGED <<stored, follow, sentTo, everChosen>>

LoadFailed(p) ==
  /\ status[p] = "loading"
  /\ Become(p, "stopped")
  /\ UNCHANGED <<stored, follow, sentTo, everChosen>>

\* Only now L reads the history the page will work with.
DrawPage(p, feed) ==
  /\ status[p] = "loading"
  /\ status' = [status EXCEPT ![p] = "drawn"]
  /\ listed' = [listed EXCEPT ![p] = feed \ Hidden]
  /\ history' = [history EXCEPT ![p] = Read]
  /\ slots' = [slots EXCEPT ![p] = Slots(Read, feed \ Hidden)]
  /\ UNCHANGED <<stored, follow, sentTo, everChosen>>

(***************************************************************************)
(* The choice of a provider (aH), by button, search box or list, and the   *)
(* navigation that follows it.  The page may be shown again.               *)
(***************************************************************************)
Select(p, i) ==
  /\ history' = [history EXCEPT ![p] = ToFront(history[p], i)]
  /\ stored' = IF NoWriteCookie THEN stored ELSE Written(history'[p])
  /\ sentTo' = i
  /\ everChosen' = everChosen \cup {i}
  /\ UNCHANGED <<follow, status, listed, slots>>

PreferredClick(p, i) ==
  /\ status[p] = "drawn" /\ i \in Offered(p)
  /\ Select(p, i)

\* onsubmit of the search form and of the list form: TypeAhead never submits
\* anything but an entry of the list it was given.
FormSubmit(p, i) ==
  /\ status[p] = "drawn" /\ i \in listed[p]
  /\ Select(p, i)

\* The radio buttons of C: never, or for some days.
AutoDispatch(p, on) ==
  /\ status[p] = "drawn" /\ AutoFollow
  /\ follow' = on
  /\ UNCHANGED <<stored, pageState, sentTo, everChosen>>

\* The two cookies expire each at its own time.
HistoryExpires ==
  /\ stored' = <<>>
  /\ UNCHANGED <<follow, pageState, sentTo, everChosen>>

FollowExpires ==
  /\ follow' = FALSE
  /\ UNCHANGED <<stored, pageState, sentTo, everChosen>>

Next ==
  \/ \E p \in Pages :
       \/ Stop(p) \/ OpenAndFollow(p) \/ OpenAndLoad(p) \/ LoadFailed(p)
       \/ \E feed \in Feeds : DrawPage(p, feed)
       \/ \E i \in Providers : PreferredClick(p, i) \/ FormSubmit(p, i)
       \/ \E on \in BOOLEAN : AutoDispatch(p, on)
  \/ HistoryExpires \/ FollowExpires

Spec == Init /\ [][Next]_vars

(***************************************************************************)
(* Properties.                                                             *)
(***************************************************************************)
\* The types of the variables.
TypeOK ==
  /\ stored \in Seq(Providers) /\ follow \in BOOLEAN
  /\ status \in [Pages -> {"absent", "stopped", "loading", "drawn", "followed"}]
  /\ history \in [Pages -> Seq(Providers)]
  /\ listed \in [Pages -> SUBSET Providers]
  /\ slots \in [Pages -> Seq(Providers \cup {Unknown})]
  /\ sentTo \in Providers \cup {Unknown} /\ everChosen \subseteq Providers

\* The cookie behaves as IdpHistory says whatever pages are open: the last
\* choice heads it and is where an automatic redirect goes, nothing is in it
\* twice or unchosen, and it never outgrows Cap.
Promise == INSTANCE IdpHistory
  WITH Idps <- Providers, recent <- Read, auto <- follow, sent <- sentTo,
       chosen <- everChosen, Nobody <- Unknown

ImplementsHistory == Promise!Spec

\* A choice on a page that is up to date with the cookie (no other page wrote
\* it since) forgets nothing and reorders nothing: the others move one down,
\* and only the oldest of a full history is dropped.
UpToDate(p) ==
  status[p] = "drawn" /\ Written(history[p]) = stored

KeepsTheOthers ==
  [][\A p \in Pages, i \in Providers :
       UpToDate(p) /\ (PreferredClick(p, i) \/ FormSubmit(p, i)) =>
         \A j, k \in DOMAIN Read :
           /\ Read[k] # i /\ (k < Cap \/ i \in Range(Read))
                => Read[k] \in Range(Read')
           /\ j < k /\ Read[j] # i /\ Read[k] # i /\ Read[k] \in Range(Read')
                => \E a, b \in DOMAIN Read' :
                     a < b /\ Read'[a] = Read[j] /\ Read'[b] = Read[k]]_vars

\* When the configuration names no providers of its own and allows as many
\* buttons as the cookie has entries (5 and 5), a page offers at its drawing
\* every remembered provider that its feed has, in spite of those it has not.
OffersTheHistory ==
  [][\A p \in Pages, feed \in Feeds :
       DrawPage(p, feed) /\ Preferred = <<>> /\ MaxPreferred >= Cap =>
         Range(Read) \cap listed'[p] \subseteq Offered(p)']_vars
=============================================================================
