# Verification of lemon-sso-cas-server

TLA+ specifications of this repository, checked with TLC on small instances and
proved with TLAPS where a result should hold for every instance. The repository
is an overlay of Apereo CAS 6.1: a few Java classes that replace beans of CAS,
their configuration, and the pages and scripts the server delivers. CAS itself
is a library here; it appears in the models only by what this code hands to it
or gets from it, and `PROJECT.json` marks those definitions external.

`PROJECT.json` lists the components, the runs, the mutants that show that each
property can fail, the lines each definition models, the findings, the hazards
and the theorems. All paths below are relative to `src/main/` of the
repository unless they say otherwise.

## 1. The system

| Component | State | Operations | Interacts with |
|---|---|---|---|
| U2F browser library, `resources/static/js/u2f/u2f-api.js` | `port_`, `waitingForPort_`, `reqCounter_`, `callbackMap_`, `js_api_version` | `sign`, `register`, `getApiVersion`, `getPortSingleton_`, `responseHandler_`, the port wrappers | the U2F pages (callbacks), extension, iframe or mobile app (messages) |
| Authentication of names and passwords, `java/.../authentication`, `service`, `credential`, `exception` | none of its own; the table `user_base_info`, the credential and the result of each attempt | `doAuthentication`, `transformUsername`, `transformPassword`, `matches`, `queryByUserName` | CAS's authentication manager (calls, exceptions), the database, CAS's static-users handler asked next |
| Search box of the discovery page, `resources/static/js/samlidp/idpselect.js:108-388, 982-1083` | text, results, current entry, hidden field, button, drop-down | key, mouse, focus and submit handlers | the discovery page (chosen provider) |
| Identity provider discovery page, the rest of `idpselect.js`, `idpselect_config.js`, `casSamlIdPDiscoveryView.html` | the cookies `_saml_idp` and `_shibboleth_eds`, shared by all pages of the browser; the list `P` of each page | `draw`, the choice of a provider, the auto-follow radios | the feed of the server, other tabs |
| Assembly of beans, `java/.../config`, `META-INF/spring.factories` | the bean definitions while the context starts | one registration per `@Bean` | CAS's auto-configurations (order, conditions, overriding) |
| Ticket identifiers, `TicketsConfiguration`, `CasServiceTicketIdGeneratorsConfiguration` | the generators and their suffixes | creation and refresh of four generators | CAS's ticket factories |
| Login web flow, `CustomWebflowConfigurer` | the flow definition | `doInitialize`, `createLoginFormView`, `createRememberMeAuthnWebflowConfig` | CAS's flow registry and execution plan |
| Logout page, `casPropagateLogoutView.html` | the request and the status icon of each service | one script, one icon and one callback per service | CAS's logout manager, the services |
| U2F pages, `casU2fLoginView.html`, `casU2fRegistrationView.html` | the form's token | timer, callback, submission | the U2F library |
| Form scripts, `cas.js`, `passwordMeter.js`, `fragments/loginform.html`, `pwdupdateform.html` | the submit button, the form's action, the messages | submit, input, page-show handlers | each other, through the same button; CAS (submissions) |
| Consent, interrupt and QR code pages | almost none | one handler each | CAS |
| Templates, styles, texts, Duo client, configuration, build | none | | |

### What is hard here, and what correct means

* **U2F library.** Calls made before the port exists share one acquisition and
  wait in a queue; each first asks for the API version; answers come in any
  order, twice, or not at all; the extension may disappear while the queue is
  being served. Correct: a callback is in exactly one place until it has run,
  runs at most once with its own answer, no request goes out in a form the
  counterpart does not speak, no waiter is left behind by a living port, and
  every call is answered where the platform listens.
* **Authentication.** Reading the account and judging the password are two
  steps while the table changes; any exception moves on to the next handler;
  a name may be absent or doubled; name and password pass through
  configurable conversions. Correct: a verdict is that of the accounts at one
  instant, a doubled account never logs in, the principal is who was looked up.
* **Search box.** Typing, keys, hovering, focus and the two forms interleave
  freely, a hidden field and a button must agree with a highlight that other
  events move or drop, and a cut list must not look like a unique match.
  Correct: what can be submitted is what is highlighted.
* **Discovery page.** Pages of one browser read the history when they are drawn
  and write it when a provider is chosen, the feed changes, both cookies
  expire. Correct: the last choice heads the history and is what an automatic
  redirect follows; a page that is up to date forgets and reorders nothing.
  What the page shows comes from loops over untrusted lengths: the feed has
  copies and hidden providers, the cookie is base64 of any length, a provider
  has names and logos in some languages, a return address has parameters that
  go on by two different ways. The lives of the two cookies overlap.
* **Beans.** Whether this repository's bean or CAS's is used depends on load
  order, conditions and overriding at once.
* **Ticket identifiers.** A refresh has two steps, and only some generators take
  part in it. Correct: a new ticket carries the suffix of the last refresh.
* **Login flow.** It is initialised more than once, and binds fields of its own.
  Correct: exactly the fields of the form reach the credential.
* **Form scripts.** Independent handlers enable and disable one button and
  rewrite one address, before and after their files arrive, and again when the
  page comes back from the browser's history.
* **U2F pages and logout page.** Callbacks of a library or a service arrive in
  any order, twice or not at all, and act on a document that is still parsed.

The list of hazards, each at its line with the properties that would catch it
going wrong, is in `PROJECT.json`. Some of them do go wrong in this code and nothing in
the repository says they must not; these carry a note, which names the exception the
properties around them make, and no property where none would catch them.

## 2. Modules

| Module | Models | Checked by |
|---|---|---|
| `U2fCalls` | abstract: a call is answered at most once, with an answer to it | |
| `U2fApi` | `u2f-api.js` | `MCU2fApi` |
| `U2fPages` | the pages that sign and register, composed with `U2fApi` | `MCPages` |
| `LoginVerdict` | abstract: a credential is judged by the accounts of one instant | |
| `Login` | handler and service as CAS's manager calls them | `MCLogin`, `MCServer` |
| `BeanAssembly` | whose bean definitions win, in every load order | `MCServer` |
| `LoginWebflow` | the construction of the login flow, the binding of a form | `MCServer` |
| `TicketIds` | the ticket id generators under refreshes | `MCServer` |
| `IdpHistory` | abstract: what the remembered choices promise across pages | |
| `IdpSelect` | the discovery page, its pages and cookies | `MCIdpSelect`, `MCDiscovery` |
| `TypeAhead` | the search box and the two forms | `MCTypeAhead`, `MCDiscovery` |
| `FeedList` | the list made of the feed: copies, hidden providers, order | `MCDiscovery` |
| `ReturnAddress` | the parameters of the return address on both ways to a service | `MCDiscovery` |
| `CookieCodec` | base64 of the history cookie, code by code | `MCDiscovery` |
| `Localised` | languages of texts, names and icons | `MCDiscovery` |
| `LogoChoice` | the logo of a button, after `Localised` has set the language | `MCDiscovery` |
| `FollowPeriod` | how long the automatic redirect lasts, by the days | `MCDiscovery` |
| `FormScripts` | `cas.js`, `passwordMeter.js` and the login form's handlers | `MCPages` |
| `PropagateLogout` | the page that passes a logout on | `MCPages` |

`MCDiscovery`, `MCServer` and `MCPages` are sums: the initial state chooses one
part, only this part moves, and the others rest in an initial state of theirs
(or at their end). No part can see another's variables, so a run of the sum
checks each part as a run of its own would, with the properties of all parts. The
parts that do interact are composed: `U2fPages` runs `U2fApi`'s actions with
the pages' callbacks, `LogoChoice` uses the languages `Localised` set up, and
`IdpSelect` takes what the search form submits from what `TypeAhead` establishes
(`ButtonMeansHighlighted`).

Definitions marked *Slip* are what a plausible mistake in the code would look
like; `PROJECT.json` names, for every property of a passing run, the slip that
violates it.

### U2fApi

A turn of the page's event loop is one action: `Invoke` is `sign`, `register`
or `getApiVersion`; `ProbeAnswered`, `TimerFires`, `IframeLoaded` and
`IframeReady` are the stages of `getMessagePort` on each platform; `DrainOne` is
one turn of the loop over `waitingForPort_` (nothing else of the page runs until
the loop ends or throws); `HandleVersion`, `HandleAnswer` and `IgnoreResponse`
are `responseHandler_`. The extension is an environment that answers, repeats an
answer, answers without a number, or disconnects. Key handles, URLs and time-out
values are abstracted; what a request's form and challenge are is kept.

`ImplementsCalls` is the refinement of `U2fCalls`: a call is pending from its
invocation until its callback has run.

### Login

`Submit` binds a form, `queryByUserName` reads the rows, `Verify` compares and
creates the principal, `QueryFails` and `RefuseBlank` are the ways to fail
before that, `StockHandler` is the next handler, `ChangeTable` is whoever
maintains the accounts. Passwords are values with the number of times they were
encoded, which is what tells an identity encoder from a hashing one. Neither makes
a blank text of a password, so the handler's refusal of a blank encoding
(`CustomAuthenticationHandler.java:136`) has no disjunct in `RefuseBlank`.

`ImplementsVerdict` is the refinement of `LoginVerdict`. The verdict counts as
settled when the rows are read: that is the instant whose accounts it is about.
A database that does not answer counts as an empty table.

### TypeAhead

One action per event handler. Typing is two events, `Edit` (the browser changes
the text, no handler runs) and `KeyUp` (the control looks at it), so that every
other event may come between. `HandleChange`, `HideDrop` and `Highlight` are the
methods the handlers share. How a text is compared with names, identifiers and
keywords is the constant `Candidates`; the cut-off, the selection of a single
result and everything done to the button and the hidden field are in the model.
Focus that a handler gives to a box that has it already is no event.

### IdpSelect

`draw` is two steps, because the request for the feed blocks one page while
others go on: `OpenAndFollow`, `OpenAndLoad` or `Stop`, then `Draw` or
`LoadFailed`. `Select` is `aH`: move the choice to the front of the page's list
and write the cookie. `PreferredClick` and `FormSubmit` are the ways to choose;
`TypeAhead` justifies that the search form submits only providers of the list.
A page stays drawn after a choice, as it does when its link is opened in another
tab or when the user comes back to it. Cookies expire at any time, each by
itself. `Proceeds` says which requests get past `m`: the page's own parameters
always do; with a query, a policy that is not known and a missing or non-web
return address are refused, an `entityID` throws at `forEach` and `isPassive`
throws at an undeclared variable, so neither gets any further.

`ImplementsHistory` is the refinement of `IdpHistory`, which is deliberately
weaker than "most recently used": two pages overwrite each other's older choices,
and nothing in the repository says they must not. What survives on a page that
is up to date is `KeepsTheOthers`.

### FeedList, ReturnAddress

`FeedList` walks the feed as `aK` and `u` do: one turn of a loop is one action,
because both loops shrink the array they walk; `SortByName` then puts the list in
the order of the names, with entries of one name in any order.
`EachProviderOnce` compares the list with the feed the server sent.

`ReturnAddress` takes the address apart as the end of `m` does and lets it go on
by both ways: `ByForm` is what a service reads of the fields `ai` makes, `ByLink`
what it reads of the whole address in the links of `M` and in the automatic
redirect. A parameter is a name, a number of "=" and a value; texts are kinds
told apart by what a decoder makes of them (one with a plus, one with an escape,
one with a broken escape). `WaysAgreeWhenPortable` says for exactly which
addresses both ways tell the service the same.

### CookieCodec, Localised, LogoChoice, FollowPeriod

`CookieCodec`: `Encode` and `Decode` are one turn of `w` and `av`, for three codes
and four characters; characters are numbers of the alphabet, and the missing
codes at the end are `NaN`, as `charCodeAt` gives them. `IsBase64` (in
`DiscoveryTypeOK`) compares the entry with the bits of the text.

`Localised`: `SetUp` is the part of `m` about languages, `Say` is `A`,
`ShowName` is `aE` with `ay`, and `ShowIcon` is `ak`. A provider's names and its logos
are two lists; `ak` takes a logo only if it is 16 by 16, and the list may be missing
altogether, which is the empty one in the model. The three look-ups share nothing but
the languages, so only the last one is remembered. `S`, the variable that should hold the
browser's language, is never assigned in the code: comparing with it matches the
entries that have no language (`NoLang`). `LogoChoice` is the loop of `H` with one action
for each logo looked at and one for each language, then the two cuts, in
fractions. `FollowPeriod` has the days that `IdpSelect` leaves open: the radio
buttons, both cookies' expiry, a clock.

### BeanAssembly, LoginWebflow, TicketIds

`BeanAssembly` loads ten configurations in every order the annotations of this
repository allow; CAS's own bean methods, conditional or not, are external.
`LoginWebflow` runs `doInitialize` several times on one flow and then posts every
form. `TicketIds` makes, drops and remakes the four generators; `Rebind` and
`RefreshAll` are the two steps of a refresh, with tickets issued in between.

### FormScripts

One document with a form, of four kinds. `OwnReady` and `CasReady` are the two
ready callbacks, `Type` the keys in the password fields with the whole of
`validate` (its three messages, the button and the bar; which passwords zxcvbn has
suggestions for is the constant `Suggested`), `Close` the cross of a message,
`Submit` all handlers of the submit event in their order and the browser's own
checks, `Load` and `Back` the two occasions of `pageshow`. The user may stop a submission, come back to the document, or load it again. An address
has a query or not, and a fragment that may hold a question mark or a percent
sign that cannot be decoded: then the first handler throws and the ones behind it do
not run. The history variable `sent` has, of each submission, what the
properties compare.

### U2fPages, PropagateLogout

`U2fPages` takes `U2fApi`'s actions and adds the timer of the page and its callback,
which runs inside the step that answers the call. `PropagateLogout` parses script
and icon of each service in turn, while answers come at any time.

## 3. Runs

| Run | Bounds | Shows |
|---|---|---|
| `u2f_safety` | a sign, a register and a version call on all four platforms, one repeated answer, one disconnect or unnumbered answer | the safety properties and the refinement; two calls queue behind a third and answers cross |
| `u2f_live` | sign and register, no fault, one repeat, platforms that listen | every call is answered |
| `u2f_mobile_version` | phones | finding 1 |
| `u2f_challenge` | keys already registered; an extension of either version, which may answer the version request with an error | finding 2 |
| `idp_select` | two pages, three providers, a cookie of two, feeds that lack some | the refinement of `IdpHistory`: overflow, stale pages, providers that left the feed |
| `discovery` | search box: three providers, a text for each number of matches, `maxResults` 1. One page: five providers (one hidden, one preferred), a cookie of three. Codec: ids of up to five characters over five codes that set the bits at the edges. Languages: five browsers, five configurations, up to three names, up to two logos that may be icons. Logos: up to three of seven sizes. Following: 1, 60 and 270 days, more than two years. Feed: up to four entries of three ids and two names, two hidden. Address: up to two parameters | thirteen properties, each about one part of the discovery page |
| `type_ahead_cut_off` | the search box with `maxResults` 2 | finding 5 |
| `pages` | forms: two accepted passwords, one of them weak, a refused one and the empty text, three submissions, all addresses; U2F: a page of each kind on every platform, two repeated answers, one fault; logout: four services | ten properties of pages in a browser |
| `server` | beans: ten configurations, with and without overriding; flow: three initialisations, two fields of its own, all forms; login: two browsers, a transformer that renames or empties, static users, one change of the table; tickets: three changes of the suffixes | the refinement of `LoginVerdict` and the properties of the other parts |
| `login_message` | two browsers | finding 3 |
| `login_hashing` | a hashing encoder | finding 4 |
| `bean_assembly_logout` | every load order | finding 6 |

The bounds are small but each makes its case happen: a queue of two behind an
acquisition, a table that changes between reading and judging, a list longer than
the cut-off, a history longer than the cookie, a feed with two copies of one
provider in a row, an id whose last group has one, two or three characters, a third
submission that appends to an address for the third time. The literals of
the code (5 cookie entries, 5 buttons, 10 results) are constants and get 2 or 3 in
the instances. `u2f_*`, `pages` and `server` switch deadlock checking off because
all calls may have been made and all browsers logged in; `discovery` and
`idp_select` check it.

**Fairness.** `u2f_live` and the U2F part of `pages`: the event loop runs timers
that are due, finishes the loop it is in and delivers messages that arrived (weak
fairness of `TimerFiresOnPage`, `Acquire`, `DrainOne`, `Handle`); an installed
extension answers each request, if only with its time-out error (weak fairness of
`Answer`). `u2f_live` has no faults and leaves out the platform that does not
listen; `SignPageGetsOn` names what excuses it (`Excused`: iOS, or a fault that
happened). The logout part of `pages`: the browser parses the page to its end (weak
fairness of `ParseScript` and `ParseIcon`); no service has to answer. No user has
to do anything in any run.

## 4. Proofs

| Theorem | Says | Assumes |
|---|---|---|
| `U2fApi_proofs!TypeCorrect` | `Spec => []TypeOK` | the constants' assumptions |
| `U2fApi_proofs!CallbacksSafe` | `Spec => []OwnAnswerOnce` | the same |
| `U2fApi_proofs!NoCallLost` | `Spec => []OnePlacePerCall` | the same |
| `U2fApi_proofs!Implementation` | `Spec => ImplementsCalls` | the same |
| `U2fApi_proofs!FormUnderstood` | `Spec => []ModernOnlyIfSupported` | the same |
| `U2fApi_proofs!VersionFirst` | `Spec => []VersionBeforeRequest` | the same |
| `U2fApi_proofs!QueueEmptied` | `Spec => []NoStrandedWaiter` | the same |
| `U2fApi_proofs!AcquiredOnce` | `Spec => AcquireOnce` | the same |
| `Login_proofs!TypeCorrect` | `Spec => []TypeOK` | the same |
| `Login_proofs!Implementation` | `Spec => ImplementsVerdict` | passwords stored as typed; the principal created from the looked-up name |
| `Server_proofs!BeansOfThisRepository` | `BeanSpec => []OwnBeansUsed` | none: the configurations are those of the code |
| `Server_proofs!SuffixOfRefresh` | `TicketSpec => SuffixOfLastRefresh` | the constants' assumptions |
| `Server_proofs!FormHandedOver` | `FlowSpec => []HandsOverTheForm` | the same |
| `Server_proofs!ServerTypeCorrect` | `ServerSpec => []ServerTypeOK` | the same |
| `FormScripts_proofs!LoginCanBeUsed` | `FormSpec => []LoginUsable` | the same |
| `FormScripts_proofs!SubmitsOnlyAccepted` | `FormSpec => []OnlyAcceptedSent` | the same |
| `FormScripts_proofs!OneSubmission` | `FormSpec => []OneAtATime` | the same |
| `FormScripts_proofs!QueryIsKept` | `FormSpec => []QueryKept` | the same |
| `FormScripts_proofs!ButtonExplained` | `FormSpec => []Explained` | the same |
| `FormScripts_proofs!FormTypeCorrect` | `FormSpec => []FormTypeOK` | the same |
| `Pages_proofs!FormSentOnce` | `PageSpec => []SubmitsOwnAnswerOnce` | the same |
| `Pages_proofs!IconTells` | `LogoutSpec => []IconTellsOutcome` | the same |
| `Pages_proofs!PagesTypeCorrect` | `BrowserSpec => []PagesTypeOK` | the same |
| `TypeAhead_proofs!TypeCorrect` | `SearchSpec => []SearchTypeOK` | a positive `maxResults` |
| `TypeAhead_proofs!SubmitsTheHighlight` | `SearchSpec => []ButtonMeansHighlighted` | the same |
| `TypeAhead_proofs!ShownIsSelectable` | `SearchSpec => []ShownAreSelectable` | the same |
| `TypeAhead_proofs!EnabledIsUnique` | `SearchSpec => EnabledOnlyIfUnique` | the same |
| `IdpSelect_proofs!HistoryTypeCorrect` | `Spec => []TypeOK` | the constants' assumptions |
| `IdpSelect_proofs!HistoryImplemented` | `Spec => ImplementsHistory` | the same, and that the cookie is written (`~NoWriteCookie`) |
| `IdpSelect_proofs!OthersKept` | `Spec => KeepsTheOthers` | the constants' assumptions |
| `IdpSelect_proofs!HistoryOffered` | `Spec => OffersTheHistory` | the same |
| `Discovery_proofs!CodecTypeCorrect` | `CodecSpec => []CodecTypeOK` | codes below 256 |
| `Discovery_proofs!ReadsBack` | `CodecSpec => []ReadsWhatWasWritten` | the same |
| `Discovery_proofs!EntriesAreBase64` | `CodecSpec => []IsBase64` | the same |
| `Discovery_proofs!SentOnAsAsked` | `FollowSpec => FollowsOnlyWhenAsked` | a clock that can go on (`LastDay > 0`) |
| `Discovery_proofs!PeriodKept` | `FollowSpec => NotAskedAgain` | the same, and the history is kept at least as long as each period |
| `Discovery_proofs!TextsAreLocal` | `LocalSpec => []TextsInBrowsersLanguage` | no language is called as the absence of one is (`LocalAssumption`) |
| `Discovery_proofs!NameIsChosen` | `LocalSpec => []NameChosen` | the same |
| `Discovery_proofs!LogoIsTheBest` | `LogoSpec => []BestLogoInTheBox` | the same; logos of positive sizes |
| `Discovery_proofs!ProvidersOnce` | `FeedSpec => []EachProviderOnce` | the constants' assumptions |
| `Discovery_proofs!WaysAgreed` | `ReturnSpec => []WaysAgreeWhenPortable` | the same |
| `Discovery_proofs!PartsBehave` | `DiscoverySpec` implies the specifications of the parts (the logo's apart, which `LogoOnPage` covers) | none |
| `Discovery_proofs!DiscoveryTypeCorrect` | `DiscoverySpec => []DiscoveryTypeOK` | all of the above, `LastDay > 0` |

Every safety invariant and action property of a passing run is a theorem. Those of
a part are stated of the part's own specification; that a sum behaves as each of its
parts is itself proved (`PartsBehave`, and the lemmas `OnePartMoves` of
`Server_proofs` and `BrowserStep` of `Pages_proofs`).

*Loops.* The induction theorems of the library cannot be instantiated with an
operator, and the prover has nothing else to unfold a recursive function with. The
way round is well-foundedness of the natural numbers, stated with a set in place of the
operator: `LeastOf` gives the least element of a set of numbers, `LoopInduction`
concludes that a set holding 0 and closed under successors up to a length has every index
up to it, and `LoopDefined` that a recursion over the turns of a loop has the value its
two clauses say. `Others` and `Slots` of `IdpSelect` are such recursions, and the
selections of `Localised` and `FormScripts` are the least elements of index sets.

*U2fApi.* The properties are not inductive by themselves: that a callback runs
once depends on which numbers are still on the wire. `IInv` adds `Places` (queue
and map between them hold each unanswered call once), `Carried` (a message whose
number the map knows is about the closure kept there, and all numbers were given
out), `Answered` and `Fits` (which stages a platform goes through). `Places` is
stated for a set of calls left aside so that it also holds in the middle of a
step, when a callback has left the queue and is not yet in the map. The order of
version round trips and requests follows from what the page knows (a version it
took from an answer or from the kind of port), which is added to `IInv`; that the
queue is empty or being emptied goes with the port.

*Login.* `IInv` adds that an attempt about to compare has read exactly one row, of
its own name (`OneRowRead`), and that only a finished attempt has a principal
(`NotYetAccepted`). Reading the rows is the abstract `Decide`; the steps after it
map to stutters, because the verdict they come to is already `principalBar`.

*Server.* `BeanInv`: as long as nothing failed, the beans of a loaded configuration
exist, and those of the four configurations nothing overrides later (`Prevailing`)
are their own; the constraints on the order decide which those are. `FlowInv`: after
any number of initialisations the flow is as after the first, so a posted form is
bound by the same fields. `TicketInv`: a generator is of the last refresh or, during one,
of what is bound already.

*FormScripts.* `LoginUsable` is inductive. For `OnlyAcceptedSent` the invariant says
that only `validate` enables the password page's button (`ButtonMeansAccepted`).
For `OneAtATime` it says what an enabled button means while a submission is under
way (`ButtonInv`): on the login page, that the own handlers came after the last
submission, or that the page has finished loading since, which happens once and leaves
no second exception; on the password page, an edit; on the others, late
scripts or a fragment that cannot be decoded. For `Explained`, messages, bar and
button are those of the last validation but for the messages closed (`Validated`); the
property follows by cases on what is wrong with the password. For `QueryKept` the address of the
form is the original one until a script has rewritten it, and then has the page's query
before its first fragment (`QueryInv`).

*Pages.* Each step of a U2F page is a step of the library, so `IInv` and the
library's theorems hold of it; added is that the form was sent only by an answered call,
and that the one answer it can have is to the page's request. The logout page is
parsed in order, and an icon without an outcome whose request has one is `missed`
(`LogoutInv`).

*TypeAhead.* `IInv` is the conjunction of the types and the two invariants: a
highlight by keys reads the results, a highlight by mouse reads the entries on
screen, and both must be the same list. `EnabledIsUnique` rests on a lemma about
`Possible`: it has one element only if there is one candidate, because it looks one
further than `maxResults`.

*IdpSelect.* `HistoryInv` says of the cookie and of the list of every page, stale or not,
that nothing is in it twice or unchosen; the cookie is short. Moving to the front keeps
this because `Others` keeps the places in their order and drops just the choice
(`OthersPlaces`). A drawing offers what `Slots` collected: every provider of the
history that is known, or the row is full.

*Codec.* One turn of the decoder undoes one turn of the encoder, at each of the
three lengths of a last group (lemmas about quotients and remainders); the invariant
relates the lengths of what was written and what was read so far. That the entry is
base64 follows from it group by group: four characters have the bits of three codes
(`QuadBits`, one case for each of the 24), and the place of a bit in the entry is that
of its group and its place there.

*Following.* The cookie's day is that of the last click plus its period; from a
choice on, the history outlives it.

*Languages.* `LocalInv` says that after the set-up region, texts and fallback are those
the tag and the configuration give, and that the text, name or icon looked up last is
what `A`, `ay` and `ak` give of their own lists (`NameFits`, `IconFits`). What a search
through a list finds is one lemma for names and icons (`SearchFinds`).

*Logos.* `LogoInv` says of a pass that is under way that the best logo so far beats all that
the pass has looked at, and of the passes that are over that they found nothing. The
loop compares with the best so far only, so the order it compares by must be
transitive; shapes are fractions, and this is `CloserIsTransitive`. The two cuts are four
cases of a lemma about products (`CutFits`).

*Feed.* Both loops take entries out of the list they walk: what the loop has yet to see is
the end of the feed, what it has seen is the first entries of the providers met, and
the first loop's set `seen` is their ids (`CopiesInv`, `HiddenInv`). Sorting is a
permutation, so it keeps them.

*Return address.* As long as every parameter falls into two, the list the form is made of
is as long as the part looked at, parameter by parameter what the loop takes of it; a
parameter that does not leaves it shorter for good (`AddressInv`). Form and link are
then compared parameter by parameter.

Model-checked only: liveness (`EveryCallAnswered`, `SignPageGetsOn`, `AllNotified`),
as temporal reasoning about fairness is out of the prover's reach. The runs that
expect a violation have nothing to prove.

## 5. Findings

1. `u2f-api.js:731`: on phones `getApiVersion` answers 1.1, its comment says 0.
2. `u2f-api.js:338`: the 1.0 form of a register request puts the whole register
   request where a sign request's challenge, a string, belongs. The page uses this
   form when the version request that goes first was answered with an error (as in the
   run, whose extension speaks 1.1) or with a version below 1.1.
3. `UserBaseInfoServiceImpl.java:53`: the page does not show the messages of the
   exceptions this code throws, as the comment says it does.
4. `CustomAuthenticationHandler.java:80`: `matches` gets an encoded password where
   its comment says raw.
5. `idpselect.js:186`: one result more than `maxResults` is shown.
6. `CustomLogoutExecutionPlanConfiguration.java:22`: the logout post-processor is
   never registered, because CAS's configurer of the same name is loaded later.

Lines of the details and of the quoted texts are in `PROJECT.json`. What the models
show besides, without a run of its own:

* The button "3 months" of the discovery page stands for 60 days
  (`idpselect.js:28`, `idpselect_config.js:27`), and "Never" is always drawn as
  the checked one, also while the cookie is in force (`idpselect.js:1090`).
* `S` is never assigned, so a provider with a name in the browser's language may be shown
  by its name in the default language (`idpselect.js:1208`; `NameChosen` says when).
* With remember-me, the login form is bound to CAS's class and not to
  `CustomCredential` (`CustomWebflowConfigurer.java:91`; `HandsOverTheForm` leaves
  the class out then).
* An icon of the logout page stays pending if the answer comes before the icon
  (`casPropagateLogoutView.html:52`; `missed` in `PropagateLogout`).
* On iOS no callback of the U2F library can run in this file, and an error answer to
  a second version round trip makes the page forget that 1.1 is spoken
  (`u2f-api.js:498`, `:630`); nothing unsafe follows from either.
* The automatic redirect may go to a provider that has left the feed, and the link to the
  list preselects the last provider highlighted (`idpselect.js:446`, `:1023`).

## 6. Plan

Modelled first, because they hold the repository's own logic with the most
interleavings, were the U2F library, authentication and the discovery page's history
and search box; then the server's parts, the form scripts, the pages of U2F and logout,
and the loops of the discovery page. What could still be added:

1. The white list of return addresses (`e`, `idpselect.js:652`) and the fetching of the feed
   (`f`) with its two kinds of requests.
2. The consent page's and the interrupt page's forms as kinds of `FormScripts`, and the
   QR code page, whose channel submits on every message.
3. A composition of `TypeAhead` and `IdpSelect` in which the search form submits into the
   history, so that what the one needs of the other is a theorem about both.

### Not modelled

Consent, interrupt and QR code pages (one handler each; the last two submit and keep no
state), the rest of the templates, styles and texts (presentation), the building of the
document, the copying of the configuration and the work-arounds for old browsers in
`idpselect.js`, the Duo client (third-party, minified), configuration files (data, which
appear as constants of the modules), the build.
