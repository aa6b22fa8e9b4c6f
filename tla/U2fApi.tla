------------------------------- MODULE U2fApi -------------------------------
(***************************************************************************)
(* static/js/u2f/u2f-api.js: the library through which a page asks the U2F *)
(* extension (or the mobile authenticator app) to sign or to register.     *)
(*                                                                         *)
(* The page's script runs to completion: every action below that belongs   *)
(* to the page is one turn of the event loop, except that the loop of      *)
(* getPortSingleton_ over the waiting callbacks is taken one callback at a *)
(* time, with `draining' keeping every other page action out until it is   *)
(* over.  The extension is outside src/; it is modelled by the messages    *)
(* the page accepts from it, in any order.                                 *)
(***************************************************************************)
EXTENDS Naturals, Sequences, Functions

CONSTANTS
  Calls,         \* the calls the page makes, each once
  Kind,          \* Kind[c]: which function of the library the call uses
  Platforms,     \* the browsers considered
  RegisteredKeys,\* whether the page passes keys that are already registered
  MaxRepeats,    \* bound on answers the extension gives a second time
  MaxFaults      \* bound on disconnects and on answers without their number

Kinds == {"sign", "register", "version"}
AllPlatforms == {"chromeRuntime", "androidChrome", "iosChrome", "other"}

ASSUME KindAssumption == Kind \in [Calls -> Kinds]
ASSUME PlatformAssumption == Platforms \subseteq AllPlatforms
ASSUME KeysAssumption == RegisteredKeys \in BOOLEAN
ASSUME FaultAssumption == MaxRepeats \in Nat /\ MaxFaults \in Nat

VARIABLES
  platform,      \* what navigator and chrome.runtime tell getMessagePort
  extVersion,    \* the JS API version the extension implements
  acquiring,     \* how far getMessagePort has come
  port,          \* u2f.port_
  connected,     \* the other end of the port is alive
  waiting,       \* u2f.waitingForPort_
  draining,      \* the loop over waitingForPort_ is running
  reqCounter,    \* u2f.reqCounter_
  callbackMap,   \* u2f.callbackMap_
  jsApiVersion,  \* the global js_api_version
  outbox,        \* requests the extension holds
  inbox,         \* responses on their way to the page
  repeats,       \* repeated answers so far
  faults,        \* disconnects and answers without a number so far
  invoked,       \* calls made (history)
  replies        \* replies[c]: what the callback of c was given (history)

portVars == <<platform, acquiring, port, connected>>
callVars == <<reqCounter, callbackMap, jsApiVersion, replies>>
extVars  == <<extVersion, outbox, inbox, repeats, faults>>
vars == <<platform, extVersion, acquiring, port, connected, waiting, draining,
          reqCounter, callbackMap, jsApiVersion, outbox, inbox, repeats, faults,
          invoked, replies>>

-----------------------------------------------------------------------------
(* A closure of the library: the callback it keeps for a call, either the  *)
(* one that takes the version answer or the one that takes the final one.  *)
Closures == [call : Calls, stage : {"ask", "send"}]
Ask(c)  == [call |-> c, stage |-> "ask"]
Send(c) == [call |-> c, stage |-> "send"]

(* The closure whose response is handed to the page.                       *)
Final(c) == IF Kind[c] = "version" THEN Ask(c) ELSE Send(c)

(* js_api_version: undefined, below 1.1 (an extension that answers with an *)
(* error leaves 0), or 1.1.                                                *)
ApiVersions == {"undefined", "legacy", "1.1"}
Ports == {"none", "runtime", "message", "android", "ios"}

(* The requests on the wire.  `challenge' is what the signRequests of an   *)
(* adapted request hold in their challenge field: the string itself, or an *)
(* object that has one; `none' when the request carries no signRequests.   *)
Requests == [id : Nat, origin : Closures, format : {"none", "1.0", "1.1"},
             challenge : {"none", "string", "object"}]
Bodies == {"ok", "error", "legacy", "1.1"}
Responses == [id : Nat, origin : Closures, body : Bodies]
Reply(closure, body) == [origin |-> closure, body |-> body]
Replies == [origin : Closures, body : Bodies]

TypeOK ==
  /\ platform \in AllPlatforms
  /\ extVersion \in {"legacy", "1.1"}
  /\ acquiring \in {"idle", "probing", "timer", "iframe", "inited", "done"}
  /\ port \in Ports
  /\ connected \in BOOLEAN
  /\ waiting \in Seq(Closures)
  /\ draining \in BOOLEAN
  /\ reqCounter \in Nat
  /\ DOMAIN callbackMap \subseteq 1..reqCounter
  /\ callbackMap \in [DOMAIN callbackMap -> Closures]
  /\ jsApiVersion \in ApiVersions
  /\ outbox \in SUBSET Requests
  /\ inbox \in SUBSET Responses
  /\ repeats \in Nat
  /\ faults \in Nat
  /\ invoked \in SUBSET Calls
  /\ replies \in [Calls -> Seq(Replies)]

Init ==
  /\ platform \in Platforms
  /\ extVersion \in {"legacy", "1.1"}
  /\ acquiring = "idle"
  /\ port = "none"
  /\ connected = TRUE
  /\ waiting = <<>>
  /\ draining = FALSE
  /\ reqCounter = 0
  /\ callbackMap = <<>>
  /\ jsApiVersion = "undefined"
  /\ outbox = {}
  /\ inbox = {}
  /\ repeats = 0
  /\ faults = 0
  /\ invoked = {}
  /\ replies = [c \in Calls |-> <<>>]

-----------------------------------------------------------------------------
(* Formatting.  A request goes out in the 1.0 form unless the extension is *)
(* known to speak 1.1.  The 1.0 form of a register request repeats the     *)
(* keys already registered as signRequests, whose challenge is the whole   *)
(* first registerRequest.                                                  *)
FormatOfAnyKnown(version) == IF version = "undefined" THEN "1.0" ELSE "1.1"
FormatOf(version) == IF version = "1.1" THEN "1.1" ELSE "1.0"

ChallengeOf(c, version) ==
  IF FormatOf(version) = "1.1" THEN "none"
  ELSE IF Kind[c] = "sign" THEN "string"
  ELSE IF RegisteredKeys THEN "object" ELSE "none"

(* The Android and iOS wrappers have a getPortType; the others do not.     *)
Wrapped(p) == p \in {"android", "ios"}

(* Posting on the port of a disconnected extension throws, after the       *)
(* callback was entered in the map.                                        *)
PostThrows == port = "runtime" /\ ~connected

(* Slips a rewrite of the numbering could make: `reqCounter_++', and a     *)
(* number read without counting it.                                        *)
PostIncrement(map, closure, format, challenge) ==
  /\ reqCounter' = reqCounter + 1
  /\ callbackMap' = [i \in DOMAIN map \cup {reqCounter} |->
                       IF i = reqCounter THEN closure ELSE map[i]]
  /\ outbox' = outbox \cup {[id |-> reqCounter, origin |-> closure,
                             format |-> format, challenge |-> challenge]}
PostUncounted(map, closure, format, challenge) ==
  LET reqId == reqCounter + 1 IN
  /\ reqCounter' = IF reqCounter = 0 THEN 1 ELSE reqCounter
  /\ callbackMap' = [i \in DOMAIN map \cup {reqId} |->
                       IF i = reqId THEN closure ELSE map[i]]
  /\ outbox' = outbox \cup {[id |-> reqId, origin |-> closure,
                             format |-> format, challenge |-> challenge]}

(* Take a request number, keep the callback under it in `map', which is    *)
(* the callback map at this point of the handler, and post the request.    *)
Post(map, closure, format, challenge) ==
  LET reqId == reqCounter + 1 IN
  /\ reqCounter' = reqId
  /\ callbackMap' = [i \in DOMAIN map \cup {reqId} |->
                       IF i = reqId THEN closure ELSE map[i]]
  /\ outbox' = IF connected
                 THEN outbox \cup {[id |-> reqId, origin |-> closure,
                                    format |-> format, challenge |-> challenge]}
                 ELSE outbox

(* sendSignRequest and sendRegisterRequest once the port is known.         *)
SendRequest(map, c, version) ==
  Post(map, Send(c), FormatOf(version), ChallengeOf(c, version))

(* The page's callback of call c runs.                                     *)
GiveAnswer(c, reply) == replies' = [replies EXCEPT ![c] = Append(@, reply)]

(* Slip: the version answer handed to the page whoever asked for it.       *)
GiveVersionToPage(c, version) ==
  /\ GiveAnswer(c, Reply(Ask(c), version))
  /\ UNCHANGED <<reqCounter, callbackMap, outbox, jsApiVersion>>

(* The callback getApiVersion was given runs with a version: the page's    *)
(* own callback, or the one sign and register pass, which stores the       *)
(* version and sends the request it was asked for.                         *)
GiveVersion(c, version) ==
  IF Kind[c] = "version"
    THEN /\ GiveAnswer(c, Reply(Ask(c), version))
         /\ UNCHANGED <<reqCounter, callbackMap, outbox, jsApiVersion>>
    ELSE /\ jsApiVersion' = version
         /\ SendRequest(callbackMap, c, version)
         /\ UNCHANGED replies

(* getApiVersion once the port is known.                                   *)
AskVersion(c) ==
  IF Wrapped(port)
    THEN GiveVersion(c, "1.1")
    ELSE /\ Post(callbackMap, Ask(c), "none", "none")
         /\ UNCHANGED <<jsApiVersion, replies>>

(* A function waiting for the port gets it.                                *)
RunWithPort(closure) ==
  IF closure.stage = "ask"
    THEN AskVersion(closure.call)
    ELSE /\ SendRequest(callbackMap, closure.call, jsApiVersion)
         /\ UNCHANGED <<jsApiVersion, replies>>

-----------------------------------------------------------------------------
(* getMessagePort starts to look for a port on this platform.              *)
StartAcquiring ==
  acquiring' = CASE platform = "chromeRuntime" -> "probing"
                 [] platform \in {"androidChrome", "iosChrome"} -> "timer"
                 [] platform = "other" -> "iframe"

(* Only the first of the calls that wait starts the acquisition.           *)
AlwaysNeedsPort == TRUE
NeedsPortAfterPush == Len(waiting) = 1
NeedsPort == waiting = <<>>

(* sign and register ask for the version first, unless it is known.        *)
SendUnasked(c) == IF Kind[c] = "version" THEN Ask(c) ELSE Send(c)
FirstStep(c) ==
  IF Kind[c] # "version" /\ jsApiVersion # "undefined" THEN Send(c) ELSE Ask(c)

(* u2f.sign, u2f.register or u2f.getApiVersion is called.                  *)
Invoke(c) ==
  /\ ~draining
  /\ c \notin invoked
  /\ invoked' = invoked \cup {c}
  /\ \/ /\ port # "none"
        /\ RunWithPort(FirstStep(c))
        /\ UNCHANGED <<acquiring, waiting>>
     \/ /\ port = "none"
        /\ IF NeedsPort THEN StartAcquiring ELSE UNCHANGED acquiring
        /\ waiting' = Append(waiting, FirstStep(c))
        /\ UNCHANGED <<callVars, outbox>>
  /\ UNCHANGED <<platform, extVersion, port, connected, draining, inbox,
                 repeats, faults>>

(* The extension replies, or not, to the empty request that probes it.     *)
ProbeAnswered ==
  /\ acquiring = "probing"
  /\ acquiring' \in {"timer", "iframe"}
  /\ UNCHANGED <<platform, port, connected, waiting, draining, callVars,
                 extVars, invoked>>

(* The callback of getPortSingleton_ receives its port.                    *)
PortArrives(p) ==
  /\ acquiring' = "done"
  /\ port' = p
  /\ draining' = TRUE
  /\ UNCHANGED <<platform, connected, waiting, callVars, extVars, invoked>>

(* setTimeout(..., 0) of the Chrome, Android or iOS port runs.             *)
TimerFires ==
  /\ acquiring = "timer"
  /\ PortArrives(CASE platform = "chromeRuntime" -> "runtime"
                   [] platform = "androidChrome" -> "android"
                   [] platform = "iosChrome" -> "ios")

(* The iframe has loaded and is sent its end of the channel.               *)
IframeLoaded ==
  /\ acquiring = "iframe"
  /\ acquiring' = "inited"
  /\ UNCHANGED <<platform, port, connected, waiting, draining, callVars,
                 extVars, invoked>>

(* The iframe says "ready".  Any other first message is only logged.       *)
IframeReady ==
  /\ acquiring = "inited"
  /\ PortArrives("message")

(* One turn of the loop over waitingForPort_.  A callback that throws ends *)
(* the loop and leaves the rest of the queue where it is.                  *)
DrainIfNotWhile == FALSE
DrainGoesOn == Tail(waiting) # <<>> /\ ~PostThrows
DrainOne ==
  /\ draining
  /\ waiting # <<>>
  /\ RunWithPort(Head(waiting))
  /\ waiting' = Tail(waiting)
  /\ draining' = DrainGoesOn
  /\ UNCHANGED <<portVars, extVersion, inbox, repeats, faults, invoked>>

-----------------------------------------------------------------------------
(* responseHandler_.                                                       *)
Known(r) == r.id # 0 /\ r.id \in DOMAIN callbackMap
WithoutNothing(map, id) == map
Without(map, id) == Restrict(map, DOMAIN map \ {id})

(* No callback is kept under the number: the response is logged away.      *)
IgnoreResponse(r) ==
  /\ ~draining
  /\ r \in inbox
  /\ ~Known(r)
  /\ inbox' = inbox \ {r}
  /\ UNCHANGED <<portVars, waiting, draining, callVars, extVersion, outbox,
                 repeats, faults, invoked>>

(* The final answer of a call: its callback leaves the map, then runs.     *)
HandleAnswer(r) ==
  /\ ~draining
  /\ r \in inbox
  /\ Known(r)
  /\ LET cb == callbackMap[r.id] IN
       /\ cb = Final(cb.call)
       /\ GiveAnswer(cb.call, Reply(r.origin, r.body))
  /\ callbackMap' = Without(callbackMap, r.id)
  /\ inbox' = inbox \ {r}
  /\ UNCHANGED <<portVars, waiting, draining, reqCounter, jsApiVersion,
                 extVersion, outbox, repeats, faults, invoked>>

(* The version answer of a sign or a register call: its callback leaves    *)
(* the map, the version is stored (an answer without one counts as 0) and  *)
(* the request itself is sent under a new number.                          *)
HandleVersion(r) ==
  /\ ~draining
  /\ r \in inbox
  /\ Known(r)
  /\ LET cb == callbackMap[r.id]
         version == IF r.body = "1.1" THEN "1.1" ELSE "legacy"
     IN
       /\ cb # Final(cb.call)
       /\ jsApiVersion' = version
       /\ SendRequest(Without(callbackMap, r.id), cb.call, version)
  /\ inbox' = inbox \ {r}
  /\ UNCHANGED <<portVars, waiting, draining, replies, extVersion, repeats,
                 faults, invoked>>

-----------------------------------------------------------------------------
(* The extension (external).  What it may say to a request: its version,   *)
(* the result, or an error, which includes its own timeout.                *)
BodiesFor(closure) ==
  IF closure.stage = "ask" THEN {extVersion, "error"} ELSE {"ok", "error"}

(* The iOS wrapper registers no listener: what the app answers is lost.    *)
Listening == port # "ios"

Response(m, body) == [id |-> m.id, origin |-> m.origin, body |-> body]

(* The extension answers a request for good.                               *)
ExtAnswer(m) ==
  /\ m \in outbox
  /\ outbox' = outbox \ {m}
  /\ IF Listening
       THEN \E body \in BodiesFor(m.origin) :
              inbox' = inbox \cup {Response(m, body)}
       ELSE UNCHANGED inbox
  /\ UNCHANGED <<portVars, waiting, draining, callVars, extVersion, repeats,
                 faults, invoked>>

(* It answers a request it will answer once more.                          *)
ExtRepeat(m) ==
  /\ repeats < MaxRepeats
  /\ m \in outbox
  /\ Listening
  /\ \E body \in BodiesFor(m.origin) : inbox' = inbox \cup {Response(m, body)}
  /\ repeats' = repeats + 1
  /\ UNCHANGED <<portVars, waiting, draining, callVars, extVersion, outbox,
                 faults, invoked>>

(* It answers without a request number: the authenticator app that was     *)
(* dismissed sends a message without data, whose number cannot be read.    *)
ExtAnonymous(m) ==
  /\ faults < MaxFaults
  /\ m \in outbox
  /\ Listening
  /\ outbox' = outbox \ {m}
  /\ inbox' = inbox \cup {[Response(m, "error") EXCEPT !.id = 0]}
  /\ faults' = faults + 1
  /\ UNCHANGED <<portVars, waiting, draining, callVars, extVersion, repeats,
                 invoked>>

(* The extension goes away (it is updated, disabled, or it crashes) with   *)
(* the requests it holds, once the page has a connection to it.            *)
Disconnect ==
  /\ faults < MaxFaults
  /\ ~draining
  /\ connected
  /\ \/ port \in {"runtime", "message"}
     \/ acquiring = "timer" /\ platform = "chromeRuntime"
  /\ connected' = FALSE
  /\ outbox' = {}
  /\ faults' = faults + 1
  /\ UNCHANGED <<platform, acquiring, port, waiting, draining, callVars,
                 extVersion, inbox, repeats, invoked>>

-----------------------------------------------------------------------------
Acquire == ProbeAnswered \/ TimerFires \/ IframeLoaded \/ IframeReady
Handle  == \E r \in inbox : IgnoreResponse(r) \/ HandleAnswer(r) \/ HandleVersion(r)
Answer  == \E m \in outbox : ExtAnswer(m)

Next ==
  \/ \E c \in Calls : Invoke(c)
  \/ ProbeAnswered
  \/ TimerFires
  \/ IframeLoaded
  \/ IframeReady
  \/ DrainOne
  \/ \E r \in inbox : IgnoreResponse(r)
  \/ \E r \in inbox : HandleAnswer(r)
  \/ \E r \in inbox : HandleVersion(r)
  \/ \E m \in outbox : ExtAnswer(m)
  \/ \E m \in outbox : ExtRepeat(m)
  \/ \E m \in outbox : ExtAnonymous(m)
  \/ Disconnect

Spec == Init /\ [][Next]_vars

(* The event loop runs what is due: timers, the loop it has entered, the   *)
(* messages that have arrived.  An extension that is installed answers the *)
(* probe, lets its iframe become ready, and answers every request, with an *)
(* error when timeoutSeconds have passed.  Nobody has to make a call.      *)
Fairness ==
  /\ WF_vars(Acquire)
  /\ WF_vars(DrainOne)
  /\ WF_vars(Handle)
  /\ WF_vars(Answer)

FairSpec == Spec /\ Fairness

-----------------------------------------------------------------------------
(* Where the library keeps the callback of a call: positions of the queue  *)
(* and numbers of the map.                                                 *)
Queued(c) == {k \in DOMAIN waiting : waiting[k].call = c}
Mapped(c) == {i \in DOMAIN callbackMap : callbackMap[i].call = c}

(* No call is lost or doubled: whatever the order of acquisition, version  *)
(* round trip, repeated and unnumbered answers and disconnection, a call   *)
(* that was made has its callback in exactly one place (queued for the     *)
(* port, or kept under one request number) until it has run, and in none   *)
(* after that (waitingForPort_, callbackMap_, responseHandler_).           *)
OnePlacePerCall ==
  \A c \in Calls :
    \/ /\ replies[c] = <<>> /\ c \in invoked
       /\ \/ Mapped(c) = {} /\ \E k \in DOMAIN waiting : Queued(c) = {k}
          \/ Queued(c) = {} /\ \E i \in DOMAIN callbackMap : Mapped(c) = {i}
    \/ /\ replies[c] # <<>> \/ c \notin invoked
       /\ Mapped(c) = {} /\ Queued(c) = {}

(* A callback is never given the answer of another call or of its own      *)
(* version round trip, and is never run twice, even when the extension     *)
(* answers a request again after the page has forgotten it.                *)
OwnAnswerOnce ==
  \A c \in Calls :
    /\ Len(replies[c]) <= 1
    /\ \A k \in DOMAIN replies[c] : replies[c][k].origin = Final(c)

(* A request in the 1.1 form only goes to a counterpart that speaks 1.1,   *)
(* however many version round trips race (formatSignRequest_ and           *)
(* formatRegisterRequest_ read the global js_api_version).                 *)
ModernOnlyIfSupported ==
  \A m \in outbox : m.format = "1.1" => extVersion = "1.1" \/ Wrapped(port)

(* No sign or register request leaves before some version answer came      *)
(* back, whether the call found the port, waited for it, or found the      *)
(* version known (u2f.sign, u2f.register).                                 *)
VersionBeforeRequest ==
  (\E m \in outbox : m.origin.stage = "send") => jsApiVersion # "undefined"

(* Once the port is there, only an extension that went away may leave a    *)
(* call waiting for it: the loop of getPortSingleton_ empties the queue,   *)
(* although calls keep arriving until the port does.                       *)
NoStrandedWaiter ==
  (port # "none" /\ ~draining /\ waiting # <<>>) => PostThrows

(* One acquisition serves every call: it never starts over, so no second   *)
(* iframe or port replaces the one the requests went to.                   *)
Progress(a) == CASE a = "idle" -> 0 [] a = "probing" -> 1 [] a = "timer" -> 3
                 [] a = "iframe" -> 2 [] a = "inited" -> 3 [] a = "done" -> 4
AcquireOnce ==
  [][/\ acquiring' # acquiring => Progress(acquiring') > Progress(acquiring)
     /\ port # "none" => port' = port /\ acquiring' = acquiring]_vars

(* Every call is answered in the end, on a platform that listens for       *)
(* answers and with an extension that stays and numbers its answers.       *)
Excused == platform = "iosChrome" \/ faults > 0
EveryCallAnswered ==
  \A c \in Calls : c \in invoked ~> replies[c] # <<>> \/ Excused

-----------------------------------------------------------------------------
(* What the file says of itself and the code does not do.                  *)

(* Comment of getApiVersion: on a mobile phone it will simply return 0.    *)
MobileVersionIsZero ==
  \A c \in Calls : Kind[c] = "version" /\ Wrapped(port) =>
    \A k \in DOMAIN replies[c] : replies[c][k].body = "legacy"

(* Type of a SignRequest: its challenge is a string, also in the 1.0 form, *)
(* which a request takes when the version request was answered with an     *)
(* error or with a version below 1.1.                                      *)
SignRequestChallengeIsString == \A m \in outbox : m.challenge # "object"

-----------------------------------------------------------------------------
(* The library implements U2fCalls.                                        *)
AnswersTo(c) ==
  {Reply(Final(c), b) : b \in IF Kind[c] = "version"
                                THEN {"legacy", "1.1", "error"}
                                ELSE {"ok", "error"}}

phaseBar == [c \in Calls |-> IF replies[c] # <<>> THEN "answered"
                             ELSE IF c \in invoked THEN "pending" ELSE "new"]

U2fCallsBar == INSTANCE U2fCalls WITH phase <- phaseBar, answer <- replies

(* Every step of the library, faults included, is a step of the abstract   *)
(* calls or none: this is the promise a page relies on.                    *)
ImplementsCalls == U2fCallsBar!Spec
=============================================================================
