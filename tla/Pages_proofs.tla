----------------------------- MODULE Pages_proofs -----------------------------
(***************************************************************************)
(* The pages of the server: the pages of the U2F login send their form at  *)
(* most once, from what the library promises (U2fCalls); the page that     *)
(* passes a logout on tells of each service what became of its request,    *)
(* for any number of services; and the browser keeps the types of the page *)
(* it shows and of those that rest.                                        *)
(***************************************************************************)
EXTENDS MCPages, FormScripts_proofs, U2fApi_proofs

(* What the form was sent with, told from what the callback was given.     *)
Withheld(a) == Kind[thePage] = "register" /\ a.body = "error"

Handed ==
  \/ replies[thePage] = <<>> /\ submitted = <<>>
  \/ \E a \in AnswersTo(thePage) :
       /\ replies[thePage] = <<a>>
       /\ submitted = IF Withheld(a) THEN <<>> ELSE <<a>>

PInv ==
  /\ IInv
  /\ thePage \in Calls /\ timer \in {"set", "fired"}
  /\ invoked \subseteq {thePage}
  /\ timer = "set" => invoked = {}
  /\ Handed

-----------------------------------------------------------------------------
(* A step of the page is a step of the library, which makes no other call. *)
LEMMA PageStep ==
  ASSUME PInv, PageNext
  PROVE  /\ [Next]_vars /\ IInv'
         /\ thePage' = thePage /\ timer' \in {"set", "fired"}
         /\ invoked' \subseteq {thePage}
         /\ timer' = "set" => invoked' = {}
         /\ WithCallback
<1>1. CASE TimerFiresOnPage
  <2>1. Next
    BY <1>1 DEF TimerFiresOnPage, Next, PInv
  <2>2. IInv'
    BY <2>1, NextIInv DEF PInv
  <2>3. QED BY <1>1, <2>1, <2>2 DEF TimerFiresOnPage, Invoke, PInv
<1>2. CASE LibraryStep
  <2>1. Next
    BY <1>2 DEF LibraryStep, Next
  <2>2. IInv'
    BY <2>1, NextIInv DEF PInv
  <2>3. invoked' = invoked
    BY <1>2 DEF LibraryStep, ProbeAnswered, TimerFires, IframeLoaded, IframeReady,
       PortArrives, DrainOne, IgnoreResponse, HandleAnswer, HandleVersion, ExtAnswer,
       ExtRepeat, ExtAnonymous, Disconnect
  <2>4. QED BY <1>2, <2>1, <2>2, <2>3 DEF LibraryStep, PInv
<1>3. QED BY <1>1, <1>2 DEF PageNext

(* The library gives the only call its answer, once.                       *)
LEMMA OneAnswer ==
  ASSUME PInv, [Next]_vars, IInv', invoked' \subseteq {thePage}
  PROVE  \/ replies' = replies
         \/ /\ replies[thePage] = <<>>
            /\ \E a \in AnswersTo(thePage) : replies'[thePage] = <<a>>
<1>1. [U2fCallsBar!Next]_U2fCallsBar!callVars
  BY AbstractNext DEF PInv
<1>2. CASE \E c \in Calls : U2fCallsBar!Answer(c) \/ U2fCallsBar!CallAndAnswer(c)
  <2>1. PICK c \in Calls : U2fCallsBar!Answer(c) \/ U2fCallsBar!CallAndAnswer(c)
    BY <1>2
  <2>2. PICK a \in AnswersTo(c) : replies' = [replies EXCEPT ![c] = <<a>>]
    BY <2>1 DEF U2fCallsBar!Answer, U2fCallsBar!CallAndAnswer
  <2>3. phaseBar[c] \in {"new", "pending"}
    BY <2>1 DEF U2fCallsBar!Answer, U2fCallsBar!CallAndAnswer
  <2>4. replies[c] = <<>>
    BY <2>3 DEF phaseBar
  <2>5. c \in invoked'
    <3>1. replies'[c] = <<a>>
      BY <2>2 DEF PInv, IInv, TypeOK
    <3>2. QED BY <3>1 DEF IInv, Answered
  <2>6. QED BY <2>2, <2>4, <2>5 DEF PInv, IInv, TypeOK
<1>3. QED
  BY <1>1, <1>2 DEF U2fCallsBar!Next, U2fCallsBar!Call, U2fCallsBar!callVars

LEMMA InitPInv == PageInit => PInv
<1> SUFFICES ASSUME PageInit PROVE PInv
  OBVIOUS
<1>1. IInv
  BY InitIInv DEF PageInit
<1>2. QED BY <1>1 DEF PageInit, Init, PInv, Handed

LEMMA NextPInv == PInv /\ [PageNext]_pageVars => PInv'
<1> SUFFICES ASSUME PInv, [PageNext]_pageVars PROVE PInv'
  OBVIOUS
<1>1. CASE UNCHANGED pageVars
  <2>1. IInv'
    BY <1>1, NextIInv DEF pageVars, PInv
  <2>2. Handed'
    BY <1>1 DEF pageVars, vars, PInv, Handed, Withheld, AnswersTo, Reply, Final, Send, Ask
  <2>3. QED BY <1>1, <2>1, <2>2 DEF pageVars, vars, PInv
<1>2. CASE PageNext
  <2>1. /\ [Next]_vars /\ IInv'
        /\ thePage' = thePage /\ timer' \in {"set", "fired"}
        /\ invoked' \subseteq {thePage}
        /\ timer' = "set" => invoked' = {}
        /\ WithCallback
    BY <1>2, PageStep
  <2>2. CASE replies' = replies
    <3>1. Handed'
      BY <2>1, <2>2 DEF WithCallback, PInv, Handed, Withheld, AnswersTo, Reply, Final,
         Send, Ask
    <3>2. QED BY <2>1, <3>1 DEF PInv
  <2>3. CASE replies' # replies
    <3>1. PICK a \in AnswersTo(thePage) : replies[thePage] = <<>> /\ replies'[thePage] = <<a>>
      BY <2>1, <2>3, OneAnswer
    <3>2. submitted = <<>>
      BY <3>1 DEF PInv, Handed
    <3>3. Callback(a)
      BY <2>1, <2>3, <3>1 DEF WithCallback
    <3>4. submitted' = IF Withheld(a) THEN <<>> ELSE <<a>>
      BY <3>2, <3>3 DEF Callback, Withheld
    <3>5. Handed'
      BY <2>1, <3>1, <3>4 DEF Handed, Withheld, AnswersTo, Reply, Final, Send, Ask
    <3>6. QED BY <2>1, <3>5 DEF PInv
  <2>4. QED BY <2>2, <2>3
<1>3. QED BY <1>1, <1>2

(* For any platform, any extension and any faults: a page sends its form   *)
(* at most once, with the answer to its own request, and never a           *)
(* registration that failed (the callbacks of both views).                 *)
THEOREM FormSentOnce == PageSpec => []SubmitsOwnAnswerOnce
<1>1. PInv => SubmitsOwnAnswerOnce
  <2> SUFFICES ASSUME PInv PROVE SubmitsOwnAnswerOnce
    OBVIOUS
  <2>1. Kind[thePage] \in {"sign", "register"}
    BY PageAssumption DEF PInv
  <2>2. CASE submitted = <<>>
    BY <2>2 DEF SubmitsOwnAnswerOnce
  <2>3. ASSUME NEW a \in AnswersTo(thePage), replies[thePage] = <<a>>,
               ~Withheld(a), submitted = <<a>>
        PROVE  SubmitsOwnAnswerOnce
    <3>1. a.origin = Send(thePage) /\ a.body \in {"ok", "error"}
      BY <2>1 DEF AnswersTo, Reply, Final
    <3>2. timer # "set"
      BY <2>3 DEF PInv, IInv, Answered
    <3>3. QED BY <2>1, <2>3, <3>1, <3>2 DEF SubmitsOwnAnswerOnce, Withheld
  <2>4. QED BY <2>2, <2>3 DEF PInv, Handed
<1>2. QED BY <1>1, InitPInv, NextPInv, PTL DEF PageSpec

-----------------------------------------------------------------------------
(***************************************************************************)
(* The page that passes a logout on.                                       *)
(***************************************************************************)
(* The counts of the parser, and what they say of each entry: a request is *)
(* sent by the script of its entry, and an answer is missed just if it     *)
(* comes before the icon.  The icon of an entry whose answer was not       *)
(* missed tells it.                                                        *)
LogoutInv ==
  /\ LogoutTypeOK
  /\ missed \subseteq Entries
  /\ \A i \in Entries :
       /\ request[i] = "none" <=> i >= scripts
       /\ icon[i] = "absent" /\ request[i] \in Outcomes => i \in missed
  /\ IconTellsOutcome

LEMMA LogoutStart == LogoutInit => LogoutInv
<1> SUFFICES ASSUME LogoutInit PROVE LogoutInv
  OBVIOUS
<1>1. Count \in Nat /\ \A i \in Entries : i \in Int /\ i >= 0
  BY LogoutAssumption DEF Entries
<1>2. \A i \in Entries : request[i] = "none" /\ icon[i] = "absent"
  BY DEF LogoutInit
<1>3. LogoutTypeOK
  BY <1>1, <1>2 DEF LogoutInit, LogoutTypeOK
<1>4. IconTellsOutcome
  BY <1>2 DEF IconTellsOutcome
<1>5. QED
  BY <1>1, <1>2, <1>3, <1>4 DEF LogoutInv, LogoutInit, Outcomes

LEMMA LogoutStep == LogoutInv /\ [LogoutNext]_logoutVars => LogoutInv'
<1> SUFFICES ASSUME LogoutInv, [LogoutNext]_logoutVars PROVE LogoutInv'
  OBVIOUS
<1>1. /\ Count \in Nat /\ Entries = 0..(Count - 1)
      /\ scripts \in 0..Count /\ icons \in 0..scripts /\ scripts - icons \in 0..1
      /\ request \in [Entries -> {"none", "sent"} \cup Outcomes]
      /\ icon \in [Entries -> {"absent", "pending", "received", "notSent"}]
      /\ \A i \in Entries : icon[i] = "absent" <=> i >= icons
      /\ missed \subseteq Entries
      /\ \A i \in missed : request[i] \in Outcomes /\ icon[i] \in {"absent", "pending"}
      /\ \A i \in Entries : request[i] = "none" <=> i >= scripts
      /\ \A i \in Entries : icon[i] = "absent" /\ request[i] \in Outcomes => i \in missed
  BY LogoutAssumption DEF LogoutInv, LogoutTypeOK, Entries
<1>2. IconTellsOutcome
  BY DEF LogoutInv
<1>3. "none" \notin Outcomes /\ "sent" \notin Outcomes
  BY DEF Outcomes
<1>4. CASE ParseScript
  <2>1. /\ scripts < Count /\ icons = scripts /\ scripts' = scripts + 1
        /\ request' = [request EXCEPT ![scripts] = "sent"]
        /\ UNCHANGED <<icons, icon, missed>>
    BY <1>4 DEF ParseScript
  <2>2. scripts \in Entries /\ request[scripts] = "none" /\ icon[scripts] = "absent"
    BY <1>1, <2>1
  <2>3. /\ request'[scripts] = "sent"
        /\ \A i \in Entries : i # scripts => request'[i] = request[i]
        /\ request' \in [Entries -> {"none", "sent"} \cup Outcomes]
    BY <1>1, <2>1, <2>2
  <2>4. scripts \notin missed
    BY <1>1, <1>3, <2>2
  <2>5. LogoutTypeOK'
    <3>1. scripts' \in 0..Count /\ icons' \in 0..scripts' /\ scripts' - icons' \in 0..1
      BY <1>1, <2>1
    <3>2. \A i \in missed' : request'[i] \in Outcomes /\ icon'[i] \in {"absent", "pending"}
      BY <1>1, <2>1, <2>3, <2>4
    <3>3. \A i \in Entries : icon'[i] = "absent" <=> i >= icons'
      BY <1>1, <2>1
    <3>4. icon' \in [Entries -> {"absent", "pending", "received", "notSent"}]
      BY <1>1, <2>1
    <3>5. QED
      BY <2>3, <3>1, <3>2, <3>3, <3>4 DEF LogoutTypeOK
  <2>6. \A i \in Entries : /\ request'[i] = "none" <=> i >= scripts'
                           /\ icon'[i] = "absent" /\ request'[i] \in Outcomes => i \in missed'
    <3> SUFFICES ASSUME NEW i \in Entries
                 PROVE  /\ request'[i] = "none" <=> i >= scripts'
                        /\ icon'[i] = "absent" /\ request'[i] \in Outcomes => i \in missed'
      OBVIOUS
    <3>1. i \in Int /\ scripts \in Int
      BY <1>1
    <3>2. CASE i = scripts
      BY <1>3, <2>1, <2>3, <3>1, <3>2
    <3>3. CASE i # scripts
      BY <1>1, <2>1, <2>3, <3>1, <3>3
    <3>4. QED
      BY <3>2, <3>3
  <2>7. IconTellsOutcome'
    BY <1>2, <2>1, <2>2, <2>3 DEF IconTellsOutcome
  <2>8. QED
    BY <1>1, <2>1, <2>5, <2>6, <2>7 DEF LogoutInv
<1>5. CASE ParseIcon
  <2>1. /\ icons < scripts /\ icons' = icons + 1
        /\ icon' = [icon EXCEPT ![icons] = "pending"]
        /\ UNCHANGED <<scripts, request, missed>>
    BY <1>5 DEF ParseIcon
  <2>2. icons \in Entries /\ request[icons] # "none" /\ icon[icons] = "absent"
    BY <1>1, <2>1
  <2>3. /\ icon'[icons] = "pending"
        /\ \A i \in Entries : i # icons => icon'[i] = icon[i]
        /\ icon' \in [Entries -> {"absent", "pending", "received", "notSent"}]
    BY <1>1, <2>1, <2>2
  <2>4. request[icons] = "sent" \/ icons \in missed
    BY <1>1, <2>2
  <2>5. \A i \in Entries : icon'[i] = "absent" <=> i >= icons'
    <3> SUFFICES ASSUME NEW i \in Entries PROVE icon'[i] = "absent" <=> i >= icons'
      OBVIOUS
    <3>1. i \in Int /\ icons \in Int
      BY <1>1
    <3>2. QED
      BY <1>1, <2>1, <2>3, <3>1
  <2>6. LogoutTypeOK'
    <3>1. scripts' \in 0..Count /\ icons' \in 0..scripts' /\ scripts' - icons' \in 0..1
      BY <1>1, <2>1
    <3>2. \A i \in missed' : request'[i] \in Outcomes /\ icon'[i] \in {"absent", "pending"}
      BY <1>1, <2>1, <2>3
    <3>3. request' \in [Entries -> {"none", "sent"} \cup Outcomes]
      BY <1>1, <2>1
    <3>4. QED
      BY <2>3, <2>5, <3>1, <3>2, <3>3 DEF LogoutTypeOK
  <2>7. \A i \in Entries : /\ request'[i] = "none" <=> i >= scripts'
                           /\ icon'[i] = "absent" /\ request'[i] \in Outcomes => i \in missed'
    BY <1>1, <2>1, <2>3
  <2>8. IconTellsOutcome'
    BY <1>2, <2>1, <2>3, <2>4 DEF IconTellsOutcome
  <2>9. QED
    BY <1>1, <2>1, <2>6, <2>7, <2>8 DEF LogoutInv
<1>6. ASSUME NEW e \in Entries, NEW o \in Outcomes, ServiceAnswers(e, o)
      PROVE  LogoutInv'
  <2>1. /\ request[e] = "sent" /\ request' = [request EXCEPT ![e] = o]
        /\ icon' = [j \in Entries |->
                      IF j = e /\ icon[j] # "absent"
                      THEN IF Status(o) = 200 THEN "received" ELSE "notSent"
                      ELSE icon[j]]
        /\ missed' = IF icon[e] = "absent" THEN missed \cup {e} ELSE missed
        /\ UNCHANGED <<scripts, icons>>
    BY <1>6 DEF ServiceAnswers, HandleCallback
  <2>2. /\ request'[e] = o
        /\ \A i \in Entries : i # e => request'[i] = request[i]
        /\ request' \in [Entries -> {"none", "sent"} \cup Outcomes]
    BY <1>1, <2>1
  <2>3. /\ \A i \in Entries : i # e => icon'[i] = icon[i]
        /\ icon[e] = "absent" => icon'[e] = "absent"
        /\ icon[e] # "absent" => icon'[e] = IF o = "failed" THEN "notSent" ELSE "received"
        /\ icon' \in [Entries -> {"absent", "pending", "received", "notSent"}]
    BY <1>1, <2>1 DEF Status, Outcomes
  <2>4. e \notin missed
    BY <1>1, <1>3, <2>1
  <2>5. /\ missed' \subseteq Entries /\ missed \subseteq missed'
        /\ \A i \in missed' : i \in missed \/ (i = e /\ icon[e] = "absent")
    BY <1>1, <2>1
  <2>6. LogoutTypeOK'
    <3>1. \A i \in missed' : request'[i] \in Outcomes /\ icon'[i] \in {"absent", "pending"}
      <4>1. ASSUME NEW i \in missed', i = e, icon[e] = "absent"
            PROVE  request'[i] \in Outcomes /\ icon'[i] \in {"absent", "pending"}
        BY <2>2, <2>3, <4>1
      <4>2. ASSUME NEW i \in missed
            PROVE  request'[i] \in Outcomes /\ icon'[i] \in {"absent", "pending"}
        <5>1. i \in Entries /\ i # e
          BY <1>1, <2>4
        <5>2. QED
          BY <1>1, <2>2, <2>3, <5>1
      <4>3. QED
        BY <2>5, <4>1, <4>2
    <3>2. \A i \in Entries : icon'[i] = "absent" <=> i >= icons'
      BY <1>1, <2>1, <2>3
    <3>3. QED
      BY <1>1, <2>1, <2>2, <2>3, <3>1, <3>2 DEF LogoutTypeOK
  <2>7. \A i \in Entries : /\ request'[i] = "none" <=> i >= scripts'
                           /\ icon'[i] = "absent" /\ request'[i] \in Outcomes => i \in missed'
    <3>1. icon[e] = "absent" => e \in missed'
      BY <2>1
    <3>2. QED
      BY <1>1, <1>3, <2>1, <2>2, <2>3, <2>5, <3>1
  <2>8. IconTellsOutcome'
    <3> SUFFICES ASSUME NEW i \in Entries
                 PROVE  /\ icon'[i] = "received" => request'[i] \in {"called", "notCalled"}
                        /\ icon'[i] = "notSent" => request'[i] = "failed"
                        /\ icon'[i] = "pending" => request'[i] = "sent" \/ i \in missed'
      BY DEF IconTellsOutcome
    <3>1. CASE i = e
      BY <2>2, <2>3, <3>1 DEF Outcomes
    <3>2. CASE i # e
      BY <1>2, <2>2, <2>3, <2>5, <3>2 DEF IconTellsOutcome
    <3>3. QED
      BY <3>1, <3>2
  <2>9. QED
    BY <2>5, <2>6, <2>7, <2>8 DEF LogoutInv
<1>7. CASE UNCHANGED logoutVars
  BY <1>7 DEF logoutVars, LogoutInv, LogoutTypeOK, IconTellsOutcome
<1>8. CASE AllAnswered
  BY <1>7, <1>8 DEF AllAnswered
<1>9. QED
  BY <1>4, <1>5, <1>6, <1>7, <1>8 DEF LogoutNext

(* For any number of services and any order of their answers an icon tells *)
(* what became of the request of its own service (handleCallback).         *)
THEOREM IconTells == LogoutSpec => []IconTellsOutcome
<1>1. LogoutInv => IconTellsOutcome
  BY DEF LogoutInv
<1>2. QED
  BY <1>1, LogoutStart, LogoutStep, PTL DEF LogoutSpec

-----------------------------------------------------------------------------
(***************************************************************************)
(* The browser: a step of one page leaves the others alone.                *)
(***************************************************************************)
BrowserInv == PageInv /\ LogoutInv

LEMMA BrowserStart == BrowserInit => BrowserInv
<1>1. FormRests => PageInv
  BY InitPage DEF FormRests
<1>2. LogoutRests => LogoutInv
  <2> SUFFICES ASSUME LogoutRests PROVE LogoutInv
    OBVIOUS
  <2>1. Count \in Nat /\ \A i \in Entries : i \in Int /\ i >= 0 /\ i < Count
    BY LogoutAssumption DEF Entries
  <2>2. \A i \in Entries : request[i] = "called" /\ icon[i] = "received"
    BY DEF LogoutRests
  <2>3. LogoutTypeOK
    BY <2>1, <2>2 DEF LogoutRests, LogoutTypeOK, Outcomes
  <2>4. QED
    BY <2>1, <2>2, <2>3 DEF LogoutInv, LogoutRests, IconTellsOutcome
<1>3. QED
  BY <1>1, <1>2, InitPage, LogoutStart DEF BrowserInit, BrowserInv

LEMMA BrowserStep == BrowserInv /\ [BrowserNext]_allVars => BrowserInv'
<1>1. BrowserNext => [FormNext]_formVars /\ [LogoutNext]_logoutVars
  BY DEF BrowserNext, OnForm, OnU2f, OnLogout
<1>2. UNCHANGED allVars => [FormNext]_formVars /\ [LogoutNext]_logoutVars
  BY DEF allVars
<1>3. QED
  BY <1>1, <1>2, PageInvStep, LogoutStep DEF BrowserInv

(* Whichever page the browser shows, the variables of the pages keep their *)
(* types, and what a logout page missed is never told.                     *)
THEOREM PagesTypeCorrect == BrowserSpec => []PagesTypeOK
<1>1. BrowserInv => PagesTypeOK
  BY DEF BrowserInv, PageInv, LogoutInv, PagesTypeOK
<1>2. QED
  BY <1>1, BrowserStart, BrowserStep, PTL DEF BrowserSpec
=============================================================================
